---------------------------- MODULE TaskLifecycle ----------------------------
(***************************************************************************)
(* The lifecycle daemon (crates/jam-task-lifecycle) on one task, with the  *)
(* parts of the session service, the repo service and GitHub that drive    *)
(* it.  Every journal message is handled by a task of its own: an append   *)
(* to the event store (TaskStream), then the post-Picker coordination,     *)
(* then an update of the task's Tempyr node, a file that is read, changed  *)
(* and written without a lock.  Handlers interleave at their awaits, and   *)
(* anywhere when the runtime has more than one worker thread.              *)
(*                                                                         *)
(* Messages are at most once: whatever the daemon has not finished when it *)
(* dies is gone.  The task is requested and stored when the module starts. *)
(***************************************************************************)
EXTENDS TaskStream, SequencesExt

CONSTANTS
  task,               \* the task
  OperatorSessions,   \* sessions an operator may start with "resume"
  PollTraces,         \* traces of the PR poller's events, one each
  Workers,            \* worker threads of the daemon's runtime
  Faults,             \* what may fail, see FaultKinds
  MaxCrashes,         \* bound: deaths of the daemon
  MaxBacklog          \* bound: messages waiting or handled when one is added

FaultKinds == {"launch", "remote", "late answer", "signal"}

ASSUME TaskAssumption    == Tasks = {task}
ASSUME SessionAssumption == OperatorSessions \subseteq SessionIds
ASSUME WorkersAssumption == Workers \in Nat \ {0}
ASSUME FaultsAssumption  == Faults \subseteq FaultKinds
ASSUME CrashesAssumption == MaxCrashes \in Nat

VARIABLES
  node,      \* the task's file: its status, and whether it can be parsed
  inbox,     \* messages published and not yet begun, in order of arrival
  handlers,  \* messages that are being handled
  sessions,  \* Pickers, as the session service knows them
  handoff,   \* Pickers whose own open-pr is pending in the session service
  prs,       \* pull requests on GitHub
  polled,    \* PollTraces spent
  crashes

lifecycleVars ==
  <<agg, spent, node, inbox, handlers, sessions, handoff, prs, polled, crashes>>
outside == <<sessions, handoff, prs, polled, crashes>>
store   == <<agg, spent>>

NodeTerminal == {"merged", "abandoned", "failed"}
NodeStatuses ==
  {"backlog", "in-progress", "picker-completed", "in-review"} \union NodeTerminal

\* Journal messages.  A synthesized continuation names no real session.
Plain(type, trace)        == [type |-> type, trace |-> trace]
OfSession(type, trace, s) == [type |-> type, trace |-> trace, session |-> s]
OfPr(type, trace, p, by)  == [type |-> type, trace |-> trace, pr |-> p, by |-> by]
Exited(s, success) ==
  [type |-> "picker.exited", trace |-> s, session |-> s, success |-> success]

Key(msg) == <<msg.type, msg.trace>>

Publish(messages) == inbox' = inbox \o messages

\* Handler h goes on to pc, or is done.
GoesOn(h, pc) == handlers' = (handlers \ {h}) \union {[h EXCEPT !.pc = pc]}
Ends(h)       == handlers' = handlers \ {h}

\* A handler that is not at an await holds a worker thread.
Holding == {"stored", "read", "truncated"}

FreeWorker == Cardinality({h \in handlers : h.pc \in Holding}) < Workers

\* adapter::translate
DomainEvent(msg) ==
  CASE msg.type = "picker.spawned" ->
         [type |-> "PickerAssigned", session |-> msg.session]
    [] msg.type = "picker.exited" ->
         [type |-> IF msg.success THEN "PickerSucceeded" ELSE "PickerFailed",
          session |-> msg.session]
    [] msg.type = "pr.opened" -> [type |-> "PrOpened", pr |-> msg.pr]
    [] msg.type = "pr.merged" -> [type |-> "PrMerged", pr |-> msg.pr]
    [] msg.type = "pr.review-received" -> [type |-> "ReviewReceived", pr |-> msg.pr]
    [] msg.type = "picker.continuation-needed" ->
         [type |-> "ContinuationRequested",
          phase |-> ContinuationPhase(HasPr(agg[task]))]
    [] msg.type = "task.failed" -> [type |-> "Failed"]
    [] msg.type = "task.abandoned" -> [type |-> "Abandoned"]

\* Faulty variant: a late spawn or PR moves a finished node.
NodeAfterUnguarded(status, msg) ==
  CASE msg.type = "picker.spawned" -> "in-progress"
    [] msg.type = "pr.opened" -> "in-review"
    [] msg.type = "pr.merged" -> "merged"
    [] OTHER -> status

\* Transition::apply, the status it leaves in the node.
NodeAfter(status, msg) ==
  CASE msg.type = "picker.spawned" ->
         IF status \in NodeTerminal THEN status ELSE "in-progress"
    [] msg.type = "picker.exited" ->
         IF status \in NodeTerminal \union {"in-review"} THEN status
         ELSE IF msg.success THEN "picker-completed" ELSE "failed"
    [] msg.type = "pr.opened" ->
         IF status \in NodeTerminal THEN status ELSE "in-review"
    [] msg.type = "pr.merged" -> "merged"
    [] msg.type = "task.failed" -> IF status = "merged" THEN status ELSE "failed"
    [] msg.type = "task.abandoned" ->
         IF status = "merged" THEN status ELSE "abandoned"

MovesNode == {"picker.spawned", "picker.exited", "pr.opened", "pr.merged",
              "task.failed", "task.abandoned"}
-----------------------------------------------------------------------------

LifecycleInit ==
  /\ agg = [t \in Tasks |-> Apply(NewAggregate, [type |-> "Requested"])]
  /\ spent = {}
  /\ node = [status |-> "backlog", readable |-> TRUE]
  /\ inbox = <<>>
  /\ handlers = {}
  /\ sessions = [s \in SessionIds |-> "unborn"]
  /\ handoff = {}
  /\ prs = [p \in PrRefs |-> "unborn"]
  /\ polled = {}
  /\ crashes = 0

(***************************************************************************)
(* The steps of a handler.                                                 *)
(***************************************************************************)

\* append_to_store; an event whose key is spent is skipped, the handler goes
\* on all the same.
Store(i) ==
  LET msg == inbox[i]
  IN /\ FreeWorker
     /\ \/ AppendEvent(task, DomainEvent(msg), Key(msg))
        \/ Key(msg) \in spent /\ UNCHANGED store
     /\ inbox' = RemoveAt(inbox, i)
     /\ handlers' = handlers \union {[msg |-> msg, pc |-> "stored", read |-> "backlog"]}
     /\ UNCHANGED <<node, outside>>

\* Workers take new tasks in order; each may be overtaken by the others
\* before it reaches the store's mutex.
Takable == 1..(IF Len(inbox) < Workers THEN Len(inbox) ELSE Workers)

Continuation(h, s) == OfSession("picker.continuation-needed", h.msg.trace, s)

\* handle_picker_exited: a failed Picker or a failed pre-check asks for a
\* continuation, otherwise the PR is requested and awaited.
JudgeExit(h) ==
  /\ h.pc = "stored" /\ h.msg.type = "picker.exited"
  /\ \/ GoesOn(h, "judged") /\ Publish(<<Continuation(h, h.msg.session)>>)
     \/ h.msg.success /\ GoesOn(h, "opening") /\ UNCHANGED inbox
  /\ UNCHANGED <<store, node, outside>>

\* open_pr of the repo service: a PR open for the branch is returned again.
OpensPr(p) ==
  /\ IF \E q \in PrRefs : prs[q] = "open" THEN prs[p] = "open" ELSE prs[p] = "unborn"
  /\ prs' = [prs EXCEPT ![p] = "open"]

\* The answer of open-pr.  A transient error asks for a continuation, an
\* unrecoverable one for nothing; after a timeout the PR may be open and the
\* continuation is asked for as well.
OpenPrAnswered(h) ==
  LET opened(p) == OfPr("pr.opened", h.msg.trace, p, "lifecycle")
      again     == Continuation(h, h.msg.session)
  IN /\ h.pc = "opening"
     /\ GoesOn(h, "judged")
     /\ \/ \E p \in PrRefs : OpensPr(p) /\ Publish(<<opened(p)>>)
        \/ Publish(<<again>>) /\ UNCHANGED prs
        \/ "remote" \in Faults /\ UNCHANGED <<inbox, prs>>
        \/ /\ "late answer" \in Faults
           /\ \E p \in PrRefs :
                /\ OpensPr(p)
                /\ Publish(<<opened(p), again>>) \/ Publish(<<again, opened(p)>>)
     /\ UNCHANGED <<store, node, sessions, handoff, polled, crashes>>

\* handle_pr_review_received, and its twins for CI and merge conflicts: the
\* continuation has a placeholder for its session.
AskAfterFeedback(h) ==
  /\ h.pc = "stored" /\ h.msg.type = "pr.review-received"
  /\ Ends(h)
  /\ Publish(<<Continuation(h, NoSession)>>)
  /\ UNCHANGED <<store, node, outside>>

\* handle_continuation_needed, up to its first await.
GoOn(h) ==
  /\ h.pc = "stored" /\ h.msg.type = "picker.continuation-needed"
  /\ CanContinue(agg[task])
  /\ GoesOn(h, "resuming")
  /\ UNCHANGED <<store, node, inbox, outside>>

\* Faulty variant: over the cap, the event is only logged.
GiveUpSilently(h) ==
  /\ h.pc = "stored" /\ h.msg.type = "picker.continuation-needed"
  /\ ~CanContinue(agg[task])
  /\ Ends(h)
  /\ UNCHANGED <<store, node, inbox, outside>>

GiveUp(h) ==
  /\ h.pc = "stored" /\ h.msg.type = "picker.continuation-needed"
  /\ ~CanContinue(agg[task])
  /\ Ends(h)
  /\ Publish(<<Plain("task.failed", h.msg.trace)>>)
  /\ UNCHANGED <<store, node, outside>>

Launched(s) ==
  /\ sessions[s] = "unborn"
  /\ sessions' = [sessions EXCEPT ![s] = "running"]

\* Faulty variant: the harness falls back to the default.
ResumeAcceptsAny(parent) == TRUE

\* SpawnSpec::for_resume: the harness is the prefix of the parent's id, and
\* the placeholder "synthetic:" names none.
ResumeAccepts(parent) == parent # NoSession

Resume(h) ==
  /\ h.pc = "resuming" /\ ResumeAccepts(h.msg.session)
  /\ Ends(h)
  /\ \E s \in SessionIds \ OperatorSessions :
       Launched(s) /\ Publish(<<OfSession("picker.spawned", s, s)>>)
  /\ UNCHANGED <<store, node, handoff, prs, polled, crashes>>

\* The request is refused or fails; a warning is logged.
ResumeFails(h) ==
  /\ h.pc = "resuming"
  /\ ~ResumeAccepts(h.msg.session) \/ "launch" \in Faults
  /\ Ends(h)
  /\ UNCHANGED <<store, node, inbox, outside>>

\* apply_lifecycle_event reads the node.  A file that another handler has
\* truncated, or that a death left truncated, ends the handler.
AtNode(h) ==
  \/ h.pc = "stored" /\ h.msg.type \in MovesNode \ {"picker.exited"}
  \/ h.pc = "judged" /\ FreeWorker

ReadNode(h) ==
  /\ AtNode(h)
  /\ IF node.readable
     THEN handlers' = (handlers \ {h}) \union
                        {[h EXCEPT !.pc = "read", !.read = node.status]}
     ELSE Ends(h)
  /\ UNCHANGED <<store, node, inbox, outside>>

\* fs::write truncates the file, then writes it.
TruncateNode(h) ==
  /\ h.pc = "read"
  /\ node' = [node EXCEPT !.readable = FALSE]
  /\ GoesOn(h, "truncated")
  /\ UNCHANGED <<store, inbox, outside>>

\* Faulty variant: a status that has not changed is not written.
WriteNodeIfMoved(h) ==
  /\ h.pc = "truncated"
  /\ node' = IF NodeAfter(h.read, h.msg) = h.read THEN node
             ELSE [status |-> NodeAfter(h.read, h.msg), readable |-> TRUE]
  /\ Ends(h)
  /\ UNCHANGED <<store, inbox, outside>>

\* Of two writes that overlap the later one leaves its front matter, with the
\* status, perhaps before a rest of the other's text.
WriteNode(h) ==
  /\ h.pc = "truncated"
  /\ node' = [status |-> NodeAfter(h.read, h.msg), readable |-> TRUE]
  /\ Ends(h)
  /\ UNCHANGED <<store, inbox, outside>>

Crash ==
  /\ crashes < MaxCrashes
  /\ handlers # {} \/ inbox # <<>>
  /\ crashes' = crashes + 1
  /\ handlers' = {} /\ inbox' = <<>>
  /\ UNCHANGED <<store, node, sessions, handoff, prs, polled>>

(***************************************************************************)
(* The session service, GitHub and the operator.                           *)
(***************************************************************************)

\* The outside publishes: the bound keeps the number of messages in flight.
Tell(msg) ==
  /\ Len(inbox) + Cardinality(handlers) < MaxBacklog
  /\ Publish(<<msg>>)
  /\ UNCHANGED handlers

\* The maestro dispatches the first Picker.
Dispatch(s) ==
  /\ s \notin OperatorSessions
  /\ \A q \in SessionIds : sessions[q] = "unborn"
  /\ Launched(s)
  /\ Tell(OfSession("picker.spawned", s, s))
  /\ UNCHANGED <<store, node, handoff, prs, polled, crashes>>

\* "resume" in the UI: no status and no other Picker is looked at.
OperatorResumes(s) ==
  /\ s \in OperatorSessions
  /\ \E q \in SessionIds : sessions[q] # "unborn"
  /\ Launched(s)
  /\ Tell(OfSession("picker.spawned", s, s))
  /\ UNCHANGED <<store, node, handoff, prs, polled, crashes>>

\* watch_picker_exit; a success is followed by an open-pr of its own.
PickerExits(s, success) ==
  /\ sessions[s] = "running"
  /\ sessions' = [sessions EXCEPT ![s] = "exited"]
  /\ handoff' = IF success THEN handoff \union {s} ELSE handoff
  /\ Tell(Exited(s, success))
  /\ UNCHANGED <<store, node, prs, polled, crashes>>

\* publish_exit_for_status: a Picker ended by a signal has no exit code.
PickerKilledBySignal(s) ==
  /\ "signal" \in Faults
  /\ sessions[s] = "running"
  /\ sessions' = [sessions EXCEPT ![s] = "exited"]
  /\ UNCHANGED <<store, node, inbox, handlers, handoff, prs, polled, crashes>>

\* maybe_open_pr_for_successful_picker, under the Picker's trace, like the
\* open-pr of the lifecycle daemon.
HandsOff(s) ==
  /\ s \in handoff
  /\ handoff' = handoff \ {s}
  /\ \/ UNCHANGED <<prs, inbox, handlers>>
     \/ \E p \in PrRefs : OpensPr(p) /\ Tell(OfPr("pr.opened", s, p, "session"))
  /\ UNCHANGED <<store, node, sessions, polled, crashes>>

\* full_stop_picker
FullStop(s) ==
  /\ sessions[s] = "running"
  /\ sessions' = [sessions EXCEPT ![s] = "killed"]
  /\ Tell(Plain("task.abandoned", s))
  /\ UNCHANGED <<store, node, handoff, prs, polled, crashes>>

\* The poller tells of new review activity on an open PR, or of its merge.
Reviewed(p, trace) ==
  /\ prs[p] = "open" /\ trace \notin polled
  /\ polled' = polled \union {trace}
  /\ Tell(OfPr("pr.review-received", trace, p, "poller"))
  /\ UNCHANGED <<store, node, sessions, handoff, prs, crashes>>

Merged(p, trace) ==
  /\ prs[p] = "open" /\ trace \notin polled
  /\ polled' = polled \union {trace}
  /\ prs' = [prs EXCEPT ![p] = "merged"]
  /\ Tell(OfPr("pr.merged", trace, p, "poller"))
  /\ UNCHANGED <<store, node, sessions, handoff, crashes>>

HandlerStep(h) ==
  \/ JudgeExit(h) \/ OpenPrAnswered(h) \/ AskAfterFeedback(h)
  \/ GoOn(h) \/ GiveUp(h) \/ Resume(h) \/ ResumeFails(h)
  \/ ReadNode(h) \/ TruncateNode(h) \/ WriteNode(h)

DaemonStep ==
  \/ \E i \in Takable : Store(i)
  \/ \E h \in handlers : HandlerStep(h)

LifecycleNext ==
  \/ DaemonStep
  \/ Crash
  \/ \E s \in SessionIds :
       \/ Dispatch(s) \/ OperatorResumes(s) \/ PickerKilledBySignal(s)
       \/ HandsOff(s) \/ FullStop(s)
       \/ \E success \in BOOLEAN : PickerExits(s, success)
  \/ \E p \in PrRefs, trace \in PollTraces : Reviewed(p, trace) \/ Merged(p, trace)

LifecycleSpec == LifecycleInit /\ [][LifecycleNext]_lifecycleVars

\* The daemon goes on while it has something to do: its runtime polls what is
\* ready, and requests to other services are answered or time out.  Nothing is assumed of
\* Pickers, operators and GitHub.
Fairness == WF_lifecycleVars(DaemonStep)

FairLifecycleSpec == LifecycleSpec /\ Fairness
-----------------------------------------------------------------------------

Running == {s \in SessionIds : sessions[s] = "running"}

Messages ==
  [type: {"task.failed", "task.abandoned"}, trace: SessionIds \union PollTraces]
    \union [type: {"picker.spawned"}, trace: SessionIds, session: SessionIds]
    \union [type: {"picker.exited"}, trace: SessionIds, session: SessionIds,
            success: BOOLEAN]
    \union [type: {"picker.continuation-needed"},
            trace: SessionIds \union PollTraces, session: SessionIds \union {NoSession}]
    \union [type: {"pr.opened", "pr.merged", "pr.review-received"},
            trace: SessionIds \union PollTraces, pr: PrRefs,
            by: {"lifecycle", "session", "poller"}]

\* The key of a message is one of the store's keys.
ASSUME KeysAssumption == \A msg \in Messages : Key(msg) \in Keys

Handlers ==
  [msg: Messages, read: NodeStatuses,
   pc: {"stored", "opening", "judged", "resuming", "read", "truncated"}]

LifecycleTypeOK ==
  /\ StreamTypeOK
  /\ node \in [status: NodeStatuses, readable: BOOLEAN]
  /\ \A i \in DOMAIN inbox : inbox[i] \in Messages
  /\ handlers \subseteq Handlers
  /\ sessions \in [SessionIds -> {"unborn", "running", "exited", "killed"}]
  /\ handoff \subseteq SessionIds
  /\ prs \in [PrRefs -> {"unborn", "open", "merged"}]
  /\ polled \subseteq PollTraces
  /\ crashes \in 0..MaxCrashes

\* All Pickers of a task work in one worktree.  Without an operator there is
\* never a second one at work, although PR feedback, answers of open-pr that
\* come after their timeout and ends of Pickers ask for continuations at any
\* time (JudgeExit, AskAfterFeedback, Resume).
OnePickerPerWorktree == Cardinality(Running) <= 1

\* A task that has no PR is never given more Pickers than the cap: the count
\* is in the store, and survives the daemon (handle_continuation_needed).
PickersBoundedBeforePr ==
  (\A p \in PrRefs : prs[p] = "unborn") =>
    Cardinality({s \in SessionIds \ OperatorSessions : sessions[s] # "unborn"})
      <= CONTINUATION_CAP

StoredContinuations == {k \in spent : k[1] = "picker.continuation-needed"}

\* No task fails that was not asked to continue as often as the cap, in
\* whatever phases, and however the counts were reset in between.
FailedAfterCap ==
  agg[task].status = "Failed" =>
    Cardinality(StoredContinuations) >= CONTINUATION_CAP

\* main.rs:464: tasks that reached merged "must not be silently demoted back
\* to in-progress or in-review by a late event".  With two worker threads a
\* handler that read the node before the merge was written writes after it.
MergedNodeKept ==
  [][node.status = "merged" => node'.status = "merged"]_lifecycleVars

\* However the writes of the handlers overlap, a node that cannot be parsed is
\* still being written by one of them: it is repaired unless the daemon dies in
\* the write (TaskNode::write, apply_lifecycle_event).
UnreadableWhileWritten ==
  crashes = 0 /\ ~node.readable => \E h \in handlers : h.pc = "truncated"

\* Without faults and deaths no task is left behind: after every end of a
\* Picker the task comes to a PR, to a new Picker or to an end, however its
\* pre-checks and open-pr calls go (handle_picker_exited,
\* handle_continuation_needed; the failure at the cap is what ends it).  But
\* the end of a Picker may overtake its spawn on another thread, so far that
\* the spawn is stored after the PR: it makes the task Active once more, with
\* nobody at work.  Such behaviours are left out.
Settled ==
  agg[task].status \in TerminalStatuses \union {"InReview"} \/ Running # {}

StoredInOrder ==
  \A s \in SessionIds :
    Key(Exited(s, TRUE)) \in spent => Key(OfSession("picker.spawned", s, s)) \in spent

ExitIsSettled ==
  []StoredInOrder => \A s \in SessionIds : sessions[s] = "exited" ~> Settled

(***************************************************************************)
(* What comments and documents of the repository say and the code does not *)
(* do.  Quiet: every message is handled, so no event is still on its way.  *)
(***************************************************************************)
Quiet == inbox = <<>> /\ handlers = {} /\ handoff = {}

\* post_picker.rs:260, of the placeholder for the session: "the resume tool
\* only needs task_id to find the worktree".
ResumeNeedsOnlyTask ==
  \A h \in handlers : h.pc = "resuming" => ResumeAccepts(h.msg.session)

\* main.rs:7: the node is "derived from the aggregate as a side-effect": a
\* task in review in the one is in review in the other.
NodeFollowsStore ==
  Quiet /\ agg[task].status = "InReview" => node.status = "in-review"

\* The cap on continuations holds and is the only reason to give up: no more
\* Pickers than it allows before a PR, and no failed task below it
\* (post_picker.rs:320-370, aggregate.rs:530).
CapHolds == PickersBoundedBeforePr /\ FailedAfterCap
=============================================================================
