------------------------------ MODULE PrPoller ------------------------------
(***************************************************************************)
(* crates/jam-pr-poller: the poller follows every pull request of which a  *)
(* pr.opened was journaled, asks GitHub for it with the ETag of the last   *)
(* answer, and journals what has changed.  Its memory is a record for each *)
(* PR; a restart rebuilds the records from the journal.                    *)
(*                                                                         *)
(* A poll is one async function: every GitHub call and every publish is a  *)
(* step of its own, GitHub moves on between them, each may fail, and the   *)
(* process may die between any two.  The select loop runs nothing else of  *)
(* the poller while a poll is in progress.  When a poll is due (30 s or    *)
(* 5 min) is not modelled: any tracked PR may be polled next.              *)
(***************************************************************************)
EXTENDS Integers

CONSTANTS
  Prs,          \* pull request references
  CiStatuses,   \* values of CiObservation GitHub reports, without "unknown"
  Faults,       \* calls that may fail: a subset of FaultKinds
  MaxRev,       \* bound: revisions of a PR's body on GitHub
  MaxOpened,    \* bound: pr.opened events for one PR
  MaxCrashes    \* bound: crashes of the poller

FaultKinds == {"fetch", "files", "publish", "update", "ci", "denied"}

ASSUME FaultsAssumption == Faults \subseteq FaultKinds
ASSUME BoundsAssumption == MaxRev \in Nat \ {0} /\ MaxOpened \in Nat /\ MaxCrashes \in Nat

VARIABLES
  gh,        \* gh[pr]: the PR on GitHub; rev stands for its ETag
  opens,     \* opens[pr]: pr.opened events journaled for pr
  pending,   \* pending[pr]: pr.opened messages in the subscription
  phase,     \* of the process: "down", "loaded" (not subscribed yet), "up"
  records,   \* records[pr]: the poller's record, or Untracked
  poll,      \* the poll in progress
  saved,     \* saved[pr]: the record a replay of the journal gives
  told,      \* history: what the journal has been told, not in the code
  crashes

vars == <<gh, opens, pending, phase, records, poll, saved, told, crashes>>

Ci         == CiStatuses \union {"unknown"}
States     == {"open", "closed"}
Mergeables == {"clean", "behind", "dirty"}
NoCount    == -1
NoHead     == 0

Pulls == [rev: 1..MaxRev, state: States, merged: BOOLEAN, head: 1..MaxRev,
          reviews: 0..MaxRev, mergeable: Mergeables, ci: Ci]

NewPull == [rev |-> 1, state |-> "open", merged |-> FALSE, head |-> 1,
            reviews |-> 0, mergeable |-> "clean", ci |-> "unknown"]

Untracked == [tracked |-> FALSE]
NoPoll    == [at |-> "idle"]

\* Faulty variant: a head that looks like a missing count.
FromOpenedNoHead ==
  [tracked |-> TRUE, etag |-> 0, head |-> NoCount, status |-> "none",
   ci |-> "none", ciUnavailable |-> FALSE, reviews |-> NoCount,
   updateHead |-> NoHead, conflictHead |-> NoHead]

\* ActivePr::from_opened
FromOpened ==
  [tracked |-> TRUE, etag |-> 0, head |-> NoHead, status |-> "none",
   ci |-> "none", ciUnavailable |-> FALSE, reviews |-> NoCount,
   updateHead |-> NoHead, conflictHead |-> NoHead]

Records == [tracked: {TRUE}, etag: 0..MaxRev, head: 0..MaxRev,
            status: States \union {"none"}, ci: Ci \union {"none"},
            ciUnavailable: BOOLEAN, reviews: {NoCount} \union 0..MaxRev,
            updateHead: 0..MaxRev, conflictHead: 0..MaxRev]

NothingTold == [status |-> "none", ci |-> "none", seen |-> NoCount,
                merged |-> FALSE, sawMerge |-> FALSE,
                updates |-> {}, lately |-> {}]

IsClosed(rec) == rec.status = "closed"

\* Faulty variants: a replay that does not rebuild the CI status, or the head
\* of the last update-branch.
RebuiltWithoutCi      == {"pr.status-changed", "pr.branch-updated"}
RebuiltWithoutUpdates == {"pr.status-changed", "pr.ci.status-changed"}

\* Review counts, conflict heads and ETags are not rebuilt by a replay.
Rebuilt == {"pr.status-changed", "pr.ci.status-changed", "pr.branch-updated"}

\* Faulty variants: a replay that keeps merged PRs, or drops closed ones.
RemovesNothing(ev) == FALSE
RemovesClosed(ev)  ==
  \/ ev.type = "pr.merged"
  \/ ev.type = "pr.status-changed" /\ ev.value = "closed"

Removes(ev) == ev.type = "pr.merged"

\* apply_journal_envelope: what a replay makes of the next event.
Replayed(rec, ev) ==
  CASE ev.type = "pr.opened" -> FromOpened
    [] ev.type # "pr.opened" /\ (rec = Untracked \/ Removes(ev)) -> Untracked
    [] OTHER ->
         IF ev.type \notin Rebuilt THEN rec
         ELSE CASE ev.type = "pr.status-changed" -> [rec EXCEPT !.status = ev.value]
                [] ev.type = "pr.ci.status-changed" -> [rec EXCEPT !.ci = ev.value]
                [] ev.type = "pr.branch-updated" -> [rec EXCEPT !.updateHead = ev.value]

Event(type, value) == [type |-> type, value |-> value]

Noted(h, ev) ==
  CASE ev.type = "pr.status-changed" -> [h EXCEPT !.status = ev.value]
    [] ev.type = "pr.ci.status-changed" -> [h EXCEPT !.ci = ev.value]
    [] ev.type = "pr.review-received" -> [h EXCEPT !.seen = @ + ev.value]
    [] ev.type = "pr.merged" -> [h EXCEPT !.merged = TRUE]
    [] ev.type = "pr.branch-updated" -> [h EXCEPT !.updates = @ \union {ev.value}]
    [] ev.type = "pr.merge-conflict-detected" -> [h EXCEPT !.lately = @ \union {ev.value}]
    [] OTHER -> h

Init ==
  /\ gh = [pr \in Prs |-> NewPull]
  /\ opens = [pr \in Prs |-> 0]
  /\ pending = [pr \in Prs |-> 0]
  /\ phase = "down"
  /\ records = [pr \in Prs |-> Untracked]
  /\ poll = NoPoll
  /\ saved = [pr \in Prs |-> Untracked]
  /\ told = [pr \in Prs |-> NothingTold]
  /\ crashes = 0
-----------------------------------------------------------------------------
(* GitHub, and the repo service that opens the PR and journals pr.opened.  *)

pollerVars == <<opens, pending, phase, records, poll, saved, told, crashes>>

\* open-pr journals pr.opened when it creates the PR and again when it finds
\* the PR open already.
OpenPr(pr) ==
  /\ opens[pr] < MaxOpened
  /\ gh[pr].state = "open"
  /\ opens' = [opens EXCEPT ![pr] = @ + 1]
  /\ saved' = [saved EXCEPT ![pr] = Replayed(@, Event("pr.opened", pr))]
  /\ pending' = IF phase = "up" THEN [pending EXCEPT ![pr] = @ + 1] ELSE pending
  /\ UNCHANGED <<gh, phase, records, poll, told, crashes>>

Change(pr, pull) ==
  /\ opens[pr] > 0
  /\ ~gh[pr].merged
  /\ gh[pr].rev < MaxRev
  /\ gh' = [gh EXCEPT ![pr] = [pull EXCEPT !.rev = @ + 1]]
  /\ UNCHANGED pollerVars

Comment(pr)    == Change(pr, [gh[pr] EXCEPT !.reviews = @ + 1])
Push(pr)       == Change(pr, [gh[pr] EXCEPT !.head = @ + 1, !.mergeable = "clean"])
BaseMoves(pr)  == \E m \in Mergeables :
                    m # gh[pr].mergeable /\ Change(pr, [gh[pr] EXCEPT !.mergeable = m])
Close(pr)      == gh[pr].state = "open" /\ Change(pr, [gh[pr] EXCEPT !.state = "closed"])
Reopen(pr)     == gh[pr].state = "closed" /\ Change(pr, [gh[pr] EXCEPT !.state = "open"])
Merge(pr)      == gh[pr].state = "open"
                    /\ Change(pr, [gh[pr] EXCEPT !.state = "closed", !.merged = TRUE])
\* Checks of a commit are not part of the PR's body: no new ETag.
CiMoves(pr)    == \E c \in Ci : /\ opens[pr] > 0 /\ c # gh[pr].ci
                                /\ gh' = [gh EXCEPT ![pr].ci = c]
                                /\ UNCHANGED pollerVars

GitHub(pr) == \/ Comment(pr) \/ Push(pr) \/ BaseMoves(pr) \/ Close(pr)
              \/ Reopen(pr) \/ Merge(pr) \/ CiMoves(pr)
-----------------------------------------------------------------------------
(* The process: start, subscription, death.                                *)

\* load_journal runs before the subscription to journal.pr.opened.  A replay
\* takes a new baseline of the comments and knows no conflict it has told, so
\* told.lately holds the heads whose conflict was told since this start.
Load ==
  /\ phase = "down"
  /\ phase' = "loaded"
  /\ records' = saved
  /\ told' = [pr \in Prs |-> [told[pr] EXCEPT !.seen = NoCount, !.lately = {}]]
  /\ UNCHANGED <<gh, opens, pending, poll, saved, crashes>>

Subscribe ==
  /\ phase = "loaded"
  /\ phase' = "up"
  /\ UNCHANGED <<gh, opens, pending, records, poll, saved, told, crashes>>

Crash ==
  /\ phase # "down" /\ crashes < MaxCrashes
  /\ crashes' = crashes + 1
  /\ phase' = "down"
  /\ records' = [pr \in Prs |-> Untracked]
  /\ pending' = [pr \in Prs |-> 0]
  /\ poll' = NoPoll
  /\ UNCHANGED <<gh, opens, saved, told>>

\* handle_pr_opened: the record is replaced, whatever it remembered.
HandleOpened(pr) ==
  /\ phase = "up" /\ poll = NoPoll /\ pending[pr] > 0
  /\ pending' = [pending EXCEPT ![pr] = @ - 1]
  /\ records' = [records EXCEPT ![pr] = FromOpened]
  /\ UNCHANGED <<gh, opens, phase, poll, saved, told, crashes>>
-----------------------------------------------------------------------------
(* One poll.  poll.rec is the record, out of the map for its duration, and *)
(* poll.snap the answer of GitHub.                                         *)

kept == <<gh, opens, pending, phase, crashes>>

Proceed(rec, next) ==
  /\ poll' = [poll EXCEPT !.rec = rec, !.at = next]
  /\ UNCHANGED records

\* poll_records: after a poll, failed or not, a closed PR is dropped.
Finish(pr, rec) ==
  /\ poll' = NoPoll
  /\ records' = [records EXCEPT ![pr] = IF IsClosed(rec) THEN Untracked ELSE rec]

Quietly == UNCHANGED <<saved, told>>

\* A publish with `before` in the record; on an error the poll ends there.
Tell(ev, before, after, next) ==
  \/ /\ saved' = [saved EXCEPT ![poll.pr] = Replayed(@, ev)]
     /\ told' = [told EXCEPT ![poll.pr] = Noted(@, ev)]
     /\ Proceed(after, next)
  \/ /\ "publish" \in Faults
     /\ Finish(poll.pr, before)
     /\ Quietly

Pollable(pr) == phase = "up" /\ poll = NoPoll /\ records[pr] # Untracked

FetchFails(pr) ==
  /\ Pollable(pr) /\ "fetch" \in Faults
  /\ Finish(pr, records[pr])
  /\ Quietly /\ UNCHANGED kept

\* 304: only the checks are looked at.
FetchUnmodified(pr) ==
  /\ Pollable(pr) /\ records[pr].etag = gh[pr].rev
  /\ poll' = [at |-> "ci", pr |-> pr, rec |-> records[pr], snap |-> gh[pr]]
  /\ records' = [records EXCEPT ![pr] = Untracked]
  /\ Quietly /\ UNCHANGED kept

\* 200: the ETag is taken over before the answer is looked at.
FetchModified(pr) ==
  /\ Pollable(pr) /\ records[pr].etag # gh[pr].rev
  /\ poll' = [at |-> "status", pr |-> pr, snap |-> gh[pr],
              rec |-> [records[pr] EXCEPT !.etag = gh[pr].rev, !.head = gh[pr].head]]
  /\ records' = [records EXCEPT ![pr] = Untracked]
  /\ told' = [told EXCEPT ![pr].sawMerge = gh[pr].merged]
  /\ UNCHANGED saved /\ UNCHANGED kept

ObserveStatus ==
  /\ poll.at = "status"
  /\ \/ /\ poll.rec.status = poll.snap.state
        /\ Proceed(poll.rec, "merged")
        /\ Quietly
     \/ /\ poll.rec.status # poll.snap.state
        /\ Tell(Event("pr.status-changed", poll.snap.state), poll.rec,
                [poll.rec EXCEPT !.status = poll.snap.state], "merged")
  /\ UNCHANGED kept

\* A merge is journaled with the paths it touched, from a second call.
ObserveMerged ==
  /\ poll.at = "merged"
  /\ \/ ~poll.snap.merged /\ Proceed(poll.rec, "reviews") /\ Quietly
     \/ poll.snap.merged /\ "files" \in Faults /\ Finish(poll.pr, poll.rec) /\ Quietly
     \/ poll.snap.merged
          /\ Tell(Event("pr.merged", poll.pr), poll.rec, poll.rec, "reviews")
  /\ UNCHANGED kept

\* Faulty variant: only the baseline is taken over.
CountedOnce(rec) ==
  IF rec.reviews = NoCount THEN [rec EXCEPT !.reviews = poll.snap.reviews] ELSE rec

Counted(rec) == [rec EXCEPT !.reviews = poll.snap.reviews]

\* The first count is a baseline and is not told.
ObserveReviews ==
  /\ poll.at = "reviews"
  /\ \/ /\ poll.rec.reviews = NoCount
        /\ told' = [told EXCEPT ![poll.pr].seen = poll.snap.reviews]
        /\ Proceed(Counted(poll.rec), "behind")
        /\ UNCHANGED saved
     \/ /\ poll.rec.reviews # NoCount /\ poll.snap.reviews <= poll.rec.reviews
        /\ Proceed(Counted(poll.rec), "behind")
        /\ Quietly
     \/ /\ poll.rec.reviews # NoCount /\ poll.snap.reviews > poll.rec.reviews
        /\ Tell(Event("pr.review-received", poll.snap.reviews - poll.rec.reviews),
                poll.rec, Counted(poll.rec), "behind")
  /\ UNCHANGED kept

Open(snap) == snap.state = "open" /\ ~snap.merged

NeedsUpdate(rec, snap) ==
  snap.mergeable = "behind" /\ Open(snap) /\ rec.updateHead # snap.head

\* update-branch, once for a head: started and told, refused for good, or to
\* be tried again.
ObserveBehind ==
  LET tried == [poll.rec EXCEPT !.updateHead = poll.snap.head]
  IN /\ poll.at = "behind"
     /\ \/ ~NeedsUpdate(poll.rec, poll.snap) /\ Proceed(poll.rec, "conflict") /\ Quietly
        \/ NeedsUpdate(poll.rec, poll.snap)
             /\ Tell(Event("pr.branch-updated", poll.snap.head), tried, tried, "conflict")
        \/ NeedsUpdate(poll.rec, poll.snap) /\ "update" \in Faults
             /\ \E rec \in {tried, poll.rec} : Proceed(rec, "conflict")
             /\ Quietly
     /\ UNCHANGED kept

\* Faulty variant: every conflicting snapshot is told.
ConflictAlways(rec, snap) == snap.mergeable = "dirty" /\ Open(snap)

NewConflict(rec, snap) ==
  snap.mergeable = "dirty" /\ Open(snap) /\ rec.conflictHead # snap.head

\* The head is remembered before the event is out.
ObserveConflict ==
  LET noted == [poll.rec EXCEPT !.conflictHead = poll.snap.head]
  IN /\ poll.at = "conflict"
     /\ \/ ~NewConflict(poll.rec, poll.snap) /\ Proceed(poll.rec, "ci") /\ Quietly
        \/ NewConflict(poll.rec, poll.snap)
             /\ Tell(Event("pr.merge-conflict-detected", poll.snap.head),
                     noted, noted, "ci")
     /\ UNCHANGED kept

\* poll_ci_if_possible, for a status that was read.
ReportCi(rec, status) ==
  \/ /\ rec.ci = status
     /\ Proceed(rec, "end")
     /\ Quietly
  \/ /\ rec.ci # status
     /\ Tell(Event("pr.ci.status-changed", status), rec,
             [rec EXCEPT !.ci = status], "end")

ObserveCi ==
  /\ poll.at = "ci"
  /\ \/ poll.rec.ciUnavailable /\ Proceed(poll.rec, "end") /\ Quietly
     \/ ~poll.rec.ciUnavailable /\ ReportCi(poll.rec, gh[poll.pr].ci)
     \/ ~poll.rec.ciUnavailable /\ "denied" \in Faults
          /\ ReportCi([poll.rec EXCEPT !.ciUnavailable = TRUE], "unknown")
     \/ ~poll.rec.ciUnavailable /\ "ci" \in Faults
          /\ Finish(poll.pr, poll.rec) /\ Quietly
  /\ UNCHANGED kept

EndPoll ==
  /\ poll.at = "end"
  /\ Finish(poll.pr, poll.rec)
  /\ Quietly /\ UNCHANGED kept

PollStep == \/ ObserveStatus \/ ObserveMerged \/ ObserveReviews
            \/ ObserveBehind \/ ObserveConflict \/ ObserveCi \/ EndPoll

Fetch(pr) == FetchUnmodified(pr) \/ FetchModified(pr)

Next ==
  \/ \E pr \in Prs : OpenPr(pr) \/ GitHub(pr) \/ HandleOpened(pr)
                     \/ Fetch(pr) \/ FetchFails(pr)
  \/ Load \/ Subscribe \/ Crash \/ PollStep

Spec == Init /\ [][Next]_vars

\* The loop ticks, the supervisor restarts the process, and a message in the
\* subscription is handled: select! is fair between its branches.  A fetch
\* that is tried for ever succeeds at some time.
FairnessOnceLoaded ==
  /\ WF_vars(Subscribe) /\ WF_vars(PollStep)
  /\ \A pr \in Prs : SF_vars(Fetch(pr)) /\ SF_vars(HandleOpened(pr))

FairSpec == Spec /\ WF_vars(Load) /\ FairnessOnceLoaded
-----------------------------------------------------------------------------

TypeOK ==
  /\ gh \in [Prs -> Pulls]
  /\ opens \in [Prs -> 0..MaxOpened] /\ pending \in [Prs -> 0..MaxOpened]
  /\ phase \in {"down", "loaded", "up"} /\ crashes \in 0..MaxCrashes
  /\ \A pr \in Prs : records[pr] = Untracked \/ records[pr] \in Records
  /\ \A pr \in Prs : saved[pr] = Untracked \/ saved[pr] \in Records
  /\ \/ poll = NoPoll
     \/ poll \in
          [at: {"status", "merged", "reviews", "behind", "conflict", "ci", "end"},
           pr: Prs, rec: Records, snap: Pulls]

\* The records the poller works with: the one in the map, or in the poll.
Memory(pr) ==
  ({records[pr]} \ {Untracked})
    \union (IF poll # NoPoll /\ poll.pr = pr THEN {poll.rec} ELSE {})

\* What follows is promised of a PR whose pr.opened was journaled once: a
\* second one replaces the record (handle_pr_opened, apply_journal_envelope).
OpenedOnce(pr) == opens[pr] <= 1

\* "Emits journal events only when observed PR/review/CI state changes": the
\* memory an event is compared with is the last one journaled, through
\* failed polls and restarts, so no status and no CI status is told twice.
OnlyChangesTold ==
  \A pr \in Prs : \A rec \in Memory(pr) : OpenedOnce(pr) =>
    rec.status = told[pr].status /\ rec.ci = told[pr].ci

\* The count of comments a record remembers is the baseline of this life and
\* all that was told since: a comment whose publish failed is still owed by the
\* record and none is told twice (main.rs:654-673).  It does not say when: the
\* ETag is stored before the answer is told (561-563), so what is owed waits for
\* the next change of the PR; a restart takes a new baseline.
ReviewsAccounted ==
  \A pr \in Prs : \A rec \in Memory(pr) : OpenedOnce(pr) =>
    (rec.reviews # NoCount => rec.reviews = told[pr].seen)

\* update-branch is not called again for a head the journal has it for, also
\* after a restart (apply_journal_envelope rebuilds the key).
UpdateBranchOncePerHead ==
  poll.at = "behind" /\ OpenedOnce(poll.pr) /\ NeedsUpdate(poll.rec, poll.snap) =>
    poll.snap.head \notin told[poll.pr].updates

\* A conflict is told once for a head in one life of the poller: the lifecycle
\* service dispatches a Picker for each one.  A replay does not rebuild the
\* heads (apply_journal_envelope), so the next life may tell it again.
ConflictOncePerHead ==
  poll.at = "conflict" /\ OpenedOnce(poll.pr) /\ NewConflict(poll.rec, poll.snap) =>
    poll.snap.head \notin told[poll.pr].lately

\* pr.merged is journaled at most once.
MergeToldOnce ==
  poll.at = "merged" /\ OpenedOnce(poll.pr) /\ poll.snap.merged => ~told[poll.pr].merged

\* "pr-status-poller next polls notices the merge, emits pr.merged": a PR
\* that was seen merged is not dropped before the journal knows.
MergeReported ==
  \A pr \in Prs :
    phase = "up" /\ told[pr].sawMerge /\ Memory(pr) = {} => told[pr].merged

\* A PR that was seen merged is dropped in the end, and the journal knows of
\* the merge, also when the poller dies in between.
MergeSettled ==
  \A pr \in Prs : told[pr].sawMerge ~> told[pr].merged /\ Memory(pr) = {}

\* What makes another service act is done once for its cause, through failed
\* calls: one update-branch for a head and one merge for a PR, over restarts
\* too, and one conflict for a head in each life (main.rs:627-766).
ActedOncePerCause == UpdateBranchOncePerHead /\ ConflictOncePerHead /\ MergeToldOnce
=============================================================================
