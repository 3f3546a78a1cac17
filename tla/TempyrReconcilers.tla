-------------------------- MODULE TempyrReconcilers --------------------------
(***************************************************************************)
(* The two daemons that carry what happened into the Tempyr graph: the     *)
(* reconciler of writes left pending, and that of merged pull requests.    *)
(* They share nothing.                                                     *)
(***************************************************************************)
EXTENDS Integers, Sequences, FiniteSets, SequencesExt

(***************************************************************************)
(* jam-tempyr-write-reconciler: a Tempyr write that somebody has left      *)
(* pending is loaded from its request file, tried until it works or the    *)
(* backoff list ends, and its outcome told; a human is told of a failure.  *)
(* Events are handled one after another; what cannot be told or parsed     *)
(* ends the process, and it forgets which writes it has seen.              *)
(***************************************************************************)
CONSTANTS
  Writes,      \* write ids
  Backoffs,    \* delays in the backoff list
  MaxPending,  \* write-pending events, a write may have more than one
  MaxWriteEnds, \* ends of the process
  WriteFaults  \* what may fail: "load", "run", "half", "publish", "event"

ASSUME WriteAssumption ==
  /\ Backoffs \in Nat \ {0} /\ MaxPending \in Nat /\ MaxWriteEnds \in Nat
  /\ WriteFaults \subseteq {"load", "run", "half", "publish", "event"}

VARIABLES
  unsettled, \* pending events published so far
  inbox,     \* the subscription
  seen,      \* write ids this process has taken
  work,      \* the event at hand: [at, w, attempts]
  done,      \* how often the Tempyr graph has got the write
  outcomes,  \* journal: [w, kind, attempts, life]
  humans,    \* notify.human: [w, life]
  life       \* how often the process has started

writeVars == <<unsettled, inbox, seen, work, done, outcomes, humans, life>>

NoWork == [at |-> "none"]
WriteErr(kind) == kind \in WriteFaults
MaxWriteTries == Backoffs + 1

WriteInit ==
  /\ unsettled = 0 /\ inbox = <<>> /\ seen = {} /\ work = NoWork
  /\ done = [w \in Writes |-> 0] /\ outcomes = {} /\ humans = {} /\ life = 1

\* A service journals that a write is pending, perhaps for the second time.
LeavePending(w) ==
  /\ unsettled < MaxPending /\ unsettled' = unsettled + 1
  /\ inbox' = Append(inbox, w)
  /\ UNCHANGED <<seen, work, done, outcomes, humans, life>>

\* The process ends and starts again with a new subscription.
Reborn ==
  /\ life <= MaxWriteEnds
  /\ inbox' = <<>> /\ seen' = {} /\ work' = NoWork /\ life' = life + 1

\* Faulty variant: a write is taken as often as it is told.
TakeWriteAgain ==
  /\ work = NoWork /\ inbox # <<>>
  /\ inbox' = Tail(inbox)
  /\ work' = [at |-> "loading", w |-> Head(inbox), attempts |-> 0]
  /\ UNCHANGED <<unsettled, seen, done, outcomes, humans, life>>

\* parse_pending_message and seen.insert; an event that cannot be parsed ends
\* the process.
TakeWrite ==
  /\ work = NoWork /\ inbox # <<>>
  /\ \/ /\ inbox' = Tail(inbox) /\ seen' = seen \union {Head(inbox)}
        /\ work' = IF Head(inbox) \in seen THEN NoWork
                   ELSE [at |-> "loading", w |-> Head(inbox), attempts |-> 0]
        /\ UNCHANGED life
     \/ WriteErr("event") /\ Reborn
  /\ UNCHANGED <<unsettled, done, outcomes, humans>>

\* load_request: trusted path, the same write, an allowed command, a native
\* worktree; what is not is failed without an attempt.
LoadWrite ==
  /\ work.at = "loading"
  /\ \/ work' = [work EXCEPT !.at = "running"]
     \/ WriteErr("load") /\ work' = [work EXCEPT !.at = "failing"]
  /\ UNCHANGED <<unsettled, inbox, seen, done, outcomes, humans, life>>

\* Faulty variant: a write whose tries are used up counts as confirmed.
RunWriteShort ==
  /\ work.at = "running"
  /\ IF work.attempts >= Backoffs
       THEN work' = [work EXCEPT !.at = "confirming"] /\ UNCHANGED done
       ELSE work' = [work EXCEPT !.attempts = @ + 1] /\ UNCHANGED done
  /\ UNCHANGED <<unsettled, inbox, seen, outcomes, humans, life>>

\* One turn of execute_with_retry: the command succeeds, fails, or fails after
\* it has written.
RunWrite ==
  /\ work.at = "running"
  /\ LET tried == [work EXCEPT !.attempts = @ + 1]
         after == IF tried.attempts = MaxWriteTries THEN [tried EXCEPT !.at = "failing"] ELSE tried
     IN \/ work' = [tried EXCEPT !.at = "confirming"] /\ done' = [done EXCEPT ![work.w] = @ + 1]
        \/ WriteErr("run") /\ work' = after /\ UNCHANGED done
        \/ WriteErr("half") /\ work' = after /\ done' = [done EXCEPT ![work.w] = @ + 1]
  /\ UNCHANGED <<unsettled, inbox, seen, outcomes, humans, life>>

Outcome(kind) == [w |-> work.w, kind |-> kind, attempts |-> work.attempts, life |-> life]

\* publish_confirmed; a write that was done and cannot be told is done again
\* when its event comes again.
TellConfirmed ==
  /\ work.at = "confirming"
  /\ \/ /\ outcomes' = outcomes \union {Outcome("confirmed")} /\ work' = NoWork
        /\ UNCHANGED <<inbox, seen, life>>
     \/ WriteErr("publish") /\ Reborn /\ UNCHANGED outcomes
  /\ UNCHANGED <<unsettled, done, humans>>

TellFailed ==
  /\ work.at = "failing"
  /\ \/ /\ outcomes' = outcomes \union {Outcome("failed")}
        /\ work' = [work EXCEPT !.at = "notifying"]
        /\ UNCHANGED <<inbox, seen, life>>
     \/ WriteErr("publish") /\ Reborn /\ UNCHANGED outcomes
  /\ UNCHANGED <<unsettled, done, humans>>

\* publish_notify_human, after the journal has it.
TellHuman ==
  /\ work.at = "notifying"
  /\ \/ /\ humans' = humans \union {[w |-> work.w, life |-> life]} /\ work' = NoWork
        /\ UNCHANGED <<inbox, seen, life>>
     \/ WriteErr("publish") /\ Reborn /\ UNCHANGED humans
  /\ UNCHANGED <<unsettled, done, outcomes>>

WriteNext ==
  \/ \E w \in Writes : LeavePending(w)
  \/ TakeWrite \/ LoadWrite \/ RunWrite \/ TellConfirmed \/ TellFailed \/ TellHuman
-----------------------------------------------------------------------------

WriteTypeOK ==
  /\ work.at \in {"none", "loading", "running", "confirming", "failing", "notifying"}
  /\ seen \subseteq Writes /\ life \in 1..(MaxWriteEnds + 1)

\* A process tells one outcome of a write, however often the write is left
\* pending; a confirmed one has reached the graph, a failed one was refused at
\* once or tried as often as the backoff list allows, and a human hears only of
\* what the journal calls failed (main.rs:198-226, 364-385).
OutcomeIsTrue ==
  /\ \A o, q \in outcomes : o.w = q.w /\ o.life = q.life => o = q
  /\ \A o \in outcomes :
       IF o.kind = "confirmed" THEN done[o.w] > 0 ELSE o.attempts \in {0, MaxWriteTries}
  /\ \A h \in humans : \E o \in outcomes : o.w = h.w /\ o.life = h.life /\ o.kind = "failed"

-----------------------------------------------------------------------------
(***************************************************************************)
(* jam-tempyr-pr-reconciler: a merged pull request makes an update         *)
(* candidate of every Tempyr node whose text names a path it touched.  The *)
(* daemon hears of merges, or is run once over the journal.  Any failure   *)
(* ends the process; nothing is remembered of what was told.               *)
(***************************************************************************)
CONSTANTS
  NodeOrder,    \* Tempyr nodes, by id
  PrPaths,      \* paths a pull request may touch
  MaxMerges,    \* merges journaled
  PrSyncFaults  \* what may fail: "publish", "graph"

ASSUME PrSyncAssumption ==
  /\ NodeOrder \in Seq(Range(NodeOrder)) /\ IsInjective(NodeOrder)
  /\ MaxMerges \in Nat /\ PrSyncFaults \subseteq {"publish", "graph"}

VARIABLES
  names,      \* names[n]: the paths the text of a node names
  merges,     \* pr.merged events: the usable paths of each, in order
  sync,       \* the process: [at, mode, inbox, todo, replay]
  candidates, \* update candidates told: <<merge, node>>
  whole       \* history: merges the journal had when a replay ended well

prSyncVars == <<names, merges, sync, candidates, whole>>

Asleep == [at |-> "down"]
PrSyncErr(kind) == kind \in PrSyncFaults

PrSyncInit ==
  /\ names \in [Range(NodeOrder) -> SUBSET PrPaths]
  /\ merges = <<>> /\ sync = Asleep /\ candidates = {} /\ whole = 0

\* pr.merged is journaled; the poller leaves the paths out when it could not
\* list them, and a list may hold none that is usable.
MergeJournaled ==
  /\ Len(merges) < MaxMerges
  /\ \E paths \in SUBSET PrPaths : merges' = Append(merges, paths)
  /\ sync' = IF sync.at # "down" /\ sync.mode = "live"
               THEN [sync EXCEPT !.inbox = Append(@, Len(merges) + 1)] ELSE sync
  /\ UNCHANGED <<names, candidates, whole>>

\* run: a subscription, or with --once the merges of the journal in its order.
StartPrSync(mode) ==
  /\ sync.at = "down"
  /\ sync' = [at |-> "waiting", mode |-> mode, upto |-> Len(merges),
              inbox |-> IF mode = "once" THEN [i \in DOMAIN merges |-> i] ELSE <<>>]
  /\ UNCHANGED <<names, merges, candidates, whole>>

\* Faulty variant: one path is enough to look at.
ReferencesFirst(paths) ==
  LET one == CHOOSE p \in paths : TRUE IN {i \in DOMAIN NodeOrder : one \in names[NodeOrder[i]]}

\* find_referencing_nodes: the nodes by their places in the order of the ids.
References(paths) == {i \in DOMAIN NodeOrder : paths \intersect names[NodeOrder[i]] # {}}

\* MergeEvent::from_envelope refuses a merge without usable paths, and with it
\* ends the process; a replay comes to the same event every time.
TakeMerge ==
  /\ sync.at = "waiting" /\ sync.inbox # <<>>
  /\ LET m == Head(sync.inbox)
     IN \/ /\ merges[m] # {}
           /\ sync' = [at |-> "telling", mode |-> sync.mode, upto |-> sync.upto,
                       inbox |-> Tail(sync.inbox), merge |-> m, todo |-> References(merges[m])]
        \/ (merges[m] = {} \/ PrSyncErr("graph")) /\ sync' = Asleep
  /\ UNCHANGED <<names, merges, candidates, whole>>

\* The candidate of the next node; a failed publish leaves the rest untold.
TellCandidate ==
  /\ sync.at = "telling"
  /\ \/ \E i \in sync.todo :
          /\ \A j \in sync.todo : i <= j
          /\ candidates' = candidates \union {<<sync.merge, NodeOrder[i]>>}
          /\ sync' = [sync EXCEPT !.todo = @ \ {i}]
     \/ PrSyncErr("publish") /\ sync.todo # {} /\ sync' = Asleep /\ UNCHANGED candidates
  /\ UNCHANGED <<names, merges, whole>>

EndMerge ==
  /\ sync.at = "telling" /\ sync.todo = {}
  /\ sync' = [f \in {"at", "mode", "upto", "inbox"} |->
                IF f = "at" THEN "waiting" ELSE sync[f]]
  /\ UNCHANGED <<names, merges, candidates, whole>>

\* The replay is complete.
EndReplay ==
  /\ sync.at = "waiting" /\ sync.mode = "once" /\ sync.inbox = <<>>
  /\ whole' = sync.upto /\ sync' = Asleep
  /\ UNCHANGED <<names, merges, candidates>>

StopPrSync ==
  /\ sync.at # "down" /\ sync' = Asleep
  /\ UNCHANGED <<names, merges, candidates, whole>>

PrSyncNext ==
  \/ MergeJournaled \/ \E mode \in {"live", "once"} : StartPrSync(mode)
  \/ TakeMerge \/ TellCandidate \/ EndMerge \/ EndReplay \/ StopPrSync
-----------------------------------------------------------------------------

PrSyncTypeOK ==
  /\ sync.at \in {"down", "waiting", "telling"} /\ whole \in 0..Len(merges)
  /\ candidates \subseteq (DOMAIN merges) \X Range(NodeOrder)

\* A merge touched what the node at a place names.
Touches(m, i) == merges[m] \intersect names[NodeOrder[i]] # {}

\* A node becomes a candidate only of a merge that touched what it names, the
\* nodes of a merge in their order without a gap; after a replay that ended
\* well no reference in the journal it read is without its candidate, whatever
\* lives and replays failed before (main.rs:175-270).
CandidatesFollow ==
  /\ \A m \in DOMAIN merges, i \in DOMAIN NodeOrder : <<m, NodeOrder[i]>> \in candidates =>
       /\ Touches(m, i)
       /\ \A j \in 1..(i - 1) : Touches(m, j) => <<m, NodeOrder[j]>> \in candidates
  /\ \A m \in 1..whole, i \in DOMAIN NodeOrder : Touches(m, i) => <<m, NodeOrder[i]>> \in candidates
=============================================================================
