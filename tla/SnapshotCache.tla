---------------------------- MODULE SnapshotCache ----------------------------
(***************************************************************************)
(* The world snapshots of one task (crates/jam-svc-observe): compiled from *)
(* the journal's files, kept for a TTL, dropped when an event of the task  *)
(* is on the bus, and answered whole or as the fields that changed since a *)
(* time the caller names.  Requests run at the same time; the files are    *)
(* written by jam-nats-bridge after the event was heard.                   *)
(***************************************************************************)
EXTENDS Naturals

CONSTANTS
  Callers,   \* the Maestro's instances
  MaxFacts,  \* bound: events of the task
  MaxCalls   \* bound: requests, each of which may compile one snapshot

ASSUME SnapshotBoundsAssumption == {MaxFacts, MaxCalls} \subseteq Nat

VARIABLES
  occurred,  \* events of the task that were published
  onDisk,    \* ... that the journal's files have
  unheard,   \* ... that the service has yet to hear
  entry,     \* the cache's snapshot of the task, or NoSnapshot
  asking,    \* [step, kind, base, cap, n] of each caller's request
  view,      \* what each caller knows
  clock,     \* snapshots begun: captured_at
  calls,     \* requests so far
  serial     \* the callers take turns

snapshotVars == <<occurred, onDisk, unheard, entry, asking, view, clock, calls, serial>>
facts == <<occurred, onDisk, unheard>>

\* A snapshot says how many events it has seen, and the CI status of the last,
\* which goes back and forth.
CiOf(n) == n % 2
NoSnapshot == [cap |-> 0, n |-> 0, fresh |-> FALSE]
NoView == [cap |-> 0, seen |-> 0, ci |-> 0, n |-> 0]
NoCall == [step |-> "idle", kind |-> "none", base |-> NoSnapshot, cap |-> 0, n |-> 0]

SnapshotInit ==
  /\ occurred = 0 /\ onDisk = 0 /\ unheard = 0
  /\ entry = NoSnapshot
  /\ asking = [c \in Callers |-> NoCall]
  /\ view = [c \in Callers |-> NoView]
  /\ clock = 0 /\ calls = 0
  /\ serial \in BOOLEAN

\* A service publishes an event with the task's id.
Occur ==
  /\ occurred < MaxFacts
  /\ occurred' = occurred + 1
  /\ unheard' = unheard + 1
  /\ UNCHANGED <<onDisk, entry, asking, view, clock, calls, serial>>

\* The bridge appends it to the files.
Journaled ==
  /\ onDisk < occurred
  /\ onDisk' = onDisk + 1
  /\ UNCHANGED <<occurred, unheard, entry, asking, view, clock, calls, serial>>

\* invalidate_from_event
Invalidate ==
  /\ unheard > 0
  /\ unheard' = unheard - 1
  /\ entry' = NoSnapshot
  /\ UNCHANGED <<occurred, onDisk, asking, view, clock, calls, serial>>

\* The TTL of the entry has passed.
GrowOld ==
  /\ entry.fresh
  /\ entry' = [entry EXCEPT !.fresh = FALSE]
  /\ UNCHANGED <<facts, asking, view, clock, calls, serial>>

\* Faulty variant: the age is not looked at.
FreshAtAnyAge(e) == e.cap > 0

\* get_fresh
Fresh(e) == e.cap > 0 /\ e.fresh

WholeView(s) == [cap |-> s.cap, seen |-> s.n, ci |-> CiOf(s.n), n |-> s.n]

MayCall(c) ==
  /\ calls < MaxCalls /\ calls' = calls + 1
  /\ asking[c].step = "idle"
  /\ serial => \A other \in Callers : asking[other].step = "idle"

\* compile_snapshot takes the time before it reads anything.
Compile(c, kind, base) ==
  /\ clock' = clock + 1
  /\ asking' = [asking EXCEPT ![c] =
                [step |-> "reading", kind |-> kind, base |-> base, cap |-> clock + 1, n |-> 0]]

\* world_snapshot
AskSnapshot(c) ==
  /\ MayCall(c)
  /\ \/ /\ Fresh(entry)
        /\ view' = [view EXCEPT ![c] = WholeView(entry)]
        /\ UNCHANGED <<asking, clock>>
     \/ ~Fresh(entry) /\ Compile(c, "whole", NoSnapshot) /\ UNCHANGED view
  /\ UNCHANGED <<facts, entry, serial>>

\* refresh-world-snapshot
AskRefresh(c) ==
  /\ MayCall(c)
  /\ Compile(c, "whole", NoSnapshot)
  /\ UNCHANGED <<facts, entry, view, serial>>

\* world_snapshot_delta: the baseline is what the cache has, of any age.
AskDelta(c) ==
  /\ view[c].cap > 0
  /\ MayCall(c)
  /\ Compile(c, "delta", [entry EXCEPT !.fresh = FALSE])
  /\ UNCHANGED <<facts, entry, view, serial>>

\* Faulty variant: facts that are not in the files yet are taken as well.
ReadFactsHeard(c) ==
  /\ asking[c].step = "reading"
  /\ asking' = [asking EXCEPT ![c].step = "answering", ![c].n = occurred]
  /\ UNCHANGED <<facts, entry, view, clock, calls, serial>>

\* read_journal_facts
ReadFacts(c) ==
  /\ asking[c].step = "reading"
  /\ asking' = [asking EXCEPT ![c].step = "answering", ![c].n = onDisk]
  /\ UNCHANGED <<facts, entry, view, clock, calls, serial>>

\* Faulty variant: any baseline will do.
SafeAlways(base, since) == base.cap > 0

\* The baseline is not newer than what the caller has.
Safe(base, since) == base.cap > 0 /\ base.cap <= since

\* changed_snapshot_fields: a field that is as in the baseline is left out.
Merged(old, base, n) ==
  [cap |-> old.cap, seen |-> n,
   ci |-> IF CiOf(n) = CiOf(base.n) THEN old.ci ELSE CiOf(n),
   n |-> IF n = base.n THEN old.n ELSE n]

\* The snapshot is put into the cache and answered.
Answer(c) ==
  LET r == asking[c]
      old == view[c]
      snapshot == [cap |-> r.cap, n |-> r.n, fresh |-> TRUE]
  IN /\ r.step = "answering"
     /\ entry' = snapshot
     /\ view' = [view EXCEPT ![c] =
                   IF r.kind = "delta" /\ Safe(r.base, old.cap)
                     THEN [Merged(old, r.base, r.n) EXCEPT !.cap = r.cap]
                     ELSE WholeView(snapshot)]
     /\ asking' = [asking EXCEPT ![c] = NoCall]
     /\ UNCHANGED <<facts, clock, calls, serial>>

SnapshotNext ==
  \/ Occur \/ Journaled \/ Invalidate \/ GrowOld
  \/ \E c \in Callers :
       \/ AskSnapshot(c) \/ AskRefresh(c) \/ AskDelta(c)
       \/ ReadFacts(c) \/ Answer(c)

SnapshotSpec == SnapshotInit /\ [][SnapshotNext]_snapshotVars

\* The bridge and the subscriptions take what comes, requests end, time passes.
SnapshotFairness ==
  /\ WF_snapshotVars(Journaled) /\ WF_snapshotVars(Invalidate)
  /\ WF_snapshotVars(GrowOld)
  /\ \A c \in Callers : WF_snapshotVars(ReadFacts(c) \/ Answer(c))

FairSnapshotSpec == SnapshotSpec /\ SnapshotFairness
-----------------------------------------------------------------------------

SnapshotTypeOK ==
  /\ {occurred, onDisk, unheard} \subseteq 0..MaxFacts /\ onDisk <= occurred
  /\ entry.n <= onDisk /\ entry.cap <= clock
  /\ \A c \in Callers :
       /\ asking[c].step \in {"idle", "reading", "answering"}
       /\ asking[c].n <= onDisk /\ view[c].n <= onDisk /\ view[c].cap <= clock
  /\ clock <= MaxCalls

\* What a caller knows after an answer is what that answer's snapshot says.
KnowsAll(c) == view[c].n = view[c].seen /\ view[c].ci = CiOf(view[c].seen)

\* A caller that has merged a delta into what it knew has every field as it is,
\* if callers take turns, and whoever else has refreshed the cache in between
\* (world_snapshot_delta).
DeltaNeverMisses == serial => \A c \in Callers : KnowsAll(c)

\* api-world-snapshot-delta.md: "so the Maestro never misses changes".
MaestroNeverMisses == \A c \in Callers : KnowsAll(c)

\* An event that the files have does not stay hidden behind the cache: the
\* entry that lacks it grows old, is dropped or replaced (get_fresh).
SnapshotCatchesUp ==
  \A k \in 1..MaxFacts : onDisk >= k ~> (~Fresh(entry) \/ entry.n >= k)

\* comp-world-snapshot-cache.md: an event "Invalidates snapshot for that task":
\* no snapshot is served that lacks an event the service has heard.
HeardIsSeen == Fresh(entry) => entry.n >= occurred - unheard
=============================================================================
