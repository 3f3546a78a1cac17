------------------------------ MODULE TaskStore ------------------------------
(***************************************************************************)
(* The SQLite event store of crates/jam-task-store and the append path of  *)
(* the lifecycle daemon that drives it (append_to_store).  A process holds *)
(* its store under a mutex for the whole of one append, so a process runs  *)
(* one append at a time; processes interleave at every read.               *)
(*                                                                         *)
(* An append transaction is deferred: its first SELECT pins a WAL          *)
(* snapshot, its first INSERT fails when another connection has committed  *)
(* since (SQLITE_BUSY_SNAPSHOT, which no busy timeout waits out).          *)
(***************************************************************************)
EXTENDS TaskAggregate, Sequences

CONSTANTS
  Tasks,           \* task ids, the streams
  Keys,            \* idempotency keys, "{event_type}:{trace_id}"
  Journal,         \* the journal messages that may arrive, in any order
  Procs,           \* processes that have the database open for appending
  SnapshotEvery    \* events between two snapshots

\* A message: the task, the event it stands for, and the key made of its type
\* and trace.  The phase of a ContinuationRequested is filled by Translate.
Envelopes == [task: Tasks, ev: Events, key: Keys]

ASSUME JournalAssumption == Journal \subseteq Envelopes
ASSUME SnapshotAssumption == SnapshotEvery \in Nat \ {0}

VARIABLES
  log,         \* task_events: per stream, the events in version order
  liveKeys,    \* idempotency_keys, collected when they expire
  rows,        \* task_state: the projection
  snaps,       \* task_snapshots: the latest snapshot of every stream
  proc         \* what each process has read so far

storeVars == <<log, liveKeys, rows, snaps, proc>>

NoRow      == [row |-> FALSE]
NoSnapshot == [version |-> 0]

\* The events of records, applied in order to the aggregate a.
Replay(a, records) ==
  LET state[n \in 0..Len(records)] ==
        IF n = 0 THEN a ELSE Apply(state[n - 1], records[n].ev)
  IN state[Len(records)]

\* Faulty variant: the tail starts with the event the snapshot ends with.
LoadOverlapping(t) ==
  IF snaps[t] # NoSnapshot /\ snaps[t].readable
  THEN Replay(snaps[t].state, SubSeq(log[t], snaps[t].version, Len(log[t])))
  ELSE Replay(NewAggregate, log[t])

\* load_aggregate_in_tx: the latest snapshot, if it parses, and the events
\* after it; from scratch otherwise.
LoadAggregate(t) ==
  IF snaps[t] # NoSnapshot /\ snaps[t].readable
  THEN Replay(snaps[t].state, SubSeq(log[t], snaps[t].version + 1, Len(log[t])))
  ELSE Replay(NewAggregate, log[t])

\* The columns upsert_task_state writes that the readers of task_state use.
Row(a) == [status |-> a.status, version |-> a.version, session |-> a.session,
           pr |-> a.pr, continuations |-> TotalContinuations(a),
           postPr |-> a.postPr, outcome |-> a.outcome]

\* Faulty variant: ON CONFLICT DO NOTHING.
UpsertOnce(t, a) == IF rows[t] = NoRow THEN [rows EXCEPT ![t] = Row(a)] ELSE rows

Upsert(t, a) == [rows EXCEPT ![t] = Row(a)]

\* Faulty variant: the snapshot is filed under the next version.
SnapshotAhead(t, version, a) ==
  IF version % SnapshotEvery = 0
  THEN [snaps EXCEPT ![t] = [version |-> version + 1, state |-> a, readable |-> TRUE]]
  ELSE snaps

TakeSnapshot(t, version, a) ==
  IF version % SnapshotEvery = 0
  THEN [snaps EXCEPT ![t] = [version |-> version, state |-> a, readable |-> TRUE]]
  ELSE snaps

LoggedKeys == UNION {{log[t][i].key : i \in DOMAIN log[t]} : t \in Tasks}

\* Faulty variant: no unique index, only the keys that have not expired.
UniqueWhileLive(key) == key \notin liveKeys

\* The unique index on task_events.idempotency_key.
UniqueInLog(key) == key \notin LoggedKeys

\* Faulty variant: the phase the publisher saw.
TranslateAsPublished(env, hasPr) == env.ev

\* adapter::translate: only the phase of a continuation depends on the state.
Translate(env, hasPr) ==
  IF env.ev.type = "ContinuationRequested"
  THEN [env.ev EXCEPT !.phase = ContinuationPhase(hasPr)]
  ELSE env.ev

Idle == [pc |-> "idle"]

Done(p) == proc' = [proc EXCEPT ![p] = Idle]

\* Commits invalidate the snapshots that other transactions have pinned.
Pinned(q) == proc[q].pc = "writing"
Overtake(p) ==
  [q \in Procs |-> IF q # p /\ Pinned(q) THEN [proc[q] EXCEPT !.stale = TRUE]
                   ELSE IF q = p THEN Idle ELSE proc[q]]
-----------------------------------------------------------------------------

StoreInit ==
  /\ log = [t \in Tasks |-> <<>>]
  /\ liveKeys = {}
  /\ rows = [t \in Tasks |-> NoRow]
  /\ snaps = [t \in Tasks |-> NoSnapshot]
  /\ proc = [p \in Procs |-> Idle]

\* append_to_store takes the mutex, loads the aggregate and translates.
Receive(p, env) ==
  /\ proc[p].pc = "idle"
  /\ proc' = [proc EXCEPT ![p] =
       [pc |-> "translated", env |-> env, attempt |-> 1, expected |-> 0,
        ev |-> Translate(env, HasPr(LoadAggregate(env.task))), stale |-> FALSE]]
  /\ UNCHANGED <<log, liveKeys, rows, snaps>>

\* A second load, for the version the append expects.
ReadVersion(p) ==
  /\ proc[p].pc = "translated"
  /\ proc' = [proc EXCEPT ![p].pc = "ready",
                          ![p].expected = LoadAggregate(proc[p].env.task).version]
  /\ UNCHANGED <<log, liveKeys, rows, snaps>>

\* Steps 1 to 4 of append read one snapshot of the database.
Duplicate(p) == proc[p].env.key \in liveKeys

Conflict(p) == Len(log[proc[p].env.task]) # proc[p].expected

Refused(p) == ~Accepts(LoadAggregate(proc[p].env.task), proc[p].ev)

Begin(p) ==
  /\ proc[p].pc = "ready"
  /\ ~Duplicate(p) /\ ~Conflict(p) /\ ~Refused(p)
  /\ proc' = [proc EXCEPT ![p].pc = "writing"]
  /\ UNCHANGED <<log, liveKeys, rows, snaps>>

\* A first VersionConflict is retried with the version it reports.
MeetConflict(p) ==
  /\ proc[p].pc = "ready"
  /\ ~Duplicate(p) /\ Conflict(p) /\ proc[p].attempt = 1
  /\ proc' = [proc EXCEPT ![p].pc = "conflict", ![p].attempt = 2,
                          ![p].expected = Len(log[proc[p].env.task])]
  /\ UNCHANGED <<log, liveKeys, rows, snaps>>

\* Every other error is logged and the message is given up.
GiveUp(p) ==
  /\ proc[p].pc = "ready"
  /\ \/ Duplicate(p)
     \/ Conflict(p) /\ proc[p].attempt = 2
     \/ ~Conflict(p) /\ Refused(p)
  /\ Done(p)
  /\ UNCHANGED <<log, liveKeys, rows, snaps>>

\* Faulty variant: the retry appends the event of the first translation.
RetryAsIs(p) ==
  /\ proc[p].pc = "conflict"
  /\ proc' = [proc EXCEPT ![p].pc = "ready"]
  /\ UNCHANGED <<log, liveKeys, rows, snaps>>

\* The retry translates again with a fresh load; the version is not re-read.
Retranslate(p) ==
  /\ proc[p].pc = "conflict"
  /\ proc' = [proc EXCEPT ![p].pc = "ready",
       ![p].ev = Translate(proc[p].env, HasPr(LoadAggregate(proc[p].env.task)))]
  /\ UNCHANGED <<log, liveKeys, rows, snaps>>

\* Steps 5 to 8 of append: event, key, projection, snapshot, in one commit.
Commit(p) ==
  LET t       == proc[p].env.task
      key     == proc[p].env.key
      a       == Apply(LoadAggregate(t), proc[p].ev)
      version == Len(log[t]) + 1
  IN /\ proc[p].pc = "writing"
     /\ ~proc[p].stale
     /\ UniqueInLog(key)
     /\ log' = [log EXCEPT ![t] = Append(@, [ev |-> proc[p].ev, key |-> key])]
     /\ liveKeys' = liveKeys \union {key}
     /\ rows' = Upsert(t, a)
     /\ snaps' = TakeSnapshot(t, version, a)
     /\ proc' = Overtake(p)

\* The INSERT fails: overtaken, or the unique index holds a key whose row in
\* idempotency_keys is gone.  The transaction is rolled back, the event lost.
Rollback(p) ==
  /\ proc[p].pc = "writing"
  /\ proc[p].stale \/ ~UniqueInLog(proc[p].env.key)
  /\ Done(p)
  /\ UNCHANGED <<log, liveKeys, rows, snaps>>

\* The process dies; whatever it had not committed is gone.
Kill(p) ==
  /\ proc[p].pc # "idle"
  /\ Done(p)
  /\ UNCHANGED <<log, liveKeys, rows, snaps>>

\* gc_idempotency_keys, from any connection that is not in a transaction.
\* Keys expire at different times; a collection of several is several steps.
GcKeys(expired) ==
  /\ liveKeys' = liveKeys \ {expired}
  /\ proc' = [q \in Procs |-> IF Pinned(q) THEN [proc[q] EXCEPT !.stale = TRUE]
                              ELSE proc[q]]
  /\ UNCHANGED <<log, rows, snaps>>

\* A new binary whose aggregate does not parse the snapshot of an old one.
OutdateSnapshot(t) ==
  /\ snaps[t] # NoSnapshot /\ snaps[t].readable
  /\ snaps' = [snaps EXCEPT ![t].readable = FALSE]
  /\ UNCHANGED <<log, liveKeys, rows, proc>>

StoreNext ==
  \/ \E p \in Procs : \/ \E env \in Journal : Receive(p, env)
                      \/ ReadVersion(p) \/ Begin(p) \/ MeetConflict(p)
                      \/ GiveUp(p) \/ Retranslate(p) \/ Commit(p)
                      \/ Rollback(p) \/ Kill(p)
  \/ \E expired \in liveKeys : GcKeys(expired)
  \/ \E t \in Tasks : OutdateSnapshot(t)

StoreSpec == StoreInit /\ [][StoreNext]_storeVars
-----------------------------------------------------------------------------

Records == [ev: Events, key: Keys]

StoreTypeOK ==
  /\ log \in [Tasks -> Seq(Records)]
  /\ liveKeys \subseteq Keys
  /\ \A t \in Tasks :
       \/ snaps[t] = NoSnapshot
       \/ snaps[t] \in [version: 1..Len(log[t]), state: Aggregates, readable: BOOLEAN]
  /\ \A p \in Procs :
       \/ proc[p] = Idle
       \/ proc[p] \in [pc: {"translated", "ready", "conflict", "writing"},
                       env: Journal, ev: Events, attempt: 1..2,
                       expected: Nat, stale: BOOLEAN]

\* The dashboard reads task_state, the daemon replays the log: they agree
\* after every commit, whichever process wrote last and however its load was
\* made (snapshot and tail, or from scratch).
ProjectionInSync ==
  \A t \in Tasks :
    rows[t] = IF log[t] = <<>> THEN NoRow ELSE Row(Replay(NewAggregate, log[t]))

\* A snapshot and the events after it give the aggregate of the whole log.
LoadIsReplay ==
  \A t \in Tasks : LoadAggregate(t) = Replay(NewAggregate, log[t])

\* A journal message is stored at most once, in one stream, for ever: also
\* when two daemons handle it at the same time, when it is handled again
\* after a crash, and after its row in idempotency_keys was collected.
KeyOnce ==
  \A t, u \in Tasks : \A i \in DOMAIN log[t], j \in DOMAIN log[u] :
    log[t][i].key = log[u][j].key => t = u /\ i = j

\* The phase recorded for a continuation is the phase the task was in.
PhaseFits(t, i) ==
  LET before == Replay(NewAggregate, SubSeq(log[t], 1, i - 1))
  IN log[t][i].ev.type = "ContinuationRequested" =>
       log[t][i].ev.phase = ContinuationPhase(HasPr(before))

\* ContinuationPhase (event.rs): PrePr is "before any PR has been opened for
\* this task".  With one daemon the two loads of append_to_store see the same
\* database, so every stored continuation is counted in the right phase.
PhaseMatchesPr == \A t \in Tasks : \A i \in DOMAIN log[t] : PhaseFits(t, i)

\* The retry does what its comment says: the event that a second attempt is
\* about to commit is the one translated from the state it is appended to.
RetryIsFresh ==
  \A p \in Procs :
    proc[p].pc = "writing" /\ proc[p].attempt = 2 /\ ~proc[p].stale =>
      proc[p].ev = Translate(proc[p].env, HasPr(LoadAggregate(proc[p].env.task)))

\* Event i of t's stream is the last word on the session s, and says it runs.
LastHeardRunning(t, i, s) ==
  /\ log[t][i].ev = [type |-> "PickerAssigned", session |-> s]
  /\ \A j \in (i + 1)..Len(log[t]) :
       /\ log[t][j].ev.type # "PickerAssigned"
       /\ log[t][j].ev.type \in {"PickerSucceeded", "PickerFailed"} =>
            log[t][j].ev.session # s

\* While a task lives, its current session is the Picker assigned last, and
\* it has one exactly as long as no end of that Picker is stored.  The ends
\* of earlier Pickers may arrive late, after the successor was assigned, or
\* before their own assignment (current_session_id in apply_fields).
SessionIsLatestPicker ==
  \A t \in Tasks :
    LET a == LoadAggregate(t)
    IN a.initialized /\ ~IsTerminal(a.status) =>
         \A s \in SessionIds :
           a.session = s <=> \E i \in 2..Len(log[t]) : LastHeardRunning(t, i, s)

\* The store implements the stream: what a load returns moves only by one
\* accepted event at a time, and a spent key stays spent.
Stream == INSTANCE TaskStream
            WITH agg <- [t \in Tasks |-> LoadAggregate(t)], spent <- LoggedKeys
StreamImplemented == Stream!StreamSpec

\* What the store keeps is what it was given: the projected row and every load
\* are those of the log, and a retry appends what follows from the version it
\* names, whatever the other processes commit, collect or lose meanwhile
\* (store.rs:79-362, main.rs:297-389).
StoreSafety == ProjectionInSync /\ LoadIsReplay /\ RetryIsFresh

\* The stored stream says what the journal said of the living task: its
\* continuations are counted in the phase they were asked in, its session is the
\* Picker assigned last (adapter.rs:19, aggregate.rs:288-300).
CardMatchesJournal == PhaseMatchesPr /\ SessionIsLatestPicker
=============================================================================
