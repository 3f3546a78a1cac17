--------------------------- MODULE JournalPipeline ---------------------------
(***************************************************************************)
(* The way of a journal event from the bus into files and into the session *)
(* store: crates/jam-nats-bridge takes the events of a durable JetStream   *)
(* consumer and lets crates/jam-journal append them to the files of the    *)
(* day; crates/jam-journal-reconciler puts into SQLite what a plain        *)
(* subscription brings it, or, started with --rebuild, what the files say. *)
(***************************************************************************)
EXTENDS Integers, Sequences, FiniteSets

CONSTANTS
  Events,        \* journal events
  EndEvents,     \* those that end their session (picker.exited, pr.merged, ...)
  GroupOf,       \* [Events -> group]: the file of the event
  SessionOf,     \* [Events -> session]
  GroupOrder,    \* the groups, as their paths are sorted
  NoEvent,
  JournalFaults, \* what may fail: "write", "newline"
  MaxFalls,      \* bound: crashes of the bridge and lost acknowledgements
  MaxRebuilds    \* bound: starts of the reconciler after the first

Groups == {GroupOrder[i] : i \in 1..Len(GroupOrder)}
JournalSessions == {SessionOf[e] : e \in Events}

ASSUME JournalAssumption ==
  /\ EndEvents \subseteq Events /\ NoEvent \notin Events
  /\ GroupOrder \in Seq(Groups) /\ GroupOf \in [Events -> Groups]
  /\ JournalFaults \subseteq {"write", "newline"}

VARIABLES
  issued,   \* events published, and kept by the stream
  acked,    \* events the consumer will not deliver again
  taken,    \* the event the bridge holds, and how far it is
  lines,    \* [Groups -> lines of the file, each a sequence of events]
  broken,   \* groups whose last line has no newline yet
  unwritten,\* events whose write failed
  falls,
  heard,    \* events the reconciler's subscription has brought
  mode,     \* the reconciler: "down", "live", "replaying"
  once,     \* ... was told to stop after the replay
  ingest,   \* the event being ingested, and how far it is
  cursor,   \* the next file and line of the replay
  atStart,  \* events in the files when the replay began
  store,    \* ingested keys, rows of messages by event, sessions
  rebuilds

bridgeVars == <<issued, acked, taken, lines, broken, unwritten, falls>>
storeVars == <<heard, mode, once, ingest, cursor, atStart, store, rebuilds>>
journalVars == <<bridgeVars, storeVars>>

EmptyStore ==
  [keys |-> {}, messages |-> [e \in Events |-> 0], sessions |-> [s \in JournalSessions |-> "none"]]
Nothing == [event |-> NoEvent, step |-> "none"]

JournalInit ==
  /\ issued = {} /\ acked = {} /\ taken = Nothing
  /\ lines = [g \in Groups |-> << >>] /\ broken = {} /\ unwritten = {}
  /\ falls = 0
  /\ heard = << >> /\ mode = "live" /\ once = FALSE
  /\ ingest = Nothing /\ cursor = <<1, 1>> /\ atStart = {}
  /\ store = EmptyStore /\ rebuilds = 0

SetOf(line) == {line[i] : i \in DOMAIN line}
Written == UNION {UNION {SetOf(lines[g][i]) : i \in DOMAIN lines[g]} : g \in Groups}

\* A service publishes: the stream keeps the event, and a reconciler that is
\* subscribed hears it.
Issue(e) ==
  /\ e \notin issued
  /\ issued' = issued \union {e}
  /\ heard' = IF mode = "live" THEN Append(heard, e) ELSE heard
  /\ UNCHANGED <<acked, taken, lines, broken, unwritten, falls,
                 mode, once, ingest, cursor, atStart, store, rebuilds>>

(***************************************************************************)
(* The bridge.                                                             *)
(***************************************************************************)

\* Faulty variant: the message is acknowledged when it arrives.
DeliverAcked(e) ==
  /\ taken = Nothing
  /\ e \in issued \ acked
  /\ taken' = [event |-> e, step |-> "write"]
  /\ acked' = acked \union {e}
  /\ UNCHANGED <<issued, lines, broken, unwritten, falls, storeVars>>

\* messages.next: one message at a time, a redelivered one among new ones.
Deliver(e) ==
  /\ taken = Nothing
  /\ e \in issued \ acked
  /\ taken' = [event |-> e, step |-> "write"]
  /\ UNCHANGED <<issued, acked, lines, broken, unwritten, falls, storeVars>>

\* A file whose last line is continued.
Glued(file, e) == [file EXCEPT ![Len(file)] = Append(file[Len(file)], e)]

\* append_line, first write: after a line without newline the text is glued to it.
WriteText(ok) ==
  LET e == taken.event
      g == GroupOf[e]
  IN /\ taken.step = "write"
     /\ ok \/ "write" \in JournalFaults
     /\ taken' = [taken EXCEPT !.step = IF ok THEN "newline" ELSE "ack"]
     /\ IF ok
          THEN /\ lines' = [lines EXCEPT ![g] =
                              IF g \in broken THEN Glued(@, e) ELSE Append(@, <<e>>)]
               /\ broken' = broken \union {g}
               /\ UNCHANGED unwritten
          ELSE /\ unwritten' = unwritten \union {e}
               /\ UNCHANGED <<lines, broken>>
     /\ UNCHANGED <<issued, acked, falls, storeVars>>

\* append_line, second write.
WriteNewline(ok) ==
  /\ taken.step = "newline"
  /\ ok \/ "newline" \in JournalFaults
  /\ taken' = [taken EXCEPT !.step = "ack"]
  /\ broken' = IF ok THEN broken \ {GroupOf[taken.event]} ELSE broken
  /\ UNCHANGED <<issued, acked, lines, unwritten, falls, storeVars>>

\* message.ack, also after an error of the write, which is only logged.
Ack(ok) ==
  /\ taken.step = "ack"
  /\ ok \/ falls < MaxFalls
  /\ falls' = IF ok THEN falls ELSE falls + 1
  /\ acked' = IF ok THEN acked \union {taken.event} ELSE acked
  /\ taken' = Nothing
  /\ UNCHANGED <<issued, lines, broken, unwritten, storeVars>>

\* The bridge dies and is started again; the consumer is durable.
BridgeFalls ==
  /\ taken # Nothing
  /\ falls < MaxFalls
  /\ falls' = falls + 1
  /\ taken' = Nothing
  /\ UNCHANGED <<issued, acked, lines, broken, unwritten, storeVars>>

(***************************************************************************)
(* The reconciler.                                                         *)
(***************************************************************************)

\* subscribe_live: the next message of the subscription.
Hear ==
  /\ mode = "live" /\ ingest = Nothing
  /\ heard # << >>
  /\ ingest' = [event |-> Head(heard), step |-> "key"]
  /\ heard' = Tail(heard)
  /\ UNCHANGED <<bridgeVars, mode, once, cursor, atStart, store, rebuilds>>

\* Faulty variant: a line that does not parse is left out.
ReplayLineLax ==
  LET g == GroupOrder[cursor[1]]
  IN /\ mode = "replaying" /\ ingest = Nothing
     /\ cursor[1] <= Len(GroupOrder)
     /\ cursor[2] \in DOMAIN lines[g]
     /\ cursor' = [cursor EXCEPT ![2] = @ + 1]
     /\ ingest' = IF Len(lines[g][cursor[2]]) = 1
                    THEN [event |-> lines[g][cursor[2]][1], step |-> "key"] ELSE Nothing
     /\ UNCHANGED <<bridgeVars, heard, mode, once, atStart, store, rebuilds>>

\* replay_file: a line that is not one event ends the program.
ReplayLine ==
  LET g == GroupOrder[cursor[1]]
  IN /\ mode = "replaying" /\ ingest = Nothing
     /\ cursor[1] <= Len(GroupOrder)
     /\ cursor[2] \in DOMAIN lines[g]
     /\ IF Len(lines[g][cursor[2]]) = 1
          THEN /\ ingest' = [event |-> lines[g][cursor[2]][1], step |-> "key"]
               /\ cursor' = [cursor EXCEPT ![2] = @ + 1]
               /\ UNCHANGED <<mode, once, atStart>>
          ELSE /\ mode' = "down"
               /\ cursor' = <<1, 1>> /\ atStart' = {} /\ once' = FALSE
               /\ UNCHANGED ingest
     /\ UNCHANGED <<bridgeVars, heard, store, rebuilds>>

\* replay_journal_dir: the next file, in the order of the paths.
NextFile ==
  /\ mode = "replaying" /\ ingest = Nothing
  /\ cursor[1] <= Len(GroupOrder)
  /\ cursor[2] \notin DOMAIN lines[GroupOrder[cursor[1]]]
  /\ cursor' = <<cursor[1] + 1, 1>>
  /\ UNCHANGED <<bridgeVars, heard, mode, once, ingest, atStart, store, rebuilds>>

\* run: after the last file the program ends, or subscribes.
ReplayEnds ==
  /\ mode = "replaying" /\ ingest = Nothing
  /\ cursor[1] > Len(GroupOrder)
  /\ mode' = IF once THEN "down" ELSE "live"
  /\ cursor' = <<1, 1>> /\ atStart' = {} /\ once' = FALSE
  /\ UNCHANGED <<bridgeVars, heard, ingest, store, rebuilds>>

\* Faulty variant: the key is not looked at.
InsertKeyBlind ==
  /\ ingest.step = "key"
  /\ store' = [store EXCEPT !.keys = @ \union {ingest.event}]
  /\ ingest' = [ingest EXCEPT !.step = "session"]
  /\ UNCHANGED <<bridgeVars, heard, mode, once, cursor, atStart, rebuilds>>

\* ingest_event: each statement is a transaction of its own.
InsertKey ==
  /\ ingest.step = "key"
  /\ store' = [store EXCEPT !.keys = @ \union {ingest.event}]
  /\ ingest' = IF ingest.event \in store.keys THEN Nothing
                                              ELSE [ingest EXCEPT !.step = "session"]
  /\ UNCHANGED <<bridgeVars, heard, mode, once, cursor, atStart, rebuilds>>

\* Faulty variant: the session's row is written anew.
InsertSessionAnew ==
  LET s == SessionOf[ingest.event]
  IN /\ ingest.step = "session"
     /\ store' = [store EXCEPT !.sessions[s] =
                    IF ingest.event \in EndEvents THEN "ended" ELSE "open"]
     /\ ingest' = [ingest EXCEPT !.step = "message"]
     /\ UNCHANGED <<bridgeVars, heard, mode, once, cursor, atStart, rebuilds>>

\* INSERT OR IGNORE of the session, and update_session_end.
InsertSession ==
  LET s == SessionOf[ingest.event]
  IN /\ ingest.step = "session"
     /\ \/ /\ store.sessions[s] = "none"
           /\ store' = [store EXCEPT !.sessions[s] = "open"]
           /\ UNCHANGED ingest
        \/ /\ store.sessions[s] # "none"
           /\ store' = [store EXCEPT !.sessions[s] =
                          IF ingest.event \in EndEvents THEN "ended" ELSE @]
           /\ ingest' = [ingest EXCEPT !.step = "message"]
     /\ UNCHANGED <<bridgeVars, heard, mode, once, cursor, atStart, rebuilds>>

\* The message, its text for the search, and its tool call.
InsertMessage ==
  /\ ingest.step = "message"
  /\ store' = [store EXCEPT !.messages[ingest.event] = @ + 1]
  /\ ingest' = Nothing
  /\ UNCHANGED <<bridgeVars, heard, mode, once, cursor, atStart, rebuilds>>

\* The reconciler ends between two statements; the subscription's messages go.
ReconcilerFalls ==
  /\ mode # "down"
  /\ rebuilds < MaxRebuilds
  /\ mode' = "down"
  /\ ingest' = Nothing /\ heard' = << >>
  /\ cursor' = <<1, 1>> /\ atStart' = {} /\ once' = FALSE
  /\ UNCHANGED <<bridgeVars, store, rebuilds>>

\* Started again, as it is or with --rebuild (and --once), which deletes the
\* database.
ReconcilerStarts(rebuild, o) ==
  /\ mode = "down"
  /\ rebuilds < MaxRebuilds
  /\ o => rebuild
  /\ rebuilds' = rebuilds + 1
  /\ once' = o
  /\ mode' = IF rebuild THEN "replaying" ELSE "live"
  /\ store' = IF rebuild THEN EmptyStore ELSE store
  /\ atStart' = IF rebuild THEN Written ELSE {}
  /\ UNCHANGED <<bridgeVars, heard, ingest, cursor>>

Bridge ==
  \/ \E e \in Events : Deliver(e)
  \/ \E ok \in BOOLEAN : WriteText(ok) \/ WriteNewline(ok) \/ Ack(ok)

Ingest == InsertKey \/ InsertSession \/ InsertMessage
Replay == ReplayLine \/ NextFile \/ ReplayEnds

JournalNext ==
  \/ \E e \in Events : Issue(e)
  \/ Bridge \/ BridgeFalls
  \/ Hear \/ Ingest \/ Replay \/ ReconcilerFalls
  \/ \E rebuild, o \in BOOLEAN : ReconcilerStarts(rebuild, o)

JournalSpec == JournalInit /\ [][JournalNext]_journalVars

\* The bridge handles what is delivered; process-compose starts it again.
JournalFairness == WF_journalVars(Bridge)

FairJournalSpec == JournalSpec /\ JournalFairness
-----------------------------------------------------------------------------

JournalTypeOK ==
  /\ issued \subseteq Events /\ acked \subseteq issued
  /\ taken.event \in (issued \ acked) \union {NoEvent}
  /\ taken.step \in {"none", "write", "newline", "ack"}
  /\ \A g \in Groups : \A i \in DOMAIN lines[g] :
       lines[g][i] # << >> /\ \A e \in SetOf(lines[g][i]) : GroupOf[e] = g
  /\ broken \subseteq Groups /\ unwritten \subseteq issued
  /\ mode \in {"down", "live", "replaying"}
  /\ ingest.step \in {"none", "key", "session", "message"}
  /\ store.keys \subseteq Events
  /\ store.sessions \in [JournalSessions -> {"none", "open", "ended"}]

\* An event that the consumer has acknowledged is in its file, whatever died
\* in between, unless its write was refused (jam-nats-bridge, handle_message).
AckedIsWritten == acked \subseteq Written \union unwritten

\* An event has one message in the session store however often it is in the
\* files, and whether a subscription or a rebuild brought it (ingest_event).
MessageOnce == \A e \in Events : store.messages[e] <= 1

\* The end of a session that the store has taken in stays, also when earlier
\* events of the session come after it, from the next file (ingest_event).
EndsStay ==
  \A e \in EndEvents : store.messages[e] > 0 => store.sessions[SessionOf[e]] = "ended"

\* A rebuild that comes to its end has taken in every event that was in the
\* files when it began: a line it cannot read ends it (replay_file).
RebuildIsComplete ==
  mode = "replaying" /\ cursor[1] > Len(GroupOrder) /\ ingest = Nothing =>
    \A e \in atStart : store.messages[e] > 0

\* Every published event reaches its file or is refused by it, through crashes
\* of the bridge and lost acknowledgements.
EventReachesDisk ==
  \A e \in Events : e \in issued ~> e \in Written \union unwritten

\* writer.rs:216: "Single write_all + newline. The OS guarantees atomic
\* appends": every line of a file is one event.
LinesParse == \A g \in Groups : \A i \in DOMAIN lines[g] : Len(lines[g][i]) = 1

\* An event that counts as ingested has its message, unless it is just being
\* ingested.
IngestedHasMessage ==
  \A e \in store.keys : store.messages[e] > 0 \/ ingest.event = e

\* Between the stream, the files and the database nothing acknowledged is lost
\* and nothing comes twice, over deaths of the bridge and of the reconciler
\* (main.rs:113-141 of the bridge, main.rs:131-472 of the reconciler).
JournalSafety == AckedIsWritten /\ MessageOnce /\ EndsStay /\ RebuildIsComplete
=============================================================================
