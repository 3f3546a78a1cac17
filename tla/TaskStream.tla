----------------------------- MODULE TaskStream -----------------------------
(***************************************************************************)
(* What the task event store promises its clients: every task has one      *)
(* stream, an append applies one event to the aggregate at the head of the *)
(* stream, and an idempotency key is spent once and for ever.  TaskStore   *)
(* (tables, transactions, several processes) implements this module;       *)
(* TaskLifecycle appends through it.                                       *)
(***************************************************************************)
EXTENDS TaskAggregate

CONSTANTS
  Tasks,   \* task ids
  Keys     \* idempotency keys, "{event_type}:{trace_id}"

VARIABLES
  agg,     \* agg[t]: the aggregate a load of t's stream returns
  spent    \* keys of the events in the streams

streamVars == <<agg, spent>>

StreamTypeOK ==
  /\ agg \in [Tasks -> Aggregates]
  /\ spent \subseteq Keys

StreamInit ==
  /\ agg = [t \in Tasks |-> NewAggregate]
  /\ spent = {}

\* A committed append: the key is new and the aggregate takes the event.
AppendEvent(t, ev, key) ==
  /\ key \notin spent
  /\ spent' = spent \union {key}
  /\ Accepts(agg[t], ev)
  /\ agg' = [agg EXCEPT ![t] = Apply(agg[t], ev)]

StreamNext == \E t \in Tasks, ev \in Events, key \in Keys : AppendEvent(t, ev, key)

StreamSpec == StreamInit /\ [][StreamNext]_streamVars

-----------------------------------------------------------------------------

\* The status of every task, for TaskStatus: the stream implements it.
StatusView == INSTANCE TaskStatus WITH status <- [t \in Tasks |-> agg[t].status]

\* A task whose status moves only along the promised graph, however the
\* events of sessions, PRs and operators are ordered.
StatusGraph == StatusView!Spec

\* A terminal task never leaves its status, keeps the outcome that ended it
\* and keeps the merge record, whatever late events arrive (apply's terminal
\* branch and record_metadata).
TerminalIsFinal ==
  [][\A t \in Tasks : IsTerminal(agg[t].status) =>
       /\ agg'[t].status = agg[t].status
       /\ agg'[t].outcome = agg[t].outcome
       /\ agg'[t].prMerged = agg[t].prMerged]_streamVars

\* The reader of a terminal task finds the reason it ended: the outcome is
\* the one of its status, even when another outcome was written before
\* (apply_fields writes outcome for a merge that moves no status), and a
\* merged task names a PR whose merge is recorded.
TerminalOutcome ==
  \A t \in Tasks :
    /\ agg[t].status = "Merged" =>
         agg[t].outcome = "merged" /\ HasPr(agg[t]) /\ agg[t].prMerged
    /\ agg[t].status = "Failed" => agg[t].outcome = "failed"
    /\ agg[t].status = "Abandoned" => agg[t].outcome = "abandoned"

\* Whoever waits for a review finds a PR that can be merged: a task in review
\* names one, and no merge of it is recorded, also when a merge came before the
\* PR's opening or for an earlier PR; a merged task names one whose merge is
\* recorded, also when a PR is opened late (apply_fields, record_metadata).
ReviewHasPr ==
  \A t \in Tasks :
    /\ agg[t].status = "InReview" => HasPr(agg[t]) /\ ~agg[t].prMerged
    /\ agg[t].status = "Merged" => HasPr(agg[t]) /\ agg[t].prMerged
=============================================================================
