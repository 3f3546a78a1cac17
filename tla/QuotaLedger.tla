----------------------------- MODULE QuotaLedger -----------------------------
(***************************************************************************)
(* The quota state of one window of one harness, as crates/jam-svc-observe *)
(* folds it from journal.quota.jsonl and the project's configuration: the  *)
(* session service publishes usage and exhaustion, jam quota recalibrate   *)
(* what an operator knows, and the reader derives a status of its own from *)
(* the sessions in the rolling window and from the API budget.             *)
(***************************************************************************)
EXTENDS Integers, Sequences, FiniteSetsExt

CONSTANTS
  QuotaLimit,   \* limit-in-window
  Cadence,      \* reset-cadence-secs, in ticks
  Multiplier,   \* of a session, in percent
  MonthlyCap,   \* monthly-cap-usd
  CostPerUse,
  MaxEntries,   \* bound: entries of the journal
  MaxTicks      \* bound: time

ASSUME QuotaAssumption ==
  /\ {QuotaLimit, Cadence, Multiplier, MonthlyCap} \subseteq Nat \ {0}
  /\ {CostPerUse, MaxEntries, MaxTicks} \subseteq Nat

VARIABLES
  ledger,   \* entries of journal.quota.jsonl: what was observed, and when
  ticks,    \* now
  settings  \* what the configuration sets: of "window" and "budget"

quotaVars == <<ledger, ticks, settings>>

Signals == {"exhausted", "exhausted-soon", "refilled"}

QuotaInit ==
  /\ ledger = << >> /\ ticks = 0
  /\ settings \in SUBSET {"window", "budget"}

\* A Picker's usage or exhaustion, or jam quota recalibrate.
Observe(what) ==
  /\ Len(ledger) < MaxEntries
  /\ ledger' = Append(ledger, [what |-> what, at |-> ticks])
  /\ UNCHANGED <<ticks, settings>>

PassTime ==
  /\ ticks < MaxTicks
  /\ ticks' = ticks + 1
  /\ UNCHANGED <<ledger, settings>>

QuotaNext == PassTime \/ \E what \in Signals \union {"usage"} : Observe(what)

QuotaSpec == QuotaInit /\ [][QuotaNext]_quotaVars

(***************************************************************************)
(* read_quota_states                                                       *)
(***************************************************************************)

\* quota_status_rank
Rank(status) ==
  CASE status = "exhausted" -> 4
    [] status = "exhausted-soon" -> 3
    [] status = "low" -> 2
    [] status = "available" -> 1
    [] OTHER -> 0

Unseen == [status |-> "unknown", cost |-> 0, times |-> << >>]

\* Faulty variant: a signal starts the window anew.
ApplySignalAnew(state, what) ==
  [status |-> IF what = "refilled" THEN "available" ELSE what, cost |-> 0, times |-> << >>]

\* apply_quota_exhausted and its like put a new state in the place of the old
\* one, without its usage; the sessions' times are kept apart.
ApplySignal(state, what) ==
  [state EXCEPT !.status = IF what = "refilled" THEN "available" ELSE what, !.cost = 0]

\* apply_quota_usage_observed
ApplyUsage(state, at) ==
  [status |-> IF state.status = "unknown" THEN "available" ELSE state.status,
   cost |-> state.cost + CostPerUse,
   times |-> Append(state.times, at)]

\* apply_quota_entry
ApplyEntry(state, e) ==
  IF e.what = "usage" THEN ApplyUsage(state, e.at) ELSE ApplySignal(state, e.what)

\* The entries of the journal, in its order (read_quota_journal_file).
Folded(entries) ==
  LET state[n \in 0..Len(entries)] ==
        IF n = 0 THEN Unseen ELSE ApplyEntry(state[n - 1], entries[n])
  IN state[Len(entries)]

Observed == Folded(ledger)

\* Faulty variant: what is derived replaces what was signalled.
WorseDerived(derived, status) == derived

\* What is derived is taken unless what is known is worse.
Worse(derived, status) == IF Rank(derived) >= Rank(status) THEN derived ELSE status

\* apply_quota_config and api_budget_status: the part of the cap that is left,
\* clamped to 0 and 1.
BudgetStatus(spent) ==
  IF spent >= MonthlyCap THEN "exhausted"
  ELSE IF 10 * (MonthlyCap - spent) <= MonthlyCap THEN "low" ELSE "available"

WithBudget(state) ==
  IF "budget" \in settings THEN Worse(BudgetStatus(state.cost), state.status) ELSE state.status

\* derive_window_statuses: the sessions of the window times the multiplier,
\* rounded up, against the limit.
SessionsInWindow(times) ==
  LET n == Cardinality({i \in DOMAIN times : times[i] >= ticks - Cadence})
  IN (n * Multiplier + 99) \div 100

WindowStatus(count) ==
  IF count >= QuotaLimit THEN "exhausted"
  ELSE IF 10 * (QuotaLimit - count) < QuotaLimit THEN "exhausted-soon"
  ELSE IF 10 * (QuotaLimit - count) < 3 * QuotaLimit THEN "low"
  ELSE "available"

QuotaStatus ==
  LET state == Observed
  IN IF "window" \in settings
       THEN Worse(WindowStatus(SessionsInWindow(state.times)), WithBudget(state))
       ELSE WithBudget(state)
-----------------------------------------------------------------------------

\* The last signal, if any.
LastSignal ==
  LET at == {i \in DOMAIN ledger : ledger[i].what \in Signals}
  IN IF at = {} THEN "none" ELSE ledger[Max(at)].what

UsesSince(t) == Cardinality({i \in DOMAIN ledger : ledger[i].what = "usage" /\ ledger[i].at >= t})

\* main.rs:1952: "explicit signals (manual recalibrate, stderr detection) are
\* never downgraded": a window that was signalled exhausted, or nearly, is told
\* at least as such, however little the window or the budget has been used and
\* whatever usage came later, until another signal (derive_window_statuses).
SignalNotDowngraded ==
  LastSignal \in {"exhausted", "exhausted-soon"} => Rank(QuotaStatus) >= Rank(LastSignal)

\* A window whose rolling limit is used up is told exhausted, also when its use
\* lies before a signal that it was refilled (derive_window_statuses).
FullWindowIsExhausted ==
  "window" \in settings /\ UsesSince(ticks - Cadence) * Multiplier >= QuotaLimit * 100 =>
    QuotaStatus = "exhausted"

\* comp-jam-svc-observe.md:65: "The quota reader also folds quota.usage-observed
\* cost into configured API-budget spend": the budget has paid every use.
BudgetPaysEveryUse == Observed.cost = CostPerUse * UsesSince(0)

\* A provider is not shown as better than what is known of it: a signal stays,
\* a full window is exhausted (main.rs:1955-2254 of jam-svc-observe).
QuotaSafety == SignalNotDowngraded /\ FullWindowIsExhausted
=============================================================================
