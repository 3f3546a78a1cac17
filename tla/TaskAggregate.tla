---------------------------- MODULE TaskAggregate ----------------------------
(***************************************************************************)
(* The task aggregate of crates/jam-task-core: the state of one task as a  *)
(* fold over its domain events.  The module has no variables; it defines   *)
(* the aggregates, the events and the operator Apply, which the event      *)
(* store (TaskStore), the abstract stream (TaskStream) and the lifecycle   *)
(* daemon (TaskLifecycle) all use.                                         *)
(*                                                                         *)
(* Descriptions, titles, timestamps, reviewer and CI texts are not kept:   *)
(* no property tells them apart.  The outcome string is kept by its kind.  *)
(***************************************************************************)
EXTENDS Integers, TLAPS

CONSTANTS
  SessionIds,        \* ids of Picker sessions
  NoSession,         \* current_session_id = None
  PrRefs,            \* GitHub references of pull requests
  NoPr,              \* pr = None
  CONTINUATION_CAP   \* continuations allowed in a phase

ASSUME NoSessionAssumption == NoSession \notin SessionIds
ASSUME NoPrAssumption      == NoPr \notin PrRefs
ASSUME CapAssumption       == CONTINUATION_CAP \in Nat \ {0}

LiveStatuses     == {"Queued", "Active", "PostPicker", "InReview"}
TerminalStatuses == {"Merged", "Failed", "Abandoned"}
Statuses         == LiveStatuses \union TerminalStatuses

Phases   == {"PrePr", "PostPr"}
Outcomes == {"none", "merged", "failed", "abandoned"}

SessionEvents == {"PickerAssigned", "PickerSucceeded", "PickerFailed",
                  "ContinuationDispatched"}
PrEvents      == {"PrOpened", "ReviewReceived", "CiStatusChanged", "PrMerged"}
PlainEvents   == {"Requested", "Failed", "Abandoned"}

Events == [type: PlainEvents]
            \union [type: SessionEvents, session: SessionIds]
            \union [type: {"ContinuationRequested"}, phase: Phases]
            \union [type: PrEvents, pr: PrRefs]

Aggregates ==
  [version: Nat, initialized: BOOLEAN, status: Statuses,
   session: SessionIds \union {NoSession},
   pr: PrRefs \union {NoPr}, prMerged: BOOLEAN,
   prePr: Nat, postPr: Nat, outcome: Outcomes]

-----------------------------------------------------------------------------

\* TaskAggregate::new
NewAggregate ==
  [version |-> 0, initialized |-> FALSE, status |-> "Queued",
   session |-> NoSession, pr |-> NoPr, prMerged |-> FALSE,
   prePr |-> 0, postPr |-> 0, outcome |-> "none"]

IsTerminal(status) == status \in TerminalStatuses

HasPr(a) == a.pr # NoPr

ContinuationPhase(hasPr) == IF hasPr THEN "PostPr" ELSE "PrePr"

TotalContinuations(a) == a.prePr + a.postPr

\* Faulty variants: one continuation too many; the request at hand, already
\* counted by its event, is counted again.
CanContinueOnceMore(a) ==
  IF HasPr(a) THEN a.postPr <= CONTINUATION_CAP ELSE a.prePr <= CONTINUATION_CAP

CanContinueCountedTwice(a) ==
  IF HasPr(a) THEN a.postPr + 1 < CONTINUATION_CAP ELSE a.prePr + 1 < CONTINUATION_CAP

CanContinue(a) ==
  IF HasPr(a) THEN a.postPr < CONTINUATION_CAP ELSE a.prePr < CONTINUATION_CAP

\* The only events refused: a first event that is not Requested, and a
\* second Requested.
Accepts(a, ev) == a.initialized <=> ev.type # "Requested"

\* Faulty variants of the next operator: a review moves a task to review, a
\* merge is taken from any status.
TransitionOnReview(status, type) ==
  CASE type = "PickerAssigned" /\ status = "Queued" -> "Active"
    [] type = "ReviewReceived" /\ status \in {"PostPicker", "Active"} -> "InReview"
    [] OTHER -> status

TransitionOnAnyMerge(status, type) ==
  CASE type = "PickerAssigned" /\ status = "Queued" -> "Active"
    [] type = "PrMerged" -> "Merged"
    [] OTHER -> status

\* The status an event of this type leads to; a source status that has no
\* arm keeps its status.  The caller has filtered terminal statuses.
ComputeTransition(status, type) ==
  CASE type = "PickerAssigned" /\ status \in {"Queued", "Active"} -> "Active"
    [] type = "PickerSucceeded" /\ status = "Active" -> "PostPicker"
    [] type = "ContinuationDispatched"
         /\ status \in {"PostPicker", "InReview", "Active"} -> "Active"
    [] type = "PrOpened" /\ status \in {"PostPicker", "Active"} -> "InReview"
    [] type = "PrMerged" /\ status = "InReview" -> "Merged"
    [] type = "Failed" -> "Failed"
    [] type = "Abandoned" -> "Abandoned"
    [] OTHER -> status

\* Faulty variant: any Picker's end clears it.
ClearAnySession(a, s) == [a EXCEPT !.session = NoSession]

\* A Picker's end clears the session only when it is the current one.
ClearSession(a, s) == IF a.session = s THEN [a EXCEPT !.session = NoSession] ELSE a

\* Faulty variant: counts down what is left after a PR.
RefundContinuation(a, phase) ==
  IF phase = "PrePr" THEN [a EXCEPT !.prePr = @ + 1]
                     ELSE [a EXCEPT !.postPr = @ - 1]

CountContinuation(a, phase) ==
  IF phase = "PrePr" THEN [a EXCEPT !.prePr = @ + 1]
                     ELSE [a EXCEPT !.postPr = @ + 1]

\* Faulty variant: a PR that is opened takes over the merge of another.
ApplyFieldsMergeKept(a, ev) ==
  CASE ev.type = "PrOpened" -> [a EXCEPT !.pr = ev.pr]
    [] ev.type = "PrMerged" ->
         [a EXCEPT !.outcome = "merged", !.pr = ev.pr, !.prMerged = TRUE]
    [] OTHER -> a

ApplyFields(a, ev) ==
  CASE ev.type \in {"PickerAssigned", "ContinuationDispatched"} ->
         [a EXCEPT !.session = ev.session]
    [] ev.type \in {"PickerSucceeded", "PickerFailed"} ->
         ClearSession(a, ev.session)
    [] ev.type = "ContinuationRequested" -> CountContinuation(a, ev.phase)
    [] ev.type = "PrOpened" ->
         [a EXCEPT !.postPr = 0, !.pr = ev.pr, !.prMerged = FALSE]
    [] ev.type \in {"ReviewReceived", "CiStatusChanged"} ->
         IF HasPr(a) THEN [a EXCEPT !.pr = ev.pr] ELSE a
    [] ev.type = "PrMerged" ->
         [a EXCEPT !.outcome = "merged", !.pr = ev.pr, !.prMerged = TRUE]
    [] ev.type = "Failed" -> [a EXCEPT !.outcome = "failed"]
    [] ev.type = "Abandoned" -> [a EXCEPT !.outcome = "abandoned"]
    [] OTHER -> a

\* Faulty variant: a late failure overwrites the outcome.
RecordLateFailure(a, ev) ==
  CASE ev.type = "Failed" -> [a EXCEPT !.outcome = "failed"]
    [] ev.type = "PrOpened" -> [a EXCEPT !.pr = ev.pr]
    [] OTHER -> a

\* A late event on a terminal task: the session of a new spawn and the
\* reference of a new PR are recorded, merge fields are kept.
RecordMetadata(a, ev) ==
  CASE ev.type = "PickerAssigned" -> [a EXCEPT !.session = ev.session]
    [] ev.type = "PrOpened" -> [a EXCEPT !.pr = ev.pr]
    [] OTHER -> a

\* Faulty variant: terminal statuses are not filtered out.
ApplyAfterEnd(a, ev) ==
  IF ~a.initialized
  THEN [a EXCEPT !.initialized = TRUE, !.version = 1]
  ELSE [ApplyFields(a, ev) EXCEPT
          !.status  = ComputeTransition(a.status, ev.type),
          !.version = a.version + 1]

\* TaskAggregate::apply, for an event that is accepted.
Apply(a, ev) ==
  IF ~a.initialized
  THEN [a EXCEPT !.initialized = TRUE, !.status = "Queued", !.version = 1]
  ELSE IF IsTerminal(a.status)
       THEN [RecordMetadata(a, ev) EXCEPT !.version = a.version + 1]
       ELSE [ApplyFields(a, ev) EXCEPT
               !.status  = ComputeTransition(a.status, ev.type),
               !.version = a.version + 1]
-----------------------------------------------------------------------------
(* What is proved of these operators for any sessions, PRs and cap; the     *)
(* stream, the store and the lifecycle daemon cite it.                     *)

\* The fields an event sets have their types and leave the version alone.
LEMMA ApplyFieldsType ==
  ASSUME NEW a \in Aggregates, NEW ev \in Events
  PROVE  /\ ApplyFields(a, ev) \in Aggregates
         /\ ApplyFields(a, ev).version = a.version
         /\ ApplyFields(a, ev).initialized = a.initialized
         /\ ApplyFields(a, ev).status = a.status
<1> USE DEF Aggregates
<1>1. CASE ev.type \in {"PickerAssigned", "ContinuationDispatched"}
  <2>1. ev.session \in SessionIds
    BY <1>1 DEF Events, PlainEvents, SessionEvents, PrEvents
  <2> QED BY <1>1, <2>1 DEF ApplyFields
<1>2. CASE ev.type \in {"PickerSucceeded", "PickerFailed"}
  BY <1>2 DEF ApplyFields, ClearSession
<1>3. CASE ev.type = "ContinuationRequested"
  BY <1>3 DEF ApplyFields, CountContinuation
<1>4. CASE ev.type \in PrEvents
  <2>1. ev.pr \in PrRefs
    BY <1>4 DEF Events, PlainEvents, SessionEvents, PrEvents
  <2> QED BY <1>4, <2>1 DEF ApplyFields, PrEvents, HasPr, Outcomes
<1>5. CASE ev.type \in PlainEvents
  BY <1>5 DEF ApplyFields, PlainEvents, Outcomes
<1> QED
  BY <1>1, <1>2, <1>3, <1>4, <1>5 DEF Events, SessionEvents

\* A late event on a terminal task keeps types and everything but the
\* session and the PR reference.
LEMMA RecordMetadataType ==
  ASSUME NEW a \in Aggregates, NEW ev \in Events
  PROVE  /\ RecordMetadata(a, ev) \in Aggregates
         /\ RecordMetadata(a, ev) =
              [a EXCEPT !.session = RecordMetadata(a, ev).session,
                        !.pr = RecordMetadata(a, ev).pr]
         /\ HasPr(a) => HasPr(RecordMetadata(a, ev))
<1> USE DEF Aggregates
<1>1. CASE ev.type = "PickerAssigned"
  <2>1. ev.session \in SessionIds
    BY <1>1 DEF Events, PlainEvents, SessionEvents, PrEvents
  <2> QED BY <1>1, <2>1 DEF RecordMetadata, HasPr
<1>2. CASE ev.type = "PrOpened"
  <2>1. ev.pr \in PrRefs
    BY <1>2 DEF Events, PlainEvents, SessionEvents, PrEvents
  <2> QED BY <1>2, <2>1, NoPrAssumption DEF RecordMetadata, HasPr
<1>3. CASE ev.type \notin {"PickerAssigned", "PrOpened"}
  BY <1>3 DEF RecordMetadata, HasPr
<1> QED BY <1>1, <1>2, <1>3

\* A status moves to a status.
LEMMA ComputeTransitionType ==
  ASSUME NEW s \in Statuses, NEW type
  PROVE  ComputeTransition(s, type) \in Statuses
BY DEF ComputeTransition, Statuses, LiveStatuses, TerminalStatuses

\* Applying an event to an aggregate gives an aggregate.
LEMMA ApplyType ==
  ASSUME NEW a \in Aggregates, NEW ev \in Events
  PROVE  Apply(a, ev) \in Aggregates
<1>0. a.version \in Nat /\ a.version + 1 \in Nat
  BY DEF Aggregates
<1>1. CASE ~a.initialized
  <2>1. Apply(a, ev) =
          [a EXCEPT !.initialized = TRUE, !.status = "Queued", !.version = 1]
    BY <1>1 DEF Apply
  <2> DEFINE b == [a EXCEPT !.initialized = TRUE]
             s == "Queued"
             n == 1
  <2>2. s \in Statuses
    BY DEF Statuses, LiveStatuses
  <2>3. b \in Aggregates
    BY DEF Aggregates
  <2>4. Apply(a, ev) = [b EXCEPT !.status = s, !.version = n]
    BY <2>1
  <2>5. n \in Nat
    OBVIOUS
  <2> HIDE DEF b, s, n
  <2> QED BY <2>2, <2>3, <2>4, <2>5 DEF Aggregates
<1>2. CASE a.initialized /\ IsTerminal(a.status)
  <2> DEFINE m == RecordMetadata(a, ev)
  <2>1. Apply(a, ev) = [m EXCEPT !.version = a.version + 1]
    BY <1>2 DEF Apply
  <2>2. m \in Aggregates
    BY RecordMetadataType
  <2> HIDE DEF m
  <2> QED BY <1>0, <2>1, <2>2 DEF Aggregates
<1>3. CASE a.initialized /\ ~IsTerminal(a.status)
  <2> DEFINE m == ApplyFields(a, ev)
             s == ComputeTransition(a.status, ev.type)
  <2>1. Apply(a, ev) = [m EXCEPT !.status = s, !.version = a.version + 1]
    BY <1>3 DEF Apply
  <2>2. m \in Aggregates
    BY ApplyFieldsType
  <2>3. s \in Statuses
    BY ComputeTransitionType DEF Aggregates
  <2> HIDE DEF m, s
  <2> QED BY <1>0, <2>1, <2>2, <2>3 DEF Aggregates
<1> QED BY <1>1, <1>2, <1>3
=============================================================================
