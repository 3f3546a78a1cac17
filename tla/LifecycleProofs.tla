--------------------------- MODULE LifecycleProofs ---------------------------
(***************************************************************************)
(* What is proved of the abstract task stream, and of the lifecycle daemon *)
(* that appends to it, for any set of sessions, PRs and polls, any cap,    *)
(* any faults and any number of deaths.  The bound on messages in flight   *)
(* plays no part.                                                          *)
(***************************************************************************)
EXTENDS TaskLifecycle, TLAPS, FiniteSetTheorems

-----------------------------------------------------------------------------
(* The abstract task stream, for any set of tasks, sessions, PRs and keys. *)

\* Type correctness of the stream, for every value of the constants.
THEOREM StreamTypeCorrect == StreamSpec => []StreamTypeOK
<1>1. StreamInit => StreamTypeOK
  BY DEF StreamInit, StreamTypeOK, NewAggregate, Aggregates, Statuses,
         LiveStatuses, Outcomes
<1>2. StreamTypeOK /\ [StreamNext]_streamVars => StreamTypeOK'
  <2> SUFFICES ASSUME StreamTypeOK, [StreamNext]_streamVars
               PROVE  StreamTypeOK'
    OBVIOUS
  <2>1. ASSUME NEW t \in Tasks, NEW ev \in Events, NEW key \in Keys,
               AppendEvent(t, ev, key)
        PROVE  StreamTypeOK'
    <3>1. Apply(agg[t], ev) \in Aggregates
      BY ApplyType DEF StreamTypeOK
    <3> QED BY <2>1, <3>1 DEF AppendEvent, StreamTypeOK
  <2>2. CASE UNCHANGED streamVars
    BY <2>2 DEF streamVars, StreamTypeOK
  <2> QED BY <2>1, <2>2 DEF StreamNext
<1> QED BY <1>1, <1>2, PTL DEF StreamSpec

-----------------------------------------------------------------------------
(* The inductive invariant of one aggregate: TerminalOutcome and           *)
(* ReviewHasPr, with what the first event of a stream finds.               *)

Untouched(a) == a.status = "Queued" /\ a.version = 0 /\ a.prePr = 0 /\ a.postPr = 0

AggregateInv(a) ==
  /\ a.status = "Merged" => a.outcome = "merged" /\ HasPr(a) /\ a.prMerged
  /\ a.status = "Failed" => a.outcome = "failed"
  /\ a.status = "Abandoned" => a.outcome = "abandoned"
  /\ a.status = "InReview" => HasPr(a) /\ ~a.prMerged
  /\ ~a.initialized => Untouched(a)

StreamInv == StreamTypeOK /\ \A t \in Tasks : AggregateInv(agg[t])

\* The status-independent fields Apply computes on a live task.
LEMMA ApplyLive ==
  ASSUME NEW a \in Aggregates, NEW ev \in Events,
         a.initialized, ~IsTerminal(a.status)
  PROVE  /\ Apply(a, ev).status = ComputeTransition(a.status, ev.type)
         /\ Apply(a, ev).version = a.version + 1
         /\ Apply(a, ev).initialized
         /\ Apply(a, ev).pr = ApplyFields(a, ev).pr
         /\ Apply(a, ev).prMerged = ApplyFields(a, ev).prMerged
         /\ Apply(a, ev).outcome = ApplyFields(a, ev).outcome
         /\ Apply(a, ev).prePr = ApplyFields(a, ev).prePr
         /\ Apply(a, ev).postPr = ApplyFields(a, ev).postPr
<1> DEFINE m == ApplyFields(a, ev)
           s == ComputeTransition(a.status, ev.type)
<1>1. Apply(a, ev) = [m EXCEPT !.status = s, !.version = a.version + 1]
  BY DEF Apply
<1>2. m \in Aggregates /\ m.initialized = a.initialized
  BY ApplyFieldsType
<1> HIDE DEF m, s
<1>3. /\ Apply(a, ev).status = s
      /\ Apply(a, ev).version = a.version + 1
      /\ Apply(a, ev).initialized = m.initialized
      /\ Apply(a, ev).pr = m.pr
      /\ Apply(a, ev).prMerged = m.prMerged
      /\ Apply(a, ev).outcome = m.outcome
      /\ Apply(a, ev).prePr = m.prePr
      /\ Apply(a, ev).postPr = m.postPr
  BY <1>1, <1>2 DEF Aggregates
<1> QED BY <1>2, <1>3 DEF m, s

\* The fields Apply keeps on a terminal task.
LEMMA ApplyTerminal ==
  ASSUME NEW a \in Aggregates, NEW ev \in Events,
         a.initialized, IsTerminal(a.status)
  PROVE  /\ Apply(a, ev).status = a.status
         /\ Apply(a, ev).version = a.version + 1
         /\ Apply(a, ev).initialized
         /\ Apply(a, ev).prMerged = a.prMerged
         /\ Apply(a, ev).outcome = a.outcome
         /\ Apply(a, ev).prePr = a.prePr
         /\ Apply(a, ev).postPr = a.postPr
         /\ HasPr(a) => HasPr(Apply(a, ev))
<1> DEFINE m == RecordMetadata(a, ev)
<1>1. Apply(a, ev) = [m EXCEPT !.version = a.version + 1]
  BY DEF Apply
<1>2. /\ m \in Aggregates
      /\ m = [a EXCEPT !.session = m.session, !.pr = m.pr]
      /\ HasPr(a) => HasPr(m)
  BY RecordMetadataType
<1> HIDE DEF m
<1>3. /\ m.status = a.status
      /\ m.initialized = a.initialized
      /\ m.prMerged = a.prMerged
      /\ m.outcome = a.outcome
      /\ m.prePr = a.prePr
      /\ m.postPr = a.postPr
  BY <1>2 DEF Aggregates
<1> QED BY <1>1, <1>2, <1>3 DEF Aggregates, HasPr

\* The PR and the counters of a live task.
LEMMA ApplyFieldsValues ==
  ASSUME NEW a \in Aggregates, NEW ev \in Events
  PROVE  /\ HasPr(a) => HasPr(ApplyFields(a, ev))
         /\ ev.type = "PrOpened" =>
              HasPr(ApplyFields(a, ev)) /\ ~ApplyFields(a, ev).prMerged
         /\ ev.type # "PrMerged" /\ ~a.prMerged => ~ApplyFields(a, ev).prMerged
         /\ ev.type = "PrMerged" => /\ HasPr(ApplyFields(a, ev))
                                    /\ ApplyFields(a, ev).prMerged
                                    /\ ApplyFields(a, ev).outcome = "merged"
         /\ ev.type = "Failed" => ApplyFields(a, ev).outcome = "failed"
         /\ ev.type = "Abandoned" => ApplyFields(a, ev).outcome = "abandoned"
<1> USE DEF Aggregates
<1>1. CASE ev.type \in {"PickerAssigned", "ContinuationDispatched"}
  BY <1>1 DEF ApplyFields, HasPr
<1>2. CASE ev.type \in {"PickerSucceeded", "PickerFailed"}
  BY <1>2 DEF ApplyFields, ClearSession, HasPr
<1>3. CASE ev.type = "ContinuationRequested"
  BY <1>3 DEF ApplyFields, CountContinuation, HasPr
<1>4. CASE ev.type \in PrEvents
  <2>1. ev.pr \in PrRefs
    BY <1>4 DEF Events, PlainEvents, SessionEvents, PrEvents
  <2>2. CASE ev.type = "PrOpened"
    <3> DEFINE b == ApplyFields(a, ev)
               z == 0
               f == FALSE
    <3>1. b = [a EXCEPT !.postPr = z, !.pr = ev.pr, !.prMerged = f]
      BY <2>2 DEF ApplyFields
    <3> HIDE DEF b, z, f
    <3>2. b.pr = ev.pr /\ b.prMerged = f
      BY <3>1
    <3>3. HasPr(b) /\ ~b.prMerged
      BY <3>2, <2>1, NoPrAssumption DEF HasPr, f
    <3> QED BY <2>2, <3>3 DEF b
  <2>3. CASE ev.type \in {"ReviewReceived", "CiStatusChanged"}
    BY <2>1, <2>3, NoPrAssumption DEF ApplyFields, HasPr
  <2>4. CASE ev.type = "PrMerged"
    <3> DEFINE b == ApplyFields(a, ev)
               o == "merged"
               m == TRUE
    <3>1. b = [a EXCEPT !.outcome = o, !.pr = ev.pr, !.prMerged = m]
      BY <2>4 DEF ApplyFields
    <3> HIDE DEF b, o, m
    <3>2. b.pr = ev.pr /\ b.outcome = o /\ b.prMerged = m
      BY <3>1
    <3>3. HasPr(b) /\ b.prMerged /\ b.outcome = "merged"
      BY <3>2, <2>1, NoPrAssumption DEF HasPr, o, m
    <3> QED BY <2>4, <3>3 DEF b
  <2> QED BY <1>4, <2>2, <2>3, <2>4 DEF PrEvents
<1>5. CASE ev.type \in PlainEvents
  BY <1>5 DEF ApplyFields, PlainEvents, HasPr
<1> QED
  BY <1>1, <1>2, <1>3, <1>4, <1>5 DEF Events, SessionEvents

\* An accepted event keeps the invariant of the aggregate.
LEMMA ApplyKeepsInv ==
  ASSUME NEW a \in Aggregates, NEW ev \in Events,
         AggregateInv(a), Accepts(a, ev)
  PROVE  AggregateInv(Apply(a, ev))
<1>1. CASE ~a.initialized
  <2> DEFINE b == [a EXCEPT !.initialized = TRUE]
             s == "Queued"
             n == 1
  <2>1. Apply(a, ev) = [b EXCEPT !.status = s, !.version = n]
    BY <1>1 DEF Apply
  <2>2. b \in Aggregates /\ b.initialized
    BY <1>1 DEF Aggregates
  <2> HIDE DEF b, s, n
  <2>3. Apply(a, ev).status = s /\ Apply(a, ev).initialized = b.initialized
    BY <2>1, <2>2 DEF Aggregates
  <2> QED
    BY <2>2, <2>3 DEF AggregateInv, s
<1>2. CASE a.initialized /\ IsTerminal(a.status)
  BY <1>2, ApplyTerminal DEF AggregateInv, IsTerminal, TerminalStatuses, Aggregates
<1>3. CASE a.initialized /\ ~IsTerminal(a.status)
  <2> DEFINE b == Apply(a, ev)
             m == ApplyFields(a, ev)
  <2>1. a.status \in LiveStatuses
    BY <1>3 DEF Aggregates, Statuses, IsTerminal
  <2>2. /\ b.status = ComputeTransition(a.status, ev.type)
        /\ b.initialized
        /\ b.pr = m.pr /\ b.prMerged = m.prMerged /\ b.outcome = m.outcome
    BY <1>3, ApplyLive
  <2>4. b.status = "Merged" => ev.type = "PrMerged"
    BY <2>1, <2>2 DEF ComputeTransition, LiveStatuses
  <2>5. b.status = "Failed" => ev.type = "Failed"
    BY <2>1, <2>2 DEF ComputeTransition, LiveStatuses
  <2>6. b.status = "Abandoned" => ev.type = "Abandoned"
    BY <2>1, <2>2 DEF ComputeTransition, LiveStatuses
  <2>7. b.status = "InReview" =>
          ev.type = "PrOpened" \/ (a.status = "InReview" /\ ev.type # "PrMerged")
    BY <2>1, <2>2 DEF ComputeTransition, LiveStatuses
  <2>8. HasPr(b) <=> HasPr(m)
    BY <2>2 DEF HasPr
  <2>9. /\ HasPr(a) => HasPr(m)
        /\ ev.type = "PrOpened" => HasPr(m) /\ ~m.prMerged
        /\ ev.type # "PrMerged" /\ ~a.prMerged => ~m.prMerged
        /\ ev.type = "PrMerged" => HasPr(m) /\ m.prMerged /\ m.outcome = "merged"
        /\ ev.type = "Failed" => m.outcome = "failed"
        /\ ev.type = "Abandoned" => m.outcome = "abandoned"
    BY ApplyFieldsValues
  <2> HIDE DEF b, m
  <2>10. AggregateInv(b)
    BY <2>2, <2>4, <2>5, <2>6, <2>7, <2>8, <2>9 DEF AggregateInv
  <2> QED BY <2>10 DEF b
<1> QED BY <1>1, <1>2, <1>3

-----------------------------------------------------------------------------
(* The theorems of the stream.                                             *)

\* The strengthened invariant is kept by every append.
THEOREM StreamInvariant == StreamSpec => []StreamInv
<1>1. StreamInit => StreamInv
  <2> SUFFICES ASSUME StreamInit PROVE StreamInv
    OBVIOUS
  <2>1. NewAggregate \in Aggregates
    BY DEF NewAggregate, Aggregates, Statuses, LiveStatuses, Outcomes
  <2>2. AggregateInv(NewAggregate)
    BY DEF AggregateInv, NewAggregate, Untouched
  <2> QED BY <2>1, <2>2 DEF StreamInit, StreamInv, StreamTypeOK
<1>2. StreamInv /\ [StreamNext]_streamVars => StreamInv'
  <2> SUFFICES ASSUME StreamInv, [StreamNext]_streamVars
               PROVE  StreamInv'
    OBVIOUS
  <2>1. ASSUME NEW t \in Tasks, NEW ev \in Events, NEW key \in Keys,
               AppendEvent(t, ev, key)
        PROVE  StreamInv'
    <3>1. agg[t] \in Aggregates /\ AggregateInv(agg[t])
      BY DEF StreamInv, StreamTypeOK
    <3>2. Apply(agg[t], ev) \in Aggregates
      BY <3>1, ApplyType
    <3>3. AggregateInv(Apply(agg[t], ev))
      BY <2>1, <3>1, ApplyKeepsInv DEF AppendEvent
    <3>4. StreamTypeOK'
      BY <2>1, <3>2 DEF AppendEvent, StreamInv, StreamTypeOK
    <3>5. \A u \in Tasks : AggregateInv(agg'[u])
      BY <2>1, <3>3 DEF AppendEvent, StreamInv, StreamTypeOK
    <3> QED BY <3>4, <3>5 DEF StreamInv
  <2>2. CASE UNCHANGED streamVars
    BY <2>2 DEF streamVars, StreamInv, StreamTypeOK
  <2> QED BY <2>1, <2>2 DEF StreamNext
<1> QED BY <1>1, <1>2, PTL DEF StreamSpec

\* A terminal task carries the outcome of its status, a merged one its PR.
THEOREM TerminalOutcomeHolds == StreamSpec => []TerminalOutcome
<1>1. StreamInv => TerminalOutcome
  BY DEF StreamInv, AggregateInv, TerminalOutcome
<1> QED BY <1>1, StreamInvariant, PTL

\* A task in review has a PR that is not known to be merged, a merged task one
\* whose merge is recorded.
THEOREM ReviewHasPrHolds == StreamSpec => []ReviewHasPr
<1>1. StreamInv => ReviewHasPr
  BY DEF StreamInv, AggregateInv, ReviewHasPr, Untouched
<1> QED BY <1>1, StreamInvariant, PTL

\* No late event moves a terminal task, its outcome or its merge record.
THEOREM TerminalIsFinalHolds == StreamSpec => TerminalIsFinal
<1> DEFINE Keeps(t) == /\ agg'[t].status = agg[t].status
                       /\ agg'[t].outcome = agg[t].outcome
                       /\ agg'[t].prMerged = agg[t].prMerged
<1>1. StreamInv /\ [StreamNext]_streamVars
        => [\A t \in Tasks : IsTerminal(agg[t].status) => Keeps(t)]_streamVars
  <2> SUFFICES ASSUME StreamInv, StreamNext,
                      NEW t \in Tasks, IsTerminal(agg[t].status)
               PROVE  Keeps(t)
    BY DEF streamVars
  <2>1. PICK u \in Tasks, ev \in Events, key \in Keys : AppendEvent(u, ev, key)
    BY DEF StreamNext
  <2>2. agg[t] \in Aggregates /\ AggregateInv(agg[t])
    BY DEF StreamInv, StreamTypeOK
  <2>3. agg[t].initialized
    BY <2>2 DEF AggregateInv, Untouched, IsTerminal, TerminalStatuses
  <2>4. CASE u = t
    <3>1. agg'[t] = Apply(agg[t], ev)
      BY <2>1, <2>4 DEF AppendEvent, StreamInv, StreamTypeOK
    <3> QED BY <2>2, <2>3, <3>1, ApplyTerminal
  <2>5. CASE u # t
    BY <2>1, <2>5 DEF AppendEvent, StreamInv, StreamTypeOK
  <2> QED BY <2>4, <2>5
<1> QED BY <1>1, StreamInvariant, PTL DEF StreamSpec, TerminalIsFinal

-----------------------------------------------------------------------------
(* The stream implements the graph of statuses.                            *)

\* An accepted event moves the status of its task along an edge of TaskStatus
\* or leaves it where it is.
LEMMA ApplyMovesAlongGraph ==
  ASSUME NEW a \in Aggregates, NEW ev \in Events, AggregateInv(a)
  PROVE  LET from == a.status
             to   == Apply(a, ev).status
         IN  \/ to = from
             \/ from = "Queued" /\ to = "Active"
             \/ from \in {"PostPicker", "InReview"} /\ to = "Active"
             \/ from = "Active" /\ to = "PostPicker"
             \/ from \in {"Active", "PostPicker"} /\ to = "InReview"
             \/ from = "InReview" /\ to = "Merged"
             \/ from \in LiveStatuses /\ to \in {"Failed", "Abandoned"}
<1>1. CASE ~a.initialized
  <2>1. a.status = "Queued"
    BY <1>1 DEF AggregateInv, Untouched
  <2> DEFINE b == [a EXCEPT !.initialized = TRUE]
             s == "Queued"
             n == 1
  <2>2. Apply(a, ev) = [b EXCEPT !.status = s, !.version = n]
    BY <1>1 DEF Apply
  <2>3. b \in Aggregates
    BY DEF Aggregates
  <2> HIDE DEF b, s, n
  <2>4. Apply(a, ev).status = s
    BY <2>2, <2>3 DEF Aggregates
  <2> QED BY <2>1, <2>4 DEF s
<1>2. CASE a.initialized /\ IsTerminal(a.status)
  BY <1>2, ApplyTerminal
<1>3. CASE a.initialized /\ ~IsTerminal(a.status)
  <2>1. a.status \in LiveStatuses
    BY <1>3 DEF Aggregates, Statuses, IsTerminal
  <2>2. Apply(a, ev).status = ComputeTransition(a.status, ev.type)
    BY <1>3, ApplyLive
  <2> QED BY <2>1, <2>2 DEF ComputeTransition, LiveStatuses
<1> QED BY <1>1, <1>2, <1>3

\* However events are ordered, the statuses that TaskStream keeps behave as
\* TaskStatus says: the refinement, for any number of tasks.
THEOREM StatusGraphHolds == StreamSpec => StatusGraph
<1> DEFINE view == [t \in Tasks |-> agg[t].status]
<1>1. StreamInit => StatusView!Init
  BY DEF StreamInit, StatusView!Init, NewAggregate
<1>2. StreamInv /\ [StreamNext]_streamVars => [StatusView!Next]_view
  <2> SUFFICES ASSUME StreamInv, [StreamNext]_streamVars
               PROVE  StatusView!Next \/ view' = view
    OBVIOUS
  <2>1. ASSUME NEW t \in Tasks, NEW ev \in Events, NEW key \in Keys,
               AppendEvent(t, ev, key)
        PROVE  StatusView!Next \/ view' = view
    <3> DEFINE to == Apply(agg[t], ev).status
    <3>1. agg[t] \in Aggregates /\ AggregateInv(agg[t])
      BY DEF StreamInv, StreamTypeOK
    <3>2. view' = [view EXCEPT ![t] = to]
      BY <2>1 DEF AppendEvent, StreamInv, StreamTypeOK
    <3>3. view[t] = agg[t].status
      OBVIOUS
    <3>4. \/ to = view[t]
          \/ view[t] = "Queued" /\ to = "Active"
          \/ view[t] \in {"PostPicker", "InReview"} /\ to = "Active"
          \/ view[t] = "Active" /\ to = "PostPicker"
          \/ view[t] \in {"Active", "PostPicker"} /\ to = "InReview"
          \/ view[t] = "InReview" /\ to = "Merged"
          \/ view[t] \in LiveStatuses /\ to \in {"Failed", "Abandoned"}
      BY <3>1, <3>3, ApplyMovesAlongGraph
    <3>5. CASE to = view[t]
      BY <3>2, <3>5
    <3>6. CASE to # view[t]
      <4> HIDE DEF to
      <4>1. \/ StatusView!Dispatch(t) \/ StatusView!Redispatch(t)
            \/ StatusView!Finish(t) \/ StatusView!OpenPr(t)
            \/ StatusView!Merge(t) \/ StatusView!Fail(t) \/ StatusView!Abandon(t)
        BY <3>2, <3>4, <3>6
           DEF LiveStatuses, StatusView!Dispatch, StatusView!Redispatch,
               StatusView!Finish, StatusView!OpenPr, StatusView!Merge,
               StatusView!Fail, StatusView!Abandon, StatusView!Move,
               StatusView!Live
      <4> QED BY <4>1 DEF StatusView!Next
    <3> QED BY <3>5, <3>6
  <2>2. CASE UNCHANGED streamVars
    BY <2>2 DEF streamVars
  <2> QED BY <2>1, <2>2 DEF StreamNext
<1> QED
  BY <1>1, <1>2, StreamInvariant, PTL DEF StreamSpec, StatusGraph, StatusView!Spec

-----------------------------------------------------------------------------
(* Messages, and what the handlers publish.                                *)

\* A Picker's end and the continuations of its trace name the Picker by it.
Traced(msg) ==
  /\ msg.type = "picker.exited" => msg.trace = msg.session
  /\ msg.type = "picker.continuation-needed" /\ msg.session # NoSession =>
       msg.trace = msg.session

\* The kinds of messages and what they carry.
LEMMA MessageFields ==
  ASSUME NEW m \in Messages
  PROVE  /\ m.type \in MovesNode \union {"picker.continuation-needed", "pr.review-received"}
         /\ m.trace \in SessionIds \union PollTraces
         /\ m.type = "picker.exited" =>
              m.trace \in SessionIds /\ m.session \in SessionIds /\ m.success \in BOOLEAN
         /\ m.type = "picker.spawned" => m.session \in SessionIds
         /\ m.type = "picker.continuation-needed" =>
              m.session \in SessionIds \union {NoSession}
         /\ m.type \in {"pr.opened", "pr.merged", "pr.review-received"} => m.pr \in PrRefs
BY DEF Messages, MovesNode

\* What the daemon and its neighbours publish are messages.
LEMMA PublishedMessages ==
  /\ \A x \in SessionIds \union PollTraces :
       /\ Plain("task.failed", x) \in Messages /\ Plain("task.failed", x).type = "task.failed"
       /\ Plain("task.abandoned", x) \in Messages
       /\ Plain("task.abandoned", x).type = "task.abandoned"
  /\ \A s \in SessionIds :
       /\ OfSession("picker.spawned", s, s) \in Messages
       /\ OfSession("picker.spawned", s, s).type = "picker.spawned"
  /\ \A x \in SessionIds \union PollTraces, p \in PrRefs,
        by \in {"lifecycle", "session", "poller"},
        type \in {"pr.opened", "pr.merged", "pr.review-received"} :
       /\ OfPr(type, x, p, by) \in Messages
       /\ OfPr(type, x, p, by).type = type
  /\ \A s \in SessionIds, success \in BOOLEAN :
       /\ Exited(s, success) \in Messages
       /\ Exited(s, success).type = "picker.exited"
       /\ Exited(s, success).session = s
       /\ Exited(s, success).trace = s
  /\ \A h \in Handlers, s \in SessionIds \union {NoSession} :
       /\ Continuation(h, s) \in Messages
       /\ Continuation(h, s).type = "picker.continuation-needed"
       /\ Continuation(h, s).session = s
       /\ Continuation(h, s).trace = h.msg.trace
<1>1. \A x \in SessionIds \union PollTraces :
        /\ Plain("task.failed", x) \in Messages /\ Plain("task.failed", x).type = "task.failed"
        /\ Plain("task.abandoned", x) \in Messages
        /\ Plain("task.abandoned", x).type = "task.abandoned"
  BY DEF Messages, Plain
<1>2. \A s \in SessionIds :
        /\ OfSession("picker.spawned", s, s) \in Messages
        /\ OfSession("picker.spawned", s, s).type = "picker.spawned"
  BY DEF Messages, OfSession
<1>3. \A x \in SessionIds \union PollTraces, p \in PrRefs,
         by \in {"lifecycle", "session", "poller"},
         type \in {"pr.opened", "pr.merged", "pr.review-received"} :
        /\ OfPr(type, x, p, by) \in Messages
        /\ OfPr(type, x, p, by).type = type
  BY DEF Messages, OfPr
<1>4. \A s \in SessionIds, success \in BOOLEAN :
        /\ Exited(s, success) \in Messages
        /\ Exited(s, success).type = "picker.exited"
        /\ Exited(s, success).session = s
        /\ Exited(s, success).trace = s
  BY DEF Messages, Exited
<1>5. \A h \in Handlers, s \in SessionIds \union {NoSession} :
        /\ Continuation(h, s) \in Messages
        /\ Continuation(h, s).type = "picker.continuation-needed"
        /\ Continuation(h, s).session = s
        /\ Continuation(h, s).trace = h.msg.trace
  <2> SUFFICES ASSUME NEW h \in Handlers, NEW s \in SessionIds \union {NoSession}
               PROVE  /\ Continuation(h, s) \in Messages
                      /\ Continuation(h, s).type = "picker.continuation-needed"
                      /\ Continuation(h, s).session = s
                      /\ Continuation(h, s).trace = h.msg.trace
    OBVIOUS
  <2>1. h.msg.trace \in SessionIds \union PollTraces
    BY MessageFields DEF Handlers
  <2> QED BY <2>1 DEF Messages, OfSession, Continuation
<1> QED BY <1>1, <1>2, <1>3, <1>4, <1>5

\* adapter::translate makes an event of the aggregate of every message.
LEMMA DomainEvents ==
  ASSUME NEW m \in Messages
  PROVE  /\ DomainEvent(m) \in Events
         /\ DomainEvent(m).type # "Requested"
         /\ DomainEvent(m).type = "Failed" <=> m.type = "task.failed"
         /\ DomainEvent(m).type = "Abandoned" <=> m.type = "task.abandoned"
         /\ DomainEvent(m).type = "ContinuationRequested" <=>
              m.type = "picker.continuation-needed"
         /\ m.type = "picker.continuation-needed" =>
              DomainEvent(m).phase = ContinuationPhase(HasPr(agg[task]))
         /\ DomainEvent(m).type \in {"PrOpened", "PrMerged"} =>
              m.type \in {"pr.opened", "pr.merged"}
<1>0. Phases = {"PrePr", "PostPr"}
      /\ ContinuationPhase(HasPr(agg[task])) \in Phases
  BY DEF Phases, ContinuationPhase
<1>1. CASE m.type = "picker.spawned"
  <2>1. DomainEvent(m) = [type |-> "PickerAssigned", session |-> m.session]
    BY <1>1 DEF DomainEvent
  <2> QED BY <1>1, <2>1, MessageFields DEF Events, SessionEvents
<1>2. CASE m.type = "picker.exited"
  <2>1. DomainEvent(m) =
          [type |-> IF m.success THEN "PickerSucceeded" ELSE "PickerFailed",
           session |-> m.session]
    BY <1>2 DEF DomainEvent
  <2> QED BY <1>2, <2>1, MessageFields DEF Events, SessionEvents
<1>3. CASE m.type = "pr.opened"
  <2>1. DomainEvent(m) = [type |-> "PrOpened", pr |-> m.pr]
    BY <1>3 DEF DomainEvent
  <2> QED BY <1>3, <2>1, MessageFields DEF Events, PrEvents
<1>4. CASE m.type = "pr.merged"
  <2>1. DomainEvent(m) = [type |-> "PrMerged", pr |-> m.pr]
    BY <1>4 DEF DomainEvent
  <2> QED BY <1>4, <2>1, MessageFields DEF Events, PrEvents
<1>5. CASE m.type = "pr.review-received"
  <2>1. DomainEvent(m) = [type |-> "ReviewReceived", pr |-> m.pr]
    BY <1>5 DEF DomainEvent
  <2> QED BY <1>5, <2>1, MessageFields DEF Events, PrEvents
<1>6. CASE m.type = "picker.continuation-needed"
  <2>1. DomainEvent(m) = [type |-> "ContinuationRequested",
                          phase |-> ContinuationPhase(HasPr(agg[task]))]
    BY <1>6 DEF DomainEvent
  <2> QED BY <1>0, <1>6, <2>1 DEF Events
<1>7. CASE m.type = "task.failed"
  <2>1. DomainEvent(m) = [type |-> "Failed"]
    BY <1>7 DEF DomainEvent
  <2> QED BY <1>7, <2>1 DEF Events, PlainEvents
<1>8. CASE m.type = "task.abandoned"
  <2>1. DomainEvent(m) = [type |-> "Abandoned"]
    BY <1>8 DEF DomainEvent
  <2> QED BY <1>8, <2>1 DEF Events, PlainEvents
<1> QED
  BY <1>1, <1>2, <1>3, <1>4, <1>5, <1>6, <1>7, <1>8, MessageFields DEF MovesNode

\* Transition::apply leaves a status, and a merged one as it is.
LEMMA NodeAfterStatus ==
  ASSUME NEW m, NEW status \in NodeStatuses, m.type \in MovesNode
  PROVE  /\ NodeAfter(status, m) \in NodeStatuses
         /\ status = "merged" => NodeAfter(status, m) = "merged"
<1> USE DEF NodeAfter, NodeStatuses, NodeTerminal
<1>1. CASE m.type = "picker.spawned"
  BY <1>1
<1>2. CASE m.type = "picker.exited"
  BY <1>2
<1>3. CASE m.type = "pr.opened"
  BY <1>3
<1>4. CASE m.type = "pr.merged"
  BY <1>4
<1>5. CASE m.type = "task.failed"
  BY <1>5
<1>6. CASE m.type = "task.abandoned"
  BY <1>6
<1> QED BY <1>1, <1>2, <1>3, <1>4, <1>5, <1>6 DEF MovesNode

\* Taking a message out of the inbox keeps the others, in their order.
LEMMA RemoveAtFacts ==
  ASSUME NEW T, NEW q \in Seq(T), NEW i \in 1..Len(q)
  PROVE  /\ RemoveAt(q, i) \in Seq(T)
         /\ Len(RemoveAt(q, i)) = Len(q) - 1
         /\ \A k \in 1..Len(q) - 1 :
              RemoveAt(q, i)[k] = q[IF k < i THEN k ELSE k + 1]
<1> DEFINE a == SubSeq(q, 1, i - 1)
           b == SubSeq(q, i + 1, Len(q))
<1>1. /\ a \in Seq(T) /\ Len(a) = i - 1
      /\ \A k \in 1..i - 1 : a[k] = q[k]
  OBVIOUS
<1>2. /\ b \in Seq(T) /\ Len(b) = Len(q) - i
      /\ \A k \in 1..Len(q) - i : b[k] = q[k + i]
  OBVIOUS
<1>3. RemoveAt(q, i) = a \o b
  BY DEF RemoveAt
<1> HIDE DEF a, b
<1>4. /\ a \o b \in Seq(T) /\ Len(a \o b) = Len(q) - 1
      /\ \A k \in 1..Len(q) - 1 : (a \o b)[k] = IF k < i THEN a[k] ELSE b[k - (i - 1)]
  <2>1. Len(a) + Len(b) = Len(q) - 1 /\ a \in Seq(T) /\ b \in Seq(T)
    BY <1>1, <1>2
  <2>2. /\ a \o b \in Seq(T) /\ Len(a \o b) = Len(a) + Len(b)
        /\ \A k \in 1..Len(a) + Len(b) :
             (a \o b)[k] = IF k <= Len(a) THEN a[k] ELSE b[k - Len(a)]
    BY <2>1
  <2>3. \A k \in 1..Len(q) - 1 : k < i <=> k <= Len(a)
    BY <1>1
  <2> QED BY <1>1, <2>1, <2>2, <2>3
<1>5. ASSUME NEW k \in 1..Len(q) - 1
      PROVE  (a \o b)[k] = q[IF k < i THEN k ELSE k + 1]
  <2>1. CASE k < i
    BY <1>1, <1>4, <2>1
  <2>2. CASE k >= i
    <3>1. k - (i - 1) \in 1..Len(q) - i
      BY <2>2
    <3>2. k - (i - 1) + i = k + 1
      OBVIOUS
    <3> QED BY <1>2, <1>4, <2>2, <3>1, <3>2
  <2>3. k < i \/ k >= i
    OBVIOUS
  <2> QED BY <2>1, <2>2, <2>3
<1> QED BY <1>3, <1>4, <1>5

-----------------------------------------------------------------------------
(* Types, and what the step of a handler says of its message.              *)

Shaped(h) ==
  /\ h.pc = "opening" => h.msg.type = "picker.exited"
  /\ h.pc = "judged" => h.msg.type = "picker.exited"
  /\ h.pc = "resuming" => h.msg.type = "picker.continuation-needed"
  /\ h.pc \in {"read", "truncated"} => h.msg.type \in MovesNode
  /\ Traced(h.msg)

\* What LifecycleTypeOK says of the daemon, and of its neighbours.
DaemonTyped ==
  /\ StreamTypeOK /\ agg[task].initialized
  /\ IsFiniteSet(spent)
  /\ node \in [status: NodeStatuses, readable: BOOLEAN]
  /\ inbox \in Seq(Messages)
  /\ \A i \in 1..Len(inbox) : Traced(inbox[i])
  /\ handlers \subseteq Handlers
  /\ IsFiniteSet(handlers)
  /\ \A h \in handlers : Shaped(h)

OutsideTyped ==
  /\ sessions \in [SessionIds -> {"unborn", "running", "exited", "killed"}]
  /\ handoff \subseteq SessionIds
  /\ prs \in [PrRefs -> {"unborn", "open", "merged"}]
  /\ polled \subseteq PollTraces
  /\ crashes \in 0..MaxCrashes

Typed == DaemonTyped /\ OutsideTyped

\* A handler of a message, in a step of its kind, is one of the handlers.
LEMMA HandlersMove ==
  ASSUME DaemonTyped, NEW h \in handlers,
         NEW pc \in {"stored", "opening", "judged", "resuming", "read", "truncated"},
         Shaped([h EXCEPT !.pc = pc]), GoesOn(h, pc)
  PROVE  /\ handlers' \subseteq Handlers /\ IsFiniteSet(handlers')
         /\ \A g \in handlers' : Shaped(g)
<1>1. [h EXCEPT !.pc = pc] \in Handlers
  BY DEF DaemonTyped, Handlers
<1>2. handlers' = (handlers \ {h}) \union {[h EXCEPT !.pc = pc]}
  BY DEF GoesOn
<1>3. IsFiniteSet(handlers \ {h})
  BY FS_RemoveElement DEF DaemonTyped
<1>4. IsFiniteSet(handlers')
  BY <1>2, <1>3, FS_AddElement
<1> QED BY <1>1, <1>2, <1>4 DEF DaemonTyped

LEMMA HandlerEnds ==
  ASSUME DaemonTyped, NEW h \in handlers, Ends(h)
  PROVE  /\ handlers' \subseteq Handlers /\ IsFiniteSet(handlers')
         /\ \A g \in handlers' : Shaped(g)
BY FS_RemoveElement DEF DaemonTyped, Ends

\* New messages wait behind the others.
LEMMA PublishedOne ==
  ASSUME DaemonTyped, NEW m \in Messages, Publish(<<m>>)
  PROVE  /\ inbox' \in Seq(Messages) /\ Len(inbox') = Len(inbox) + 1
         /\ \A i \in 1..Len(inbox) : inbox'[i] = inbox[i]
         /\ inbox'[Len(inbox) + 1] = m
BY DEF DaemonTyped, Publish

LEMMA PublishedTwo ==
  ASSUME DaemonTyped, NEW m \in Messages, NEW n \in Messages, Publish(<<m, n>>)
  PROVE  /\ inbox' \in Seq(Messages) /\ Len(inbox') = Len(inbox) + 2
         /\ \A i \in 1..Len(inbox) : inbox'[i] = inbox[i]
         /\ inbox'[Len(inbox) + 1] = m
         /\ inbox'[Len(inbox) + 2] = n
BY DEF DaemonTyped, Publish

LEMMA PublishOne ==
  ASSUME DaemonTyped, NEW m \in Messages, Traced(m), Publish(<<m>>)
  PROVE  /\ inbox' \in Seq(Messages)
         /\ \A i \in 1..Len(inbox') : Traced(inbox'[i])
BY PublishedOne DEF DaemonTyped

LEMMA PublishTwo ==
  ASSUME DaemonTyped, NEW m \in Messages, NEW n \in Messages, Traced(m), Traced(n),
         Publish(<<m, n>>)
  PROVE  /\ inbox' \in Seq(Messages)
         /\ \A i \in 1..Len(inbox') : Traced(inbox'[i])
BY PublishedTwo DEF DaemonTyped

\* A step of a handler that appends nothing.
LEMMA DaemonTypedKept ==
  ASSUME DaemonTyped, UNCHANGED store,
         node' \in [status: NodeStatuses, readable: BOOLEAN],
         inbox' \in Seq(Messages), \A i \in 1..Len(inbox') : Traced(inbox'[i]),
         handlers' \subseteq Handlers, IsFiniteSet(handlers'),
         \A h \in handlers' : Shaped(h)
  PROVE  DaemonTyped'
BY DEF DaemonTyped, StreamTypeOK, store, Traced, Shaped

LEMMA AppendTyped ==
  ASSUME DaemonTyped, NEW m \in Messages, AppendEvent(task, DomainEvent(m), Key(m))
  PROVE  /\ StreamTypeOK' /\ agg'[task].initialized
         /\ spent' = spent \union {Key(m)} /\ IsFiniteSet(spent')
         /\ agg'[task] = Apply(agg[task], DomainEvent(m))
<1>1. task \in Tasks /\ agg[task] \in Aggregates /\ Key(m) \in Keys
  BY TaskAssumption, KeysAssumption DEF DaemonTyped, StreamTypeOK
<1>2. DomainEvent(m) \in Events
  BY DomainEvents
<1>3. Apply(agg[task], DomainEvent(m)) \in Aggregates
  BY <1>1, <1>2, ApplyType
<1>4. Apply(agg[task], DomainEvent(m)).initialized
  BY <1>1, <1>2, ApplyLive, ApplyTerminal DEF DaemonTyped
<1>5. agg'[task] = Apply(agg[task], DomainEvent(m))
  BY <1>1 DEF AppendEvent, DaemonTyped, StreamTypeOK
<1>6. IsFiniteSet(spent \union {Key(m)})
  BY FS_AddElement DEF DaemonTyped
<1>7. StreamTypeOK'
  BY <1>1, <1>3 DEF AppendEvent, DaemonTyped, StreamTypeOK
<1> QED BY <1>4, <1>5, <1>6, <1>7 DEF AppendEvent

LEMMA StoreTyped == ASSUME Typed, NEW i \in Takable, Store(i) PROVE Typed'
<1> DEFINE m == inbox[i]
           h == [msg |-> m, pc |-> "stored", read |-> "backlog"]
<1>1. i \in 1..Len(inbox) /\ m \in Messages /\ Traced(m)
  BY WorkersAssumption DEF Takable, Typed, DaemonTyped
<1>2. h \in Handlers /\ Shaped(h)
  BY <1>1 DEF Handlers, Shaped, NodeStatuses
<1>3. /\ inbox' \in Seq(Messages)
      /\ \A k \in 1..Len(inbox') : Traced(inbox'[k])
  <2>1. inbox \in Seq(Messages) /\ inbox' = RemoveAt(inbox, i)
    BY DEF Typed, DaemonTyped, Store
  <2>2. /\ inbox' \in Seq(Messages) /\ Len(inbox') = Len(inbox) - 1
        /\ \A k \in 1..Len(inbox) - 1 : inbox'[k] = inbox[IF k < i THEN k ELSE k + 1]
    BY <1>1, <2>1, RemoveAtFacts
  <2> QED BY <1>1, <2>1, <2>2 DEF Typed, DaemonTyped
<1>4. /\ handlers' \subseteq Handlers /\ IsFiniteSet(handlers')
      /\ \A g \in handlers' : Shaped(g)
  <2>1. handlers' = handlers \union {h}
    BY DEF Store
  <2> QED BY <1>2, <2>1, FS_AddElement DEF Typed, DaemonTyped
<1>5. StreamTypeOK' /\ agg'[task].initialized /\ IsFiniteSet(spent')
  <2>1. CASE AppendEvent(task, DomainEvent(m), Key(m))
    BY <1>1, <2>1, AppendTyped DEF Typed
  <2>2. CASE UNCHANGED store
    BY <2>2 DEF Typed, DaemonTyped, StreamTypeOK, store
  <2> QED BY <2>1, <2>2 DEF Store
<1>6. node' = node /\ OutsideTyped'
  BY DEF Store, Typed, OutsideTyped, outside
<1> QED BY <1>3, <1>4, <1>5, <1>6 DEF Typed, DaemonTyped, Traced, Shaped

\* The steps of a handler keep the types.
LEMMA HandlerTyped == ASSUME Typed, NEW h \in handlers, HandlerStep(h) PROVE Typed'
<1> USE DEF Typed
<1>1. h \in Handlers /\ h.msg \in Messages /\ Shaped(h) /\ Traced(h.msg)
  BY DEF DaemonTyped, Handlers, Shaped
<1>2. \A pc : /\ [h EXCEPT !.pc = pc].msg = h.msg
              /\ [h EXCEPT !.pc = pc].pc = pc
  BY <1>1 DEF Handlers
<1>3. ASSUME JudgeExit(h) PROVE Typed'
  <2>1. h.msg.session \in SessionIds /\ h.msg.trace = h.msg.session
    BY <1>1, <1>3, MessageFields DEF JudgeExit, Traced
  <2>2. Continuation(h, h.msg.session) \in Messages /\ Traced(Continuation(h, h.msg.session))
    BY <1>1, <2>1, PublishedMessages DEF Traced
  <2>3. UNCHANGED store /\ node' = node /\ OutsideTyped'
    BY <1>3 DEF JudgeExit, OutsideTyped, outside
  <2>4. CASE GoesOn(h, "judged") /\ Publish(<<Continuation(h, h.msg.session)>>)
    <3>1. Shaped([h EXCEPT !.pc = "judged"])
      BY <1>1, <1>2, <1>3 DEF JudgeExit, Shaped
    <3> QED BY <2>2, <2>3, <2>4, <3>1, HandlersMove, PublishOne, DaemonTypedKept
            DEF DaemonTyped
  <2>5. CASE GoesOn(h, "opening") /\ UNCHANGED inbox
    <3>1. Shaped([h EXCEPT !.pc = "opening"])
      BY <1>1, <1>2, <1>3 DEF JudgeExit, Shaped
    <3> QED BY <2>3, <2>5, <3>1, HandlersMove, DaemonTypedKept DEF DaemonTyped
  <2> QED BY <1>3, <2>4, <2>5 DEF JudgeExit
<1>4. ASSUME OpenPrAnswered(h) PROVE Typed'
  <2> DEFINE again == Continuation(h, h.msg.session)
             opened(p) == OfPr("pr.opened", h.msg.trace, p, "lifecycle")
  <2>1. h.msg.session \in SessionIds /\ h.msg.trace = h.msg.session
    BY <1>1, <1>4, MessageFields DEF OpenPrAnswered, Shaped, Traced
  <2>2. again \in Messages /\ Traced(again)
    BY <1>1, <2>1, PublishedMessages DEF Traced
  <2>3. \A p \in PrRefs : opened(p) \in Messages /\ Traced(opened(p))
    BY <2>1, PublishedMessages DEF Traced
  <2>4. Shaped([h EXCEPT !.pc = "judged"])
    BY <1>1, <1>2, <1>4 DEF OpenPrAnswered, Shaped
  <2>5. UNCHANGED store /\ node' = node /\ GoesOn(h, "judged")
    BY <1>4 DEF OpenPrAnswered
  <2>6. OutsideTyped'
    BY <1>4 DEF OpenPrAnswered, OutsideTyped, OpensPr
  <2>7. /\ inbox' \in Seq(Messages)
        /\ \A i \in 1..Len(inbox') : Traced(inbox'[i])
    <3> HIDE DEF again, opened
    <3>1. \/ \E p \in PrRefs : Publish(<<opened(p)>>)
          \/ Publish(<<again>>)
          \/ UNCHANGED inbox
          \/ \E p \in PrRefs : Publish(<<opened(p), again>>)
          \/ \E p \in PrRefs : Publish(<<again, opened(p)>>)
      BY <1>4 DEF OpenPrAnswered, again, opened
    <3> QED BY <2>2, <2>3, <3>1, PublishOne, PublishTwo DEF DaemonTyped
  <2> QED BY <2>4, <2>5, <2>6, <2>7, HandlersMove, DaemonTypedKept DEF DaemonTyped
<1>5. ASSUME AskAfterFeedback(h) PROVE Typed'
  <2>1. Continuation(h, NoSession) \in Messages /\ Traced(Continuation(h, NoSession))
    BY <1>1, PublishedMessages DEF Traced
  <2>2. UNCHANGED store /\ node' = node /\ OutsideTyped' /\ Ends(h)
    BY <1>5 DEF AskAfterFeedback, OutsideTyped, outside
  <2> QED BY <1>5, <2>1, <2>2, HandlerEnds, PublishOne, DaemonTypedKept
          DEF DaemonTyped, AskAfterFeedback
<1>6. ASSUME GoOn(h) PROVE Typed'
  <2>1. UNCHANGED <<store, node, inbox>> /\ OutsideTyped' /\ GoesOn(h, "resuming")
    BY <1>6 DEF GoOn, OutsideTyped, outside
  <2>2. Shaped([h EXCEPT !.pc = "resuming"])
    BY <1>1, <1>2, <1>6 DEF GoOn, Shaped
  <2> QED BY <2>1, <2>2, HandlersMove, DaemonTypedKept DEF DaemonTyped
<1>7. ASSUME GiveUp(h) PROVE Typed'
  <2>1. /\ Plain("task.failed", h.msg.trace) \in Messages
        /\ Traced(Plain("task.failed", h.msg.trace))
    BY <1>1, MessageFields, PublishedMessages DEF Traced
  <2>2. UNCHANGED store /\ node' = node /\ OutsideTyped' /\ Ends(h)
    BY <1>7 DEF GiveUp, OutsideTyped, outside
  <2> QED BY <1>7, <2>1, <2>2, HandlerEnds, PublishOne, DaemonTypedKept
          DEF DaemonTyped, GiveUp
<1>8. ASSUME Resume(h) PROVE Typed'
  <2>1. PICK s \in SessionIds :
          Launched(s) /\ Publish(<<OfSession("picker.spawned", s, s)>>)
    BY <1>8 DEF Resume
  <2>2. /\ OfSession("picker.spawned", s, s) \in Messages
        /\ Traced(OfSession("picker.spawned", s, s))
    BY PublishedMessages DEF Traced
  <2>3. UNCHANGED store /\ node' = node /\ Ends(h)
    BY <1>8 DEF Resume
  <2>4. OutsideTyped'
    BY <1>8, <2>1 DEF Resume, OutsideTyped, Launched
  <2> QED BY <2>1, <2>2, <2>3, <2>4, HandlerEnds, PublishOne, DaemonTypedKept
          DEF DaemonTyped
<1>9. ASSUME ResumeFails(h) PROVE Typed'
  <2>1. UNCHANGED <<store, node, inbox>> /\ OutsideTyped' /\ Ends(h)
    BY <1>9 DEF ResumeFails, OutsideTyped, outside
  <2> QED BY <2>1, HandlerEnds, DaemonTypedKept DEF DaemonTyped
<1>10. ASSUME ReadNode(h) PROVE Typed'
  <2> DEFINE g == [h EXCEPT !.pc = "read", !.read = node.status]
  <2>1. UNCHANGED <<store, node, inbox>> /\ OutsideTyped'
    BY <1>10 DEF ReadNode, OutsideTyped, outside
  <2>2. h.msg.type \in MovesNode
    BY <1>1, <1>10 DEF ReadNode, AtNode, Shaped, MovesNode
  <2>3. g \in Handlers /\ g.msg = h.msg /\ g.pc = "read"
    BY <1>1 DEF Handlers, DaemonTyped
  <2>4. Shaped(g)
    BY <1>1, <2>2, <2>3 DEF Shaped
  <2>5. CASE handlers' = (handlers \ {h}) \union {g}
    <3>1. IsFiniteSet(handlers \ {h})
      BY FS_RemoveElement DEF DaemonTyped
    <3>2. IsFiniteSet(handlers')
      BY <2>5, <3>1, FS_AddElement
    <3> HIDE DEF g
    <3> QED BY <2>1, <2>3, <2>4, <2>5, <3>2, DaemonTypedKept DEF DaemonTyped
  <2>6. CASE Ends(h)
    BY <2>1, <2>6, HandlerEnds, DaemonTypedKept DEF DaemonTyped
  <2> QED BY <1>10, <2>5, <2>6 DEF ReadNode
<1>11. ASSUME TruncateNode(h) PROVE Typed'
  <2>1. UNCHANGED <<store, inbox>> /\ OutsideTyped' /\ GoesOn(h, "truncated")
    BY <1>11 DEF TruncateNode, OutsideTyped, outside
  <2>2. node' \in [status: NodeStatuses, readable: BOOLEAN]
    BY <1>11 DEF TruncateNode, DaemonTyped
  <2>3. Shaped([h EXCEPT !.pc = "truncated"])
    BY <1>1, <1>2, <1>11 DEF TruncateNode, Shaped
  <2> QED BY <2>1, <2>2, <2>3, HandlersMove, DaemonTypedKept DEF DaemonTyped
<1>12. ASSUME WriteNode(h) PROVE Typed'
  <2>1. UNCHANGED <<store, inbox>> /\ OutsideTyped' /\ Ends(h)
    BY <1>12 DEF WriteNode, OutsideTyped, outside
  <2>2. h.msg.type \in MovesNode /\ h.read \in NodeStatuses
    BY <1>1, <1>12 DEF WriteNode, Shaped, Handlers
  <2>3. NodeAfter(h.read, h.msg) \in NodeStatuses
    BY <2>2, NodeAfterStatus
  <2>4. node' \in [status: NodeStatuses, readable: BOOLEAN]
    BY <1>12, <2>3 DEF WriteNode
  <2> QED BY <2>1, <2>4, HandlerEnds, DaemonTypedKept DEF DaemonTyped
<1> QED
  BY <1>3, <1>4, <1>5, <1>6, <1>7, <1>8, <1>9, <1>10, <1>11, <1>12 DEF HandlerStep

\* So do its neighbours, which tell at most one message at a time.
LEMMA ToldTyped ==
  ASSUME Typed, NEW m \in Messages, Traced(m), Tell(m),
         UNCHANGED <<agg, spent, node>>, OutsideTyped'
  PROVE  Typed'
BY PublishOne, DaemonTypedKept DEF Typed, DaemonTyped, Tell, store

LEMMA DaemonUnchanged ==
  ASSUME Typed, UNCHANGED <<agg, spent, node, inbox, handlers>>, OutsideTyped'
  PROVE  Typed'
BY DEF Typed, DaemonTyped, StreamTypeOK, Traced, Shaped

LEMMA NeighboursTyped ==
  ASSUME Typed, NEW s \in SessionIds,
         \/ Dispatch(s) \/ OperatorResumes(s) \/ PickerKilledBySignal(s)
         \/ HandsOff(s) \/ FullStop(s)
         \/ \E success \in BOOLEAN : PickerExits(s, success)
  PROVE  Typed'
<1>1. CASE Dispatch(s) \/ OperatorResumes(s)
  <2>1. OutsideTyped' /\ UNCHANGED <<agg, spent, node>>
    BY <1>1 DEF Dispatch, OperatorResumes, Launched, Typed, OutsideTyped, store
  <2>2. /\ OfSession("picker.spawned", s, s) \in Messages
        /\ Traced(OfSession("picker.spawned", s, s))
    BY PublishedMessages DEF Traced
  <2> QED BY <1>1, <2>1, <2>2, ToldTyped DEF Dispatch, OperatorResumes
<1>2. CASE PickerKilledBySignal(s)
  BY <1>2, DaemonUnchanged DEF PickerKilledBySignal, Typed, OutsideTyped, store
<1>3. CASE HandsOff(s)
  <2>1. OutsideTyped' /\ UNCHANGED <<agg, spent, node>>
    BY <1>3 DEF HandsOff, OpensPr, Typed, OutsideTyped, store
  <2>2. CASE UNCHANGED <<prs, inbox, handlers>>
    BY <2>1, <2>2, DaemonUnchanged
  <2>3. ASSUME NEW p \in PrRefs, Tell(OfPr("pr.opened", s, p, "session"))
        PROVE  Typed'
    <3>1. /\ OfPr("pr.opened", s, p, "session") \in Messages
          /\ Traced(OfPr("pr.opened", s, p, "session"))
      BY PublishedMessages DEF Traced
    <3> QED BY <2>1, <2>3, <3>1, ToldTyped
  <2> QED BY <1>3, <2>2, <2>3 DEF HandsOff
<1>4. CASE FullStop(s)
  <2>1. OutsideTyped' /\ UNCHANGED <<agg, spent, node>>
    BY <1>4 DEF FullStop, Typed, OutsideTyped, store
  <2>2. Plain("task.abandoned", s) \in Messages /\ Traced(Plain("task.abandoned", s))
    BY PublishedMessages DEF Traced
  <2> QED BY <1>4, <2>1, <2>2, ToldTyped DEF FullStop
<1>5. ASSUME NEW success \in BOOLEAN, PickerExits(s, success)
      PROVE  Typed'
  <2>1. OutsideTyped' /\ UNCHANGED <<agg, spent, node>>
    BY <1>5 DEF PickerExits, Typed, OutsideTyped, store
  <2>2. Exited(s, success) \in Messages /\ Traced(Exited(s, success))
    BY PublishedMessages DEF Traced
  <2> QED BY <1>5, <2>1, <2>2, ToldTyped DEF PickerExits
<1> QED BY <1>1, <1>2, <1>3, <1>4, <1>5

LEMMA PollsTyped ==
  ASSUME Typed, NEW p \in PrRefs, NEW trace \in PollTraces,
         Reviewed(p, trace) \/ Merged(p, trace)
  PROVE  Typed'
<1>1. OutsideTyped' /\ UNCHANGED <<agg, spent, node>>
  BY DEF Reviewed, Merged, Typed, OutsideTyped, store
<1>2. \A type \in {"pr.review-received", "pr.merged"} :
        /\ OfPr(type, trace, p, "poller") \in Messages
        /\ Traced(OfPr(type, trace, p, "poller"))
  BY PublishedMessages DEF Traced
<1> QED BY <1>1, <1>2, ToldTyped DEF Reviewed, Merged

LEMMA CrashTyped == ASSUME Typed, Crash PROVE Typed'
<1>1. inbox' = <<>> /\ handlers' = {} /\ UNCHANGED store /\ node' = node
  BY DEF Crash
<1>2. OutsideTyped'
  BY CrashesAssumption DEF Crash, Typed, OutsideTyped
<1> QED BY <1>1, <1>2, FS_EmptySet, DaemonTypedKept DEF Typed, DaemonTyped

LEMMA TypedInitially == ASSUME LifecycleInit PROVE Typed
<1>1. [type |-> "Requested"] \in Events
  BY DEF Events, PlainEvents
<1>2. NewAggregate \in Aggregates
  BY DEF NewAggregate, Aggregates, Statuses, LiveStatuses, Outcomes
<1>3. Apply(NewAggregate, [type |-> "Requested"]) \in Aggregates
  BY <1>1, <1>2, ApplyType
<1>4. Apply(NewAggregate, [type |-> "Requested"]).initialized
  BY DEF Apply, NewAggregate
<1>5. StreamTypeOK /\ agg[task].initialized
  BY <1>3, <1>4, TaskAssumption DEF LifecycleInit, StreamTypeOK
<1>6. DaemonTyped
  BY <1>5, FS_EmptySet DEF LifecycleInit, DaemonTyped, NodeStatuses
<1>7. OutsideTyped
  BY CrashesAssumption DEF LifecycleInit, OutsideTyped
<1> QED BY <1>6, <1>7 DEF Typed

LEMMA TypedInductive == Typed /\ [LifecycleNext]_lifecycleVars => Typed'
<1> SUFFICES ASSUME Typed, [LifecycleNext]_lifecycleVars
             PROVE  Typed'
  OBVIOUS
<1>1. CASE DaemonStep
  BY <1>1, StoreTyped, HandlerTyped DEF DaemonStep
<1>2. CASE Crash
  BY <1>2, CrashTyped
<1>3. CASE UNCHANGED lifecycleVars
  <2>1. OutsideTyped'
    BY <1>3 DEF lifecycleVars, Typed, OutsideTyped
  <2> QED BY <1>3, <2>1, DaemonUnchanged DEF lifecycleVars
<1> QED BY <1>1, <1>2, <1>3, NeighboursTyped, PollsTyped DEF LifecycleNext

LEMMA TypedAlways == LifecycleSpec => []Typed
BY TypedInitially, TypedInductive, PTL DEF LifecycleSpec

\* Type correctness of the daemon, its inbox and its handlers, and of what it
\* knows of Pickers and PRs.
THEOREM LifecycleTypeCorrect == LifecycleSpec => []LifecycleTypeOK
<1>1. Typed => LifecycleTypeOK
  BY DEF Typed, DaemonTyped, OutsideTyped, LifecycleTypeOK
<1> QED BY <1>1, TypedAlways, PTL
-----------------------------------------------------------------------------
(* The node: what a handler has truncated it writes.                       *)

\* A handler that does not write leaves those that do as they are.
LEMMA OthersWrite ==
  ASSUME DaemonTyped, UnreadableWhileWritten, NEW h \in handlers, h.pc # "truncated",
         UNCHANGED <<node, crashes>>,
         \A g \in handlers : g # h => g \in handlers'
  PROVE  UnreadableWhileWritten'
<1>1. ASSUME NEW g \in handlers, g.pc = "truncated"
      PROVE  g \in handlers'
  BY <1>1
<1> QED BY <1>1 DEF UnreadableWhileWritten

LEMMA WrittenInductive ==
  ASSUME Typed, UnreadableWhileWritten, [LifecycleNext]_lifecycleVars
  PROVE  UnreadableWhileWritten'
<1> USE DEF Typed
<1>1. ASSUME NEW i \in Takable, Store(i) PROVE UnreadableWhileWritten'
  <2>1. handlers \subseteq handlers' /\ UNCHANGED <<node, crashes>>
    BY <1>1 DEF Store, outside
  <2> QED BY <2>1 DEF UnreadableWhileWritten
<1>2. ASSUME NEW h \in handlers, HandlerStep(h) PROVE UnreadableWhileWritten'
  <2>1. h \in Handlers
    BY DEF DaemonTyped
  <2>2. ASSUME h.pc # "truncated", UNCHANGED <<node, crashes>>,
               Ends(h) \/ \E pc \in {"opening", "judged", "resuming"} : GoesOn(h, pc)
        PROVE  UnreadableWhileWritten'
    BY <2>2, OthersWrite DEF Ends, GoesOn
  <2>3. CASE JudgeExit(h) \/ OpenPrAnswered(h)
    BY <2>2, <2>3 DEF JudgeExit, OpenPrAnswered, outside
  <2>4. CASE AskAfterFeedback(h) \/ GoOn(h) \/ GiveUp(h)
    BY <2>2, <2>4 DEF AskAfterFeedback, GoOn, GiveUp, outside
  <2>5. CASE Resume(h) \/ ResumeFails(h)
    BY <2>2, <2>5 DEF Resume, ResumeFails, outside
  <2>6. CASE ReadNode(h)
    <3>1. h.pc # "truncated" /\ UNCHANGED <<node, crashes>>
      BY <2>6 DEF ReadNode, AtNode, outside
    <3>2. \A g \in handlers : g # h => g \in handlers'
      BY <2>6 DEF ReadNode, Ends
    <3> QED BY <3>1, <3>2, OthersWrite
  <2>7. CASE TruncateNode(h)
    <3> DEFINE n == [h EXCEPT !.pc = "truncated"]
    <3>1. n \in handlers'
      BY <2>7 DEF TruncateNode, GoesOn
    <3>2. n.pc = "truncated"
      BY <2>1 DEF Handlers
    <3> HIDE DEF n
    <3> QED BY <3>1, <3>2 DEF UnreadableWhileWritten
  <2>8. CASE WriteNode(h)
    BY <2>8 DEF WriteNode, UnreadableWhileWritten
  <2> QED
    BY <1>2, <2>3, <2>4, <2>5, <2>6, <2>7, <2>8 DEF HandlerStep
<1>3. CASE Crash
  <2>1. crashes' = crashes + 1 /\ crashes \in 0..MaxCrashes
    BY <1>3 DEF Crash, OutsideTyped
  <2>2. crashes' # 0
    BY <2>1, CrashesAssumption
  <2> QED BY <2>2 DEF UnreadableWhileWritten
<1>4. CASE UNCHANGED <<node, handlers, crashes>>
  BY <1>4 DEF UnreadableWhileWritten
<1>5. ASSUME NEW s \in SessionIds,
             \/ Dispatch(s) \/ OperatorResumes(s) \/ PickerKilledBySignal(s)
             \/ HandsOff(s) \/ FullStop(s)
             \/ \E success \in BOOLEAN : PickerExits(s, success)
      PROVE  UNCHANGED <<node, handlers, crashes>>
  BY <1>5 DEF Dispatch, OperatorResumes, PickerKilledBySignal, HandsOff, FullStop,
              PickerExits, Tell
<1>6. ASSUME NEW p \in PrRefs, NEW trace \in PollTraces,
             Reviewed(p, trace) \/ Merged(p, trace)
      PROVE  UNCHANGED <<node, handlers, crashes>>
  BY <1>6 DEF Reviewed, Merged, Tell
<1>7. CASE UNCHANGED lifecycleVars
  BY <1>7, <1>4 DEF lifecycleVars
<1> QED
  BY <1>1, <1>2, <1>3, <1>4, <1>5, <1>6, <1>7 DEF LifecycleNext, DaemonStep

\* On any number of threads a node that cannot be parsed while the daemon
\* lives is in the hands of a handler that will write it, however many
\* handlers are at work and whatever Pickers, PRs and operators do.
THEOREM UnreadableWhileWrittenHolds == LifecycleSpec => []UnreadableWhileWritten
<1>1. LifecycleInit => Typed /\ UnreadableWhileWritten
  BY TypedInitially DEF LifecycleInit, UnreadableWhileWritten
<1>2. Typed /\ UnreadableWhileWritten /\ [LifecycleNext]_lifecycleVars
        => (Typed /\ UnreadableWhileWritten)'
  BY TypedInductive, WrittenInductive
<1> QED BY <1>1, <1>2, PTL DEF LifecycleSpec
-----------------------------------------------------------------------------
(* The turn: what leads to the next Picker is a running Picker, the        *)
(* message of its end, the continuation that end asks for, or the handler  *)
(* of one of the two; there is at most one of them all.                    *)

Turn(msg) ==
  /\ msg.type \in {"picker.exited", "picker.continuation-needed"}
  /\ msg.session \in SessionIds

Acting(h) == h.pc \in {"stored", "opening", "resuming"} /\ Turn(h.msg)

Idle          == \A s \in SessionIds : sessions[s] # "running"
QuietInbox    == \A i \in 1..Len(inbox) : ~Turn(inbox[i])
QuietHandlers == \A h \in handlers : ~Acting(h)

RunningOne ==
  \A s, t \in SessionIds : sessions[s] = "running" /\ sessions[t] = "running" => s = t
InboxOne == \A i, j \in 1..Len(inbox) : Turn(inbox[i]) /\ Turn(inbox[j]) => i = j
HandlersOne == \A g, h \in handlers : Acting(g) /\ Acting(h) => g = h

OneTurn ==
  /\ RunningOne /\ InboxOne /\ HandlersOne
  /\ Idle \/ (QuietInbox /\ QuietHandlers)
  /\ QuietInbox \/ QuietHandlers

\* A turn is of a Picker that was started.
StartedOnly ==
  /\ \A i \in 1..Len(inbox) : Turn(inbox[i]) => sessions[inbox[i].session] # "unborn"
  /\ \A h \in handlers : Acting(h) => sessions[h.msg.session] # "unborn"

TurnInv == StartedOnly /\ OneTurn

\* Messages that are nobody's turn leave the turn where it is.
LEMMA QuietStep ==
  ASSUME DaemonTyped, TurnInv,
         \A s \in SessionIds : sessions'[s] = "running" => sessions[s] = "running",
         \A s \in SessionIds : sessions[s] # "unborn" => sessions'[s] # "unborn",
         \A g \in handlers' : Acting(g) => g \in handlers,
         UNCHANGED inbox \/ \E m \in Messages : ~Turn(m) /\ Publish(<<m>>)
  PROVE  TurnInv'
<1>1. /\ \A i \in 1..Len(inbox') : Turn(inbox'[i]) => i \in 1..Len(inbox) /\ inbox'[i] = inbox[i]
  <2>1. CASE UNCHANGED inbox
    BY <2>1
  <2>2. ASSUME NEW m \in Messages, ~Turn(m), Publish(<<m>>)
        PROVE  \A i \in 1..Len(inbox') :
                 Turn(inbox'[i]) => i \in 1..Len(inbox) /\ inbox'[i] = inbox[i]
    <3>1. inbox \in Seq(Messages)
      BY DEF DaemonTyped
    <3> QED BY <2>2, <3>1, PublishedOne
  <2> QED BY <2>1, <2>2
<1>2. RunningOne' /\ (Idle => Idle')
  BY DEF TurnInv, OneTurn, RunningOne, Idle
<1>3. InboxOne' /\ (QuietInbox => QuietInbox')
  BY <1>1 DEF TurnInv, OneTurn, InboxOne, QuietInbox
<1>4. HandlersOne' /\ (QuietHandlers => QuietHandlers')
  BY DEF TurnInv, OneTurn, HandlersOne, QuietHandlers, Acting
<1>5. StartedOnly'
  <2>1. ASSUME NEW i \in 1..Len(inbox'), Turn(inbox'[i])
        PROVE  sessions'[inbox'[i].session] # "unborn"
    <3>1. i \in 1..Len(inbox) /\ inbox'[i] = inbox[i]
      BY <1>1, <2>1
    <3> QED BY <2>1, <3>1 DEF TurnInv, StartedOnly, Turn
  <2>2. ASSUME NEW h \in handlers', Acting(h)
        PROVE  sessions'[h.msg.session] # "unborn"
    BY <2>2 DEF TurnInv, StartedOnly, Acting, Turn
  <2> QED BY <2>1, <2>2 DEF StartedOnly, Acting
<1> QED BY <1>2, <1>3, <1>4, <1>5 DEF TurnInv, OneTurn

\* The handler that has the turn: nothing else does.
LEMMA TheOnlyTurn ==
  ASSUME Typed, TurnInv, NEW h \in handlers, Acting(h)
  PROVE  /\ Idle /\ QuietInbox
         /\ \A g \in handlers \ {h} : ~Acting(g)
         /\ h.msg.session \in SessionIds /\ sessions[h.msg.session] # "unborn"
BY DEF TurnInv, OneTurn, HandlersOne, QuietHandlers, StartedOnly, Acting, Turn

\* Its turn goes back to the inbox, or away.
LEMMA TurnToInbox ==
  ASSUME Typed, TurnInv, NEW h \in handlers, Acting(h), UNCHANGED sessions,
         \A g \in handlers' : g \in handlers \ {h} \/ ~Acting(g),
         inbox' \in Seq(Messages), InboxOne',
         \A i \in 1..Len(inbox') : Turn(inbox'[i]) =>
           \/ i \in 1..Len(inbox) /\ inbox'[i] = inbox[i]
           \/ inbox'[i].session = h.msg.session
  PROVE  TurnInv'
<1>1. /\ Idle /\ QuietInbox
      /\ \A g \in handlers \ {h} : ~Acting(g)
      /\ h.msg.session \in SessionIds /\ sessions[h.msg.session] # "unborn"
  BY TheOnlyTurn
<1>2. RunningOne' /\ Idle'
  BY <1>1 DEF Idle, RunningOne
<1>3. QuietHandlers' /\ HandlersOne'
  BY <1>1 DEF QuietHandlers, HandlersOne, Acting
<1>4. StartedOnly'
  BY <1>1, <1>3 DEF StartedOnly, QuietHandlers, QuietInbox
<1> QED BY <1>2, <1>3, <1>4 DEF TurnInv, OneTurn

LEMMA StoreTurn ==
  ASSUME Typed, TurnInv, NEW i \in Takable, Store(i) PROVE TurnInv'
<1> DEFINE m == inbox[i]
           n == [msg |-> m, pc |-> "stored", read |-> "backlog"]
<1>1. inbox \in Seq(Messages) /\ i \in 1..Len(inbox)
  BY WorkersAssumption DEF Takable, Typed, DaemonTyped
<1>2. /\ inbox' \in Seq(Messages) /\ Len(inbox') = Len(inbox) - 1
      /\ \A k \in 1..Len(inbox) - 1 : inbox'[k] = inbox[IF k < i THEN k ELSE k + 1]
  BY <1>1, RemoveAtFacts DEF Store
<1>3. handlers' = handlers \union {n} /\ sessions' = sessions
  BY DEF Store, outside
<1>4. n.msg = m /\ n.pc = "stored"
  OBVIOUS
<1> HIDE DEF n
<1>5. ASSUME NEW k \in 1..Len(inbox')
      PROVE  \E j \in 1..Len(inbox) : j # i /\ inbox'[k] = inbox[j]
  <2>1. k \in 1..Len(inbox) - 1 /\ k \in Nat /\ i \in Nat
    BY <1>1, <1>2
  <2>2. CASE k < i
    BY <1>1, <1>2, <2>1, <2>2
  <2>3. CASE ~(k < i)
    <3>1. k + 1 \in 1..Len(inbox) /\ k + 1 # i /\ inbox'[k] = inbox[k + 1]
      BY <1>1, <1>2, <2>1, <2>3
    <3> QED BY <3>1
  <2> QED BY <2>2, <2>3
<1>6. InboxOne' /\ (QuietInbox => QuietInbox')
  <2>1. ASSUME NEW k \in 1..Len(inbox'), NEW l \in 1..Len(inbox'),
               Turn(inbox'[k]), Turn(inbox'[l])
        PROVE  k = l
    <3> DEFINE f(x) == IF x < i THEN x ELSE x + 1
    <3>1. /\ f(k) \in 1..Len(inbox) /\ inbox'[k] = inbox[f(k)]
          /\ f(l) \in 1..Len(inbox) /\ inbox'[l] = inbox[f(l)]
      BY <1>1, <1>2
    <3>2. f(k) = f(l)
      BY <2>1, <3>1 DEF TurnInv, OneTurn, InboxOne
    <3> QED BY <1>1, <1>2, <3>2
  <2>2. InboxOne'
    BY <2>1 DEF InboxOne
  <2>3. QuietInbox => QuietInbox'
    BY <1>5 DEF QuietInbox
  <2> QED BY <2>2, <2>3
<1>7. RunningOne' /\ (Idle => Idle')
  BY <1>3 DEF TurnInv, OneTurn, RunningOne, Idle
<1>8. StartedOnly'
  BY <1>1, <1>3, <1>4, <1>5 DEF TurnInv, StartedOnly, Acting, Turn
<1>9. CASE Turn(m)
  <2>1. Idle /\ QuietHandlers
    BY <1>1, <1>9 DEF TurnInv, OneTurn, QuietInbox
  <2>2. QuietInbox'
    BY <1>1, <1>5, <1>9 DEF TurnInv, OneTurn, InboxOne, QuietInbox
  <2>3. HandlersOne'
    BY <1>3, <2>1 DEF HandlersOne, QuietHandlers
  <2> QED BY <1>6, <1>7, <1>8, <2>1, <2>2, <2>3 DEF TurnInv, OneTurn
<1>10. CASE ~Turn(m)
  <2>1. ~Acting(n)
    BY <1>4, <1>10 DEF Acting
  <2>2. HandlersOne' /\ (QuietHandlers => QuietHandlers')
    BY <1>3, <2>1 DEF TurnInv, OneTurn, HandlersOne, QuietHandlers, Acting
  <2> QED BY <1>6, <1>7, <1>8, <2>2 DEF TurnInv, OneTurn
<1> QED BY <1>9, <1>10

LEMMA HandlerTurn ==
  ASSUME Typed, TurnInv, NEW h \in handlers, HandlerStep(h) PROVE TurnInv'
<1> USE DEF Typed
<1>1. /\ h \in Handlers /\ h.msg \in Messages /\ Shaped(h) /\ Traced(h.msg)
      /\ inbox \in Seq(Messages)
  BY DEF DaemonTyped, Handlers, Shaped
<1>2. \A pc : /\ [h EXCEPT !.pc = pc].msg = h.msg
              /\ [h EXCEPT !.pc = pc].pc = pc
  BY <1>1 DEF Handlers
<1>3. \A pc : pc \notin {"stored", "opening", "resuming"} /\ GoesOn(h, pc) =>
        \A g \in handlers' : g \in handlers \ {h} \/ ~Acting(g)
  BY <1>2 DEF GoesOn, Acting
<1>4. Ends(h) => \A g \in handlers' : g \in handlers \ {h}
  BY DEF Ends
<1>5. ASSUME JudgeExit(h) PROVE TurnInv'
  <2>1. h.msg.session \in SessionIds /\ h.pc = "stored" /\ UNCHANGED sessions
    BY <1>1, <1>5, MessageFields DEF JudgeExit, outside
  <2>2. Acting(h)
    BY <1>5, <2>1 DEF JudgeExit, Acting, Turn
  <2>3. CASE GoesOn(h, "judged") /\ Publish(<<Continuation(h, h.msg.session)>>)
    <3> DEFINE m == Continuation(h, h.msg.session)
    <3>1. m \in Messages /\ m.session = h.msg.session
      BY <1>1, <2>1, PublishedMessages
    <3> HIDE DEF m
    <3>2. /\ inbox' \in Seq(Messages) /\ Len(inbox') = Len(inbox) + 1
          /\ \A i \in 1..Len(inbox) : inbox'[i] = inbox[i]
          /\ inbox'[Len(inbox) + 1] = m
      BY <2>3, <3>1, PublishedOne DEF m
    <3>3. QuietInbox
      BY <2>2, TheOnlyTurn
    <3>4. InboxOne'
      BY <1>1, <3>2, <3>3 DEF InboxOne, QuietInbox
    <3>5. \A i \in 1..Len(inbox') : Turn(inbox'[i]) =>
            \/ i \in 1..Len(inbox) /\ inbox'[i] = inbox[i]
            \/ inbox'[i].session = h.msg.session
      BY <1>1, <3>1, <3>2
    <3> QED BY <1>3, <2>1, <2>2, <2>3, <3>2, <3>4, <3>5, TurnToInbox
  <2>4. CASE GoesOn(h, "opening") /\ UNCHANGED inbox
    <3> DEFINE n == [h EXCEPT !.pc = "opening"]
    <3>1. n.msg = h.msg /\ n.pc = "opening" /\ handlers' = (handlers \ {h}) \union {n}
      BY <1>2, <2>4 DEF GoesOn
    <3> HIDE DEF n
    <3>2. /\ Idle /\ QuietInbox /\ \A g \in handlers \ {h} : ~Acting(g)
          /\ sessions[h.msg.session] # "unborn"
      BY <2>2, TheOnlyTurn
    <3>3. HandlersOne'
      BY <3>1, <3>2 DEF HandlersOne, Acting
    <3>4. RunningOne' /\ Idle' /\ QuietInbox' /\ InboxOne'
      BY <2>1, <2>4, <3>2 DEF RunningOne, Idle, QuietInbox, InboxOne
    <3>5. StartedOnly'
      BY <2>1, <2>4, <3>1, <3>2 DEF StartedOnly, QuietInbox, Acting
    <3> QED BY <3>3, <3>4, <3>5 DEF TurnInv, OneTurn
  <2> QED BY <1>5, <2>3, <2>4 DEF JudgeExit
<1>6. ASSUME OpenPrAnswered(h) PROVE TurnInv'
  <2> DEFINE again == Continuation(h, h.msg.session)
             opened(p) == OfPr("pr.opened", h.msg.trace, p, "lifecycle")
  <2>1. /\ h.msg.session \in SessionIds /\ h.msg.trace = h.msg.session
        /\ h.pc = "opening" /\ UNCHANGED sessions /\ GoesOn(h, "judged")
    BY <1>1, <1>6, MessageFields DEF OpenPrAnswered, Shaped, Traced
  <2>2. Acting(h)
    BY <1>1, <2>1 DEF Acting, Turn, Shaped
  <2>3. again \in Messages /\ again.session = h.msg.session
    BY <1>1, <2>1, PublishedMessages
  <2>4. \A p \in PrRefs : opened(p) \in Messages /\ ~Turn(opened(p))
    BY <2>1, PublishedMessages DEF Turn
  <2>5. QuietInbox
    BY <2>2, TheOnlyTurn
  <2>6. /\ inbox' \in Seq(Messages) /\ InboxOne'
        /\ \A i \in 1..Len(inbox') : Turn(inbox'[i]) =>
             \/ i \in 1..Len(inbox) /\ inbox'[i] = inbox[i]
             \/ inbox'[i].session = h.msg.session
    <3> HIDE DEF again, opened
    <3>1. CASE UNCHANGED inbox
      BY <1>1, <2>5, <3>1 DEF InboxOne, QuietInbox
    <3>2. ASSUME NEW m \in Messages, Publish(<<m>>),
                 ~Turn(m) \/ m.session = h.msg.session
          PROVE  <2>6!:
      <4>1. /\ inbox' \in Seq(Messages) /\ Len(inbox') = Len(inbox) + 1
            /\ \A i \in 1..Len(inbox) : inbox'[i] = inbox[i]
            /\ inbox'[Len(inbox) + 1] = m
        BY <3>2, PublishedOne
      <4>2. InboxOne'
        BY <1>1, <2>5, <4>1 DEF InboxOne, QuietInbox
      <4> QED BY <1>1, <3>2, <4>1, <4>2
    <3>3. ASSUME NEW m \in Messages, NEW n \in Messages, Publish(<<m, n>>),
                 \/ ~Turn(m) /\ n.session = h.msg.session
                 \/ ~Turn(n) /\ m.session = h.msg.session
          PROVE  <2>6!:
      <4>1. /\ inbox' \in Seq(Messages) /\ Len(inbox') = Len(inbox) + 2
            /\ \A i \in 1..Len(inbox) : inbox'[i] = inbox[i]
            /\ inbox'[Len(inbox) + 1] = m
            /\ inbox'[Len(inbox) + 2] = n
        BY PublishedTwo, <3>3
      <4>2. \A i \in 1..Len(inbox') : \/ i \in 1..Len(inbox)
                                      \/ i = Len(inbox) + 1
                                      \/ i = Len(inbox) + 2
        BY <1>1, <4>1
      <4>3. \A i \in 1..Len(inbox) : ~Turn(inbox'[i])
        BY <2>5, <4>1 DEF QuietInbox
      <4>4. InboxOne'
        BY <3>3, <4>1, <4>2, <4>3 DEF InboxOne
      <4> QED BY <3>3, <4>1, <4>2, <4>3, <4>4
    <3>4. \/ \E p \in PrRefs : Publish(<<opened(p)>>)
          \/ Publish(<<again>>)
          \/ UNCHANGED inbox
          \/ \E p \in PrRefs : Publish(<<opened(p), again>>)
          \/ \E p \in PrRefs : Publish(<<again, opened(p)>>)
      BY <1>6 DEF OpenPrAnswered, again, opened
    <3> QED BY <2>3, <2>4, <3>1, <3>2, <3>3, <3>4
  <2> QED BY <1>3, <2>1, <2>2, <2>6, TurnToInbox
<1>7. ASSUME AskAfterFeedback(h) PROVE TurnInv'
  <2>1. /\ Continuation(h, NoSession) \in Messages
        /\ ~Turn(Continuation(h, NoSession))
    BY <1>1, PublishedMessages, NoSessionAssumption DEF Turn
  <2> QED BY <1>4, <1>7, <2>1, QuietStep DEF AskAfterFeedback, outside
<1>8. ASSUME GoOn(h) PROVE TurnInv'
  <2> DEFINE n == [h EXCEPT !.pc = "resuming"]
  <2>1. n.msg = h.msg /\ n.pc = "resuming" /\ handlers' = (handlers \ {h}) \union {n}
    BY <1>2, <1>8 DEF GoOn, GoesOn
  <2>2. h.pc = "stored" /\ UNCHANGED <<inbox, sessions>>
    BY <1>8 DEF GoOn, outside
  <2> HIDE DEF n
  <2>3. Acting(n) <=> Acting(h)
    BY <2>1, <2>2 DEF Acting
  <2>4. CASE Acting(h)
    <3>1. /\ Idle /\ QuietInbox /\ \A g \in handlers \ {h} : ~Acting(g)
          /\ sessions[h.msg.session] # "unborn"
      BY <2>4, TheOnlyTurn
    <3>2. HandlersOne'
      BY <2>1, <3>1 DEF HandlersOne, Acting
    <3>3. RunningOne' /\ Idle' /\ QuietInbox' /\ InboxOne'
      BY <2>2, <3>1 DEF RunningOne, Idle, QuietInbox, InboxOne
    <3>4. StartedOnly'
      BY <2>1, <2>2, <3>1 DEF StartedOnly, QuietInbox, Acting
    <3> QED BY <3>2, <3>3, <3>4 DEF TurnInv, OneTurn
  <2>5. CASE ~Acting(h)
    BY <2>1, <2>2, <2>3, <2>5, QuietStep
  <2> QED BY <2>4, <2>5
<1>9. ASSUME GiveUp(h) PROVE TurnInv'
  <2>1. /\ Plain("task.failed", h.msg.trace) \in Messages
        /\ ~Turn(Plain("task.failed", h.msg.trace))
    BY <1>1, MessageFields, PublishedMessages DEF Turn
  <2> QED BY <1>4, <1>9, <2>1, QuietStep DEF GiveUp, outside
<1>10. ASSUME Resume(h) PROVE TurnInv'
  <2>1. PICK s \in SessionIds :
          Launched(s) /\ Publish(<<OfSession("picker.spawned", s, s)>>)
    BY <1>10 DEF Resume
  <2> DEFINE m == OfSession("picker.spawned", s, s)
  <2>2. m \in Messages /\ ~Turn(m)
    BY PublishedMessages DEF Turn
  <2> HIDE DEF m
  <2>3. /\ inbox' \in Seq(Messages) /\ Len(inbox') = Len(inbox) + 1
        /\ \A i \in 1..Len(inbox) : inbox'[i] = inbox[i]
        /\ inbox'[Len(inbox) + 1] = m
    BY <2>1, <2>2, PublishedOne DEF m
  <2>4. Acting(h)
    <3>1. h.msg.type = "picker.continuation-needed" /\ h.pc = "resuming"
      BY <1>1, <1>10 DEF Resume, Shaped
    <3>2. h.msg.session \in SessionIds
      BY <1>1, <1>10, <3>1, MessageFields DEF Resume, ResumeAccepts
    <3> QED BY <3>1, <3>2 DEF Acting, Turn
  <2>5. Idle /\ QuietInbox /\ \A g \in handlers \ {h} : ~Acting(g)
    BY <2>4, TheOnlyTurn
  <2>6. QuietHandlers' /\ HandlersOne'
    BY <1>4, <1>10, <2>5 DEF Resume, QuietHandlers, HandlersOne, Acting
  <2>7. QuietInbox'
    BY <1>1, <2>2, <2>3, <2>5 DEF QuietInbox
  <2>8. InboxOne' /\ StartedOnly'
    BY <2>6, <2>7 DEF InboxOne, StartedOnly, QuietInbox, QuietHandlers
  <2>9. RunningOne'
    BY <2>1, <2>5 DEF RunningOne, Idle, Launched, OutsideTyped
  <2> QED BY <2>6, <2>7, <2>8, <2>9 DEF TurnInv, OneTurn
<1>11. ASSUME ResumeFails(h) PROVE TurnInv'
  BY <1>4, <1>11, QuietStep DEF ResumeFails, outside
<1>12. ASSUME ReadNode(h) PROVE TurnInv'
  <2> DEFINE n == [h EXCEPT !.pc = "read", !.read = node.status]
  <2>1. n.pc = "read"
    BY <1>1 DEF Handlers
  <2>2. UNCHANGED <<inbox, sessions>>
    BY <1>12 DEF ReadNode, outside
  <2>3. handlers' = (handlers \ {h}) \union {n} \/ Ends(h)
    BY <1>12 DEF ReadNode
  <2> HIDE DEF n
  <2> QED BY <1>4, <2>1, <2>2, <2>3, QuietStep DEF Acting
<1>13. ASSUME TruncateNode(h) PROVE TurnInv'
  BY <1>3, <1>13, QuietStep DEF TruncateNode, outside
<1>14. ASSUME WriteNode(h) PROVE TurnInv'
  BY <1>4, <1>14, QuietStep DEF WriteNode, outside
<1> QED
  BY <1>5, <1>6, <1>7, <1>8, <1>9, <1>10, <1>11, <1>12, <1>13, <1>14 DEF HandlerStep

\* A Picker that starts first, or ends, hands the turn on.
LEMMA DispatchTurn ==
  ASSUME Typed, TurnInv, NEW s \in SessionIds, Dispatch(s) PROVE TurnInv'
<1> DEFINE m == OfSession("picker.spawned", s, s)
<1>1. m \in Messages /\ ~Turn(m)
  BY PublishedMessages DEF Turn
<1>2. Publish(<<m>>) /\ UNCHANGED handlers /\ Launched(s)
  BY DEF Dispatch, Tell
<1> HIDE DEF m
<1>3. /\ inbox' \in Seq(Messages) /\ Len(inbox') = Len(inbox) + 1
      /\ \A i \in 1..Len(inbox) : inbox'[i] = inbox[i]
      /\ inbox'[Len(inbox) + 1] = m
  BY <1>1, <1>2, PublishedOne DEF Typed
<1>4. inbox \in Seq(Messages)
  BY DEF Typed, DaemonTyped
<1>5. QuietInbox /\ QuietHandlers
  BY DEF Dispatch, TurnInv, StartedOnly, QuietInbox, QuietHandlers, Turn, Acting
<1>6. QuietInbox' /\ InboxOne'
  BY <1>1, <1>3, <1>4, <1>5 DEF QuietInbox, InboxOne
<1>7. QuietHandlers' /\ HandlersOne'
  BY <1>2, <1>5 DEF QuietHandlers, HandlersOne, Acting
<1>8. RunningOne'
  BY <1>2 DEF RunningOne, Launched, Dispatch, Typed, OutsideTyped
<1> QED BY <1>6, <1>7, <1>8
        DEF TurnInv, OneTurn, StartedOnly, QuietInbox, QuietHandlers

LEMMA ExitTurn ==
  ASSUME Typed, TurnInv, NEW s \in SessionIds, NEW success \in BOOLEAN,
         PickerExits(s, success)
  PROVE  TurnInv'
<1> DEFINE m == Exited(s, success)
<1>1. m \in Messages /\ m.session = s
  BY PublishedMessages
<1>2. Publish(<<m>>) /\ UNCHANGED handlers
  BY DEF PickerExits, Tell
<1> HIDE DEF m
<1>3. /\ inbox' \in Seq(Messages) /\ Len(inbox') = Len(inbox) + 1
      /\ \A i \in 1..Len(inbox) : inbox'[i] = inbox[i]
      /\ inbox'[Len(inbox) + 1] = m
  BY <1>1, <1>2, PublishedOne DEF Typed
<1>4. inbox \in Seq(Messages)
  BY DEF Typed, DaemonTyped
<1>5. /\ sessions[s] = "running" /\ sessions' = [sessions EXCEPT ![s] = "exited"]
      /\ sessions \in [SessionIds -> {"unborn", "running", "exited", "killed"}]
  BY DEF PickerExits, Typed, OutsideTyped
<1>6. QuietInbox /\ QuietHandlers /\ RunningOne
  BY <1>5 DEF TurnInv, OneTurn, Idle
<1>7. QuietHandlers' /\ HandlersOne'
  BY <1>2, <1>6 DEF QuietHandlers, HandlersOne, Acting
<1>8. RunningOne' /\ Idle'
  BY <1>5, <1>6 DEF RunningOne, Idle
<1>9. InboxOne'
  BY <1>3, <1>4, <1>6 DEF QuietInbox, InboxOne
<1>10. StartedOnly'
  <2>1. sessions'[s] # "unborn"
    BY <1>5
  <2>2. \A i \in 1..Len(inbox') : Turn(inbox'[i]) => inbox'[i].session = s
    BY <1>1, <1>3, <1>4, <1>6 DEF QuietInbox
  <2> QED BY <1>7, <2>1, <2>2 DEF StartedOnly, QuietHandlers
<1> QED BY <1>7, <1>8, <1>9, <1>10 DEF TurnInv, OneTurn

LEMMA TurnInitially == ASSUME LifecycleInit PROVE TurnInv
BY DEF LifecycleInit, TurnInv, OneTurn, StartedOnly, RunningOne, InboxOne,
   HandlersOne,
       Idle, QuietInbox, QuietHandlers

LEMMA TurnInductive ==
  ASSUME OperatorSessions = {}, Typed, TurnInv, [LifecycleNext]_lifecycleVars
  PROVE  TurnInv'
<1> USE DEF Typed
<1>1. sessions \in [SessionIds -> {"unborn", "running", "exited", "killed"}]
  BY DEF OutsideTyped
<1>2. CASE Crash
  <2>1. inbox' = <<>> /\ handlers' = {} /\ UNCHANGED sessions
    BY <1>2 DEF Crash
  <2>2. QuietInbox' /\ QuietHandlers' /\ InboxOne' /\ HandlersOne'
    BY <2>1 DEF QuietInbox, QuietHandlers, InboxOne, HandlersOne
  <2>3. RunningOne'
    BY <2>1 DEF RunningOne, TurnInv, OneTurn
  <2> QED BY <2>2, <2>3 DEF TurnInv, OneTurn, StartedOnly, QuietInbox, QuietHandlers
<1>3. ASSUME NEW s \in SessionIds, PickerKilledBySignal(s) PROVE TurnInv'
  BY <1>1, <1>3, QuietStep DEF PickerKilledBySignal
<1>4. ASSUME NEW s \in SessionIds, HandsOff(s) PROVE TurnInv'
  <2>1. UNCHANGED <<sessions, handlers>>
    BY <1>4 DEF HandsOff, Tell
  <2>2. \A p \in PrRefs : /\ OfPr("pr.opened", s, p, "session") \in Messages
                          /\ ~Turn(OfPr("pr.opened", s, p, "session"))
    BY PublishedMessages DEF Turn
  <2>3. UNCHANGED inbox \/ \E p \in PrRefs : Publish(<<OfPr("pr.opened", s, p, "session")>>)
    BY <1>4 DEF HandsOff, Tell
  <2> QED BY <2>1, <2>2, <2>3, QuietStep
<1>5. ASSUME NEW s \in SessionIds, FullStop(s) PROVE TurnInv'
  <2>1. Plain("task.abandoned", s) \in Messages /\ ~Turn(Plain("task.abandoned", s))
    BY PublishedMessages DEF Turn
  <2> QED BY <1>1, <1>5, <2>1, QuietStep DEF FullStop, Tell
<1>6. ASSUME NEW p \in PrRefs, NEW trace \in PollTraces,
             Reviewed(p, trace) \/ Merged(p, trace)
      PROVE  TurnInv'
  <2>1. \A type \in {"pr.review-received", "pr.merged"} :
          /\ OfPr(type, trace, p, "poller") \in Messages
          /\ ~Turn(OfPr(type, trace, p, "poller"))
    BY PublishedMessages DEF Turn
  <2>2. UNCHANGED <<sessions, handlers>>
    BY <1>6 DEF Reviewed, Merged, Tell
  <2>3. \E type \in {"pr.review-received", "pr.merged"} :
          Publish(<<OfPr(type, trace, p, "poller")>>)
    BY <1>6 DEF Reviewed, Merged, Tell
  <2> QED BY <2>1, <2>2, <2>3, QuietStep
<1>7. CASE UNCHANGED lifecycleVars
  BY <1>7, QuietStep DEF lifecycleVars
<1>8. \A s \in SessionIds : ~OperatorResumes(s)
  BY DEF OperatorResumes
<1>9. CASE DaemonStep
  BY <1>9, StoreTurn, HandlerTurn DEF DaemonStep
<1> QED
  BY <1>2, <1>3, <1>4, <1>5, <1>6, <1>7, <1>8, <1>9, DispatchTurn, ExitTurn
     DEF LifecycleNext

LEMMA TurnInvariant == OperatorSessions = {} /\ LifecycleSpec => [](Typed /\ TurnInv)
<1>1. LifecycleInit => Typed /\ TurnInv
  BY TurnInitially, TypedInitially
<1>2. CASE OperatorSessions = {}
  <2>1. Typed /\ TurnInv /\ [LifecycleNext]_lifecycleVars => (Typed /\ TurnInv)'
    BY <1>2, TurnInductive, TypedInductive
  <2> QED BY <1>1, <2>1, PTL DEF LifecycleSpec
<1> QED BY <1>2

\* Without an operator no two Pickers work in one worktree, for any number of
\* Pickers, worker threads and deaths, and whatever fails.
THEOREM OnePickerHolds ==
  OperatorSessions = {} /\ LifecycleSpec => []OnePickerPerWorktree
<1>1. TurnInv => OnePickerPerWorktree
  <2> SUFFICES ASSUME TurnInv PROVE OnePickerPerWorktree
    OBVIOUS
  <2>1. \A s, t \in Running : s = t
    BY DEF TurnInv, OneTurn, RunningOne, Running
  <2>2. CASE Running = {}
    BY <2>2, FS_EmptySet DEF OnePickerPerWorktree
  <2>3. CASE Running # {}
    <3>1. PICK s \in Running : Running = {s}
      BY <2>1, <2>3
    <3>2. Cardinality(Running) = 1
      BY <3>1, FS_Singleton
    <3> QED BY <3>2 DEF OnePickerPerWorktree
  <2> QED BY <2>2, <2>3
<1> QED BY <1>1, TurnInvariant, PTL

-----------------------------------------------------------------------------
(* The failure at the cap.                                                 *)

Counted == TotalContinuations(agg[task]) <= Cardinality(StoredContinuations)

Failing ==
  \/ agg[task].status = "Failed"
  \/ \E i \in 1..Len(inbox) : inbox[i].type = "task.failed"
  \/ \E h \in handlers : h.msg.type = "task.failed"

FailedInv ==
  Counted /\ (Failing => Cardinality(StoredContinuations) >= CONTINUATION_CAP)

\* What an event does to the counters, the PR and the end of a task.
LEMMA ApplyCounts ==
  ASSUME NEW a \in Aggregates, NEW ev \in Events, a.initialized
  PROVE  /\ TotalContinuations(Apply(a, ev)) <=
              TotalContinuations(a) + IF ev.type = "ContinuationRequested" THEN 1 ELSE 0
         /\ Apply(a, ev).status = "Failed" => a.status = "Failed" \/ ev.type = "Failed"
         /\ IsTerminal(Apply(a, ev).status) =>
              IsTerminal(a.status) \/ ev.type \in {"Failed", "Abandoned", "PrMerged"}
         /\ ~HasPr(a) /\ ev.type \notin {"PrOpened", "PrMerged"} => ~HasPr(Apply(a, ev))
         /\ Apply(a, ev).prePr >= a.prePr
         /\ ~IsTerminal(a.status) /\ ev.type = "ContinuationRequested" =>
              (ev.phase = "PrePr" => Apply(a, ev).prePr = a.prePr + 1)
<1> DEFINE b == Apply(a, ev)
           f == ApplyFields(a, ev)
           r == RecordMetadata(a, ev)
<1>1. a.prePr \in Nat /\ a.postPr \in Nat
  BY DEF Aggregates
<1>2. CASE IsTerminal(a.status)
  <2>1. /\ b.status = a.status /\ b.prePr = a.prePr /\ b.postPr = a.postPr
    BY <1>2, ApplyTerminal
  <2>2. ev.type # "PrOpened" => b.pr = a.pr
    <3>1. b = [r EXCEPT !.version = a.version + 1]
      BY <1>2 DEF Apply
    <3>2. r \in Aggregates
      BY RecordMetadataType
    <3>3. ev.type # "PrOpened" => r.pr = a.pr
      <4>1. CASE ev.type = "PickerAssigned"
        BY <4>1 DEF RecordMetadata, Aggregates
      <4>2. CASE ev.type \notin {"PickerAssigned", "PrOpened"}
        BY <4>2 DEF RecordMetadata
      <4> QED BY <4>1, <4>2
    <3> HIDE DEF b, r
    <3> QED BY <3>1, <3>2, <3>3 DEF Aggregates
  <2> HIDE DEF b
  <2>3. b.prePr >= a.prePr /\ TotalContinuations(b) = TotalContinuations(a)
    BY <1>1, <2>1 DEF TotalContinuations
  <2>4. TotalContinuations(a) \in Nat
    BY <1>1 DEF TotalContinuations
  <2>5. ~HasPr(a) /\ ev.type \notin {"PrOpened", "PrMerged"} => ~HasPr(b)
    BY <2>2 DEF HasPr
  <2> QED BY <1>2, <2>1, <2>3, <2>4, <2>5 DEF b
<1>3. CASE ~IsTerminal(a.status)
  <2>1. /\ b.status = ComputeTransition(a.status, ev.type)
        /\ b.pr = f.pr /\ b.prePr = f.prePr /\ b.postPr = f.postPr
    BY <1>3, ApplyLive
  <2>2. /\ f.prePr \in Nat /\ f.postPr \in Nat /\ f.prePr >= a.prePr
        /\ f.prePr + f.postPr <=
             a.prePr + a.postPr + IF ev.type = "ContinuationRequested" THEN 1 ELSE 0
        /\ ev.type = "ContinuationRequested" =>
             (ev.phase = "PrePr" => f.prePr = a.prePr + 1)
        /\ ev.type \notin {"PrOpened", "PrMerged"} /\ ~HasPr(a) => f.pr = a.pr
    <3> USE DEF Aggregates
    <3>1. CASE ev.type \in {"PickerAssigned", "ContinuationDispatched"}
      BY <1>1, <3>1 DEF ApplyFields
    <3>2. CASE ev.type \in {"PickerSucceeded", "PickerFailed"}
      BY <1>1, <3>2 DEF ApplyFields, ClearSession
    <3>3. CASE ev.type = "ContinuationRequested"
      BY <1>1, <3>3 DEF ApplyFields, CountContinuation
    <3>4. CASE ev.type = "PrOpened"
      <4> DEFINE z == 0
                 no == FALSE
      <4>1. f = [a EXCEPT !.postPr = z, !.pr = ev.pr, !.prMerged = no]
        BY <3>4 DEF ApplyFields
      <4> HIDE DEF f, z, no
      <4>2. f.prePr = a.prePr /\ f.postPr = z
        BY <4>1
      <4> QED BY <1>1, <3>4, <4>2 DEF z
    <3>5. CASE ev.type \in {"ReviewReceived", "CiStatusChanged"}
      BY <1>1, <3>5 DEF ApplyFields
    <3>6. CASE ev.type = "PrMerged"
      <4> DEFINE o == "merged"
                 yes == TRUE
      <4>1. f = [a EXCEPT !.outcome = o, !.pr = ev.pr, !.prMerged = yes]
        BY <3>6 DEF ApplyFields
      <4> HIDE DEF f, o, yes
      <4>2. f.prePr = a.prePr /\ f.postPr = a.postPr
        BY <4>1
      <4> QED BY <1>1, <3>6, <4>2
    <3>7. CASE ev.type \in PlainEvents
      BY <1>1, <3>7 DEF ApplyFields, PlainEvents
    <3> QED
      BY <3>1, <3>2, <3>3, <3>4, <3>5, <3>6, <3>7
      DEF Events, SessionEvents, PrEvents
  <2>3. a.status \in LiveStatuses
    BY <1>3 DEF Aggregates, Statuses, IsTerminal
  <2>4. b.status = "Failed" => ev.type = "Failed"
    BY <2>1, <2>3 DEF ComputeTransition, LiveStatuses
  <2>5. IsTerminal(b.status) => ev.type \in {"Failed", "Abandoned", "PrMerged"}
    BY <2>1, <2>3 DEF ComputeTransition, LiveStatuses, IsTerminal, TerminalStatuses
  <2> HIDE DEF b, f
  <2>6. ~HasPr(a) /\ ev.type \notin {"PrOpened", "PrMerged"} => ~HasPr(b)
    BY <2>1, <2>2 DEF HasPr
  <2>7. TotalContinuations(b) <=
          TotalContinuations(a) + IF ev.type = "ContinuationRequested" THEN 1 ELSE 0
    BY <2>1, <2>2 DEF TotalContinuations
  <2> QED BY <2>1, <2>2, <2>4, <2>5, <2>6, <2>7 DEF b
<1> QED BY <1>2, <1>3

\* Why a handler publishes a message.
Caused(h, m) ==
  \/ /\ m.type = "picker.continuation-needed"
     /\ \/ h.msg.type = "picker.exited" /\ m.session = h.msg.session
        \/ h.msg.type = "pr.review-received"
  \/ m.type = "task.failed" /\ ~CanContinue(agg[task])
  \/ m.type = "pr.opened" /\ \E p \in PrRefs : prs'[p] # "unborn"
  \/ m.type = "picker.spawned"

\* A handler appends nothing to the store and keeps its message.
LEMMA HandlerPublishes ==
  ASSUME Typed, NEW h \in handlers, HandlerStep(h)
  PROVE  /\ UNCHANGED store
         /\ \A g \in handlers' : \E k \in handlers : g.msg = k.msg
         /\ \/ UNCHANGED inbox
            \/ \E m \in Messages : Publish(<<m>>) /\ Caused(h, m)
            \/ \E m, n \in Messages : Publish(<<m, n>>) /\ Caused(h, m) /\ Caused(h, n)
<1> USE DEF Typed
<1>1. /\ h \in Handlers /\ h.msg \in Messages /\ Shaped(h)
      /\ h.msg.trace \in SessionIds \union PollTraces
  BY MessageFields DEF DaemonTyped, Handlers
<1>2. UNCHANGED store
  BY DEF HandlerStep, JudgeExit, OpenPrAnswered, AskAfterFeedback, GoOn, GiveUp,
     Resume,
         ResumeFails, ReadNode, TruncateNode, WriteNode, store
<1>3. \A g \in handlers' : \E k \in handlers : g.msg = k.msg
  <2>1. \A pc : [h EXCEPT !.pc = pc].msg = h.msg
    BY <1>1 DEF Handlers
  <2>2. \/ handlers' = handlers \ {h}
        \/ \E pc : handlers' = (handlers \ {h}) \union {[h EXCEPT !.pc = pc]}
        \/ handlers' = (handlers \ {h}) \union
                         {[h EXCEPT !.pc = "read", !.read = node.status]}
    BY DEF HandlerStep, JudgeExit, OpenPrAnswered, AskAfterFeedback, GoOn, GiveUp,
       Resume,
           ResumeFails, ReadNode, TruncateNode, WriteNode, GoesOn, Ends
  <2>3. ASSUME NEW pc, handlers' = (handlers \ {h}) \union {[h EXCEPT !.pc = pc]}
        PROVE  \A g \in handlers' : \E k \in handlers : g.msg = k.msg
    BY <2>1, <2>3
  <2>4. CASE handlers' = (handlers \ {h}) \union
                           {[h EXCEPT !.pc = "read", !.read = node.status]}
    <3> DEFINE n == [h EXCEPT !.pc = "read", !.read = node.status]
    <3>1. n.msg = h.msg /\ handlers' = (handlers \ {h}) \union {n}
      BY <1>1, <2>4 DEF Handlers
    <3> HIDE DEF n
    <3> QED BY <3>1
  <2> QED BY <2>2, <2>3, <2>4
<1>4. ASSUME JudgeExit(h) \/ OpenPrAnswered(h)
      PROVE  /\ Continuation(h, h.msg.session) \in Messages
             /\ Caused(h, Continuation(h, h.msg.session))
  <2>1. h.msg.type = "picker.exited"
    BY <1>1, <1>4 DEF JudgeExit, OpenPrAnswered, Shaped
  <2>2. h.msg.session \in SessionIds
    BY <1>1, <2>1, MessageFields
  <2> QED BY <1>1, <2>1, <2>2, PublishedMessages DEF Caused
<1>5. ASSUME OpenPrAnswered(h)
      PROVE  \A p \in PrRefs :
               /\ OfPr("pr.opened", h.msg.trace, p, "lifecycle") \in Messages
               /\ OpensPr(p) => Caused(h, OfPr("pr.opened", h.msg.trace, p, "lifecycle"))
  <2> SUFFICES ASSUME NEW p \in PrRefs
               PROVE  /\ OfPr("pr.opened", h.msg.trace, p, "lifecycle") \in Messages
                      /\ OpensPr(p) =>
                           Caused(h, OfPr("pr.opened", h.msg.trace, p, "lifecycle"))
    OBVIOUS
  <2>1. OpensPr(p) => prs'[p] # "unborn"
    BY DEF OpensPr, OutsideTyped
  <2> QED BY <1>1, <2>1, PublishedMessages DEF Caused
<1>6. CASE JudgeExit(h)
  BY <1>2, <1>3, <1>4, <1>6 DEF JudgeExit
<1>7. CASE OpenPrAnswered(h)
  <2> DEFINE again == Continuation(h, h.msg.session)
             opened(p) == OfPr("pr.opened", h.msg.trace, p, "lifecycle")
  <2>1. again \in Messages /\ Caused(h, again)
    BY <1>4, <1>7
  <2>2. \A p \in PrRefs : opened(p) \in Messages /\ (OpensPr(p) => Caused(h, opened(p)))
    BY <1>5, <1>7
  <2> HIDE DEF again, opened
  <2>3. \/ \E p \in PrRefs : OpensPr(p) /\ Publish(<<opened(p)>>)
        \/ Publish(<<again>>)
        \/ UNCHANGED inbox
        \/ \E p \in PrRefs : OpensPr(p) /\ Publish(<<opened(p), again>>)
        \/ \E p \in PrRefs : OpensPr(p) /\ Publish(<<again, opened(p)>>)
    BY <1>7 DEF OpenPrAnswered, again, opened
  <2> QED BY <1>2, <1>3, <2>1, <2>2, <2>3
<1>8. CASE AskAfterFeedback(h)
  <2>1. /\ Continuation(h, NoSession) \in Messages
        /\ Caused(h, Continuation(h, NoSession))
    BY <1>1, <1>8, PublishedMessages DEF Caused, AskAfterFeedback
  <2> QED BY <1>2, <1>3, <1>8, <2>1 DEF AskAfterFeedback
<1>9. CASE GiveUp(h)
  <2>1. /\ Plain("task.failed", h.msg.trace) \in Messages
        /\ Caused(h, Plain("task.failed", h.msg.trace))
    BY <1>1, <1>9, PublishedMessages DEF Caused, GiveUp
  <2> QED BY <1>2, <1>3, <1>9, <2>1 DEF GiveUp
<1>10. CASE Resume(h)
  <2>1. \A s \in SessionIds : /\ OfSession("picker.spawned", s, s) \in Messages
                              /\ Caused(h, OfSession("picker.spawned", s, s))
    BY PublishedMessages DEF Caused
  <2> QED BY <1>2, <1>3, <1>10, <2>1 DEF Resume
<1>11. CASE GoOn(h) \/ ResumeFails(h) \/ ReadNode(h) \/ TruncateNode(h) \/ WriteNode(h)
  BY <1>2, <1>3, <1>11
  DEF GoOn, ResumeFails, ReadNode, TruncateNode, WriteNode, outside
<1> QED BY <1>6, <1>7, <1>8, <1>9, <1>10, <1>11 DEF HandlerStep

\* What the neighbours tell.
LEMMA NeighboursTell ==
  ASSUME Typed, NEW s \in SessionIds,
         \/ Dispatch(s) \/ OperatorResumes(s) \/ PickerKilledBySignal(s)
         \/ HandsOff(s) \/ FullStop(s)
         \/ \E success \in BOOLEAN : PickerExits(s, success)
  PROVE  /\ UNCHANGED <<agg, spent, handlers>>
         /\ UNCHANGED inbox \/ \E m \in Messages :
              /\ Publish(<<m>>)
              /\ m.type \in {"picker.spawned", "picker.exited", "task.abandoned", "pr.opened"}
              /\ m.type = "pr.opened" => \E p \in PrRefs : prs'[p] # "unborn"
<1>1. UNCHANGED <<agg, spent, handlers>>
  BY DEF Dispatch, OperatorResumes, PickerKilledBySignal, HandsOff, FullStop,
     PickerExits,
         Tell, store
<1>2. CASE Dispatch(s) \/ OperatorResumes(s)
  <2>1. /\ OfSession("picker.spawned", s, s) \in Messages
        /\ OfSession("picker.spawned", s, s).type = "picker.spawned"
    BY PublishedMessages
  <2> QED BY <1>1, <1>2, <2>1 DEF Dispatch, OperatorResumes, Tell
<1>3. CASE PickerKilledBySignal(s)
  BY <1>1, <1>3 DEF PickerKilledBySignal
<1>4. CASE HandsOff(s)
  <2>1. UNCHANGED inbox \/ \E p \in PrRefs :
          OpensPr(p) /\ Publish(<<OfPr("pr.opened", s, p, "session")>>)
    BY <1>4 DEF HandsOff, Tell
  <2>2. \A p \in PrRefs : OpensPr(p) => prs'[p] # "unborn"
    BY DEF OpensPr, Typed, OutsideTyped
  <2>3. \A p \in PrRefs : /\ OfPr("pr.opened", s, p, "session") \in Messages
                          /\ OfPr("pr.opened", s, p, "session").type = "pr.opened"
    BY PublishedMessages
  <2> QED BY <1>1, <2>1, <2>2, <2>3
<1>5. CASE FullStop(s)
  <2>1. /\ Plain("task.abandoned", s) \in Messages
        /\ Plain("task.abandoned", s).type = "task.abandoned"
    BY PublishedMessages
  <2> QED BY <1>1, <1>5, <2>1 DEF FullStop, Tell
<1>6. ASSUME NEW success \in BOOLEAN, PickerExits(s, success)
      PROVE  \E m \in Messages : Publish(<<m>>) /\ m.type = "picker.exited"
  <2>1. Exited(s, success) \in Messages /\ Exited(s, success).type = "picker.exited"
    BY PublishedMessages
  <2> QED BY <1>6, <2>1 DEF PickerExits, Tell
<1> QED BY <1>1, <1>2, <1>3, <1>4, <1>5, <1>6

LEMMA PollsTell ==
  ASSUME Typed, NEW p \in PrRefs, NEW trace \in PollTraces,
         Reviewed(p, trace) \/ Merged(p, trace)
  PROVE  /\ UNCHANGED <<agg, spent, handlers>>
         /\ \E q \in PrRefs : prs[q] # "unborn"
         /\ \E m \in Messages :
              Publish(<<m>>) /\ m.type \in {"pr.review-received", "pr.merged"}
<1>1. \A type \in {"pr.review-received", "pr.merged"} :
        /\ OfPr(type, trace, p, "poller") \in Messages
        /\ OfPr(type, trace, p, "poller").type = type
  BY PublishedMessages
<1>2. UNCHANGED <<agg, spent, handlers>> /\ prs[p] # "unborn"
  BY DEF Reviewed, Merged, Tell, store
<1>3. \E type \in {"pr.review-received", "pr.merged"} :
        Publish(<<OfPr(type, trace, p, "poller")>>)
  BY DEF Reviewed, Merged, Tell
<1> QED BY <1>1, <1>2, <1>3

\* What is stored is never more, nor are the continuations the cap counts.
LEMMA StoredGrow ==
  ASSUME DaemonTyped, spent \subseteq spent', IsFiniteSet(spent')
  PROVE  /\ IsFiniteSet(StoredContinuations) /\ IsFiniteSet(StoredContinuations')
         /\ Cardinality(StoredContinuations) \in Nat
         /\ Cardinality(StoredContinuations') \in Nat
         /\ Cardinality(StoredContinuations) <= Cardinality(StoredContinuations')
<1>1. StoredContinuations \subseteq spent /\ StoredContinuations' \subseteq spent'
  BY DEF StoredContinuations
<1>2. IsFiniteSet(StoredContinuations) /\ IsFiniteSet(StoredContinuations')
  BY <1>1, FS_Subset DEF DaemonTyped
<1>3. StoredContinuations \subseteq StoredContinuations'
  BY DEF StoredContinuations
<1> QED BY <1>2, <1>3, FS_Subset, FS_CardinalityType

\* A task that is out of continuations was asked for as many as the cap.
LEMMA OverTheCap ==
  ASSUME DaemonTyped, Counted, ~CanContinue(agg[task])
  PROVE  Cardinality(StoredContinuations) >= CONTINUATION_CAP
<1>1. agg[task].prePr \in Nat /\ agg[task].postPr \in Nat
  BY TaskAssumption DEF DaemonTyped, StreamTypeOK, Aggregates
<1>2. TotalContinuations(agg[task]) >= CONTINUATION_CAP
  BY <1>1, CapAssumption DEF CanContinue, TotalContinuations
<1>3. Cardinality(StoredContinuations) \in Nat
  <2>1. StoredContinuations \subseteq spent
    BY DEF StoredContinuations
  <2> QED BY <2>1, FS_Subset, FS_CardinalityType DEF DaemonTyped
<1> QED BY <1>1, <1>2, <1>3, CapAssumption DEF Counted, TotalContinuations

\* Nothing but an event of the store and a failure at the cap matters.
LEMMA FailedKept ==
  ASSUME Typed, FailedInv, UNCHANGED store,
         \A g \in handlers' : \E k \in handlers : g.msg = k.msg,
         \/ UNCHANGED inbox \/ inbox' = <<>>
         \/ \E m \in Messages :
              /\ Publish(<<m>>)
              /\ m.type = "task.failed" => ~CanContinue(agg[task])
         \/ \E m, n \in Messages :
              /\ Publish(<<m, n>>)
              /\ m.type = "task.failed" \/ n.type = "task.failed" => ~CanContinue(agg[task])
  PROVE  FailedInv'
<1> USE DEF Typed
<1>1. inbox \in Seq(Messages)
  BY DEF DaemonTyped
<1>2. \A i \in 1..Len(inbox') : inbox'[i].type = "task.failed" =>
        \/ \E j \in 1..Len(inbox) : inbox[j].type = "task.failed"
        \/ ~CanContinue(agg[task])
  <2>1. CASE UNCHANGED inbox \/ inbox' = <<>>
    BY <2>1
  <2>2. ASSUME NEW m \in Messages, Publish(<<m>>),
               m.type = "task.failed" => ~CanContinue(agg[task])
        PROVE  <1>2!:
    BY <1>1, <2>2, PublishedOne
  <2>3. ASSUME NEW m \in Messages, NEW n \in Messages, Publish(<<m, n>>),
               m.type = "task.failed" \/ n.type = "task.failed" => ~CanContinue(agg[task])
        PROVE  <1>2!:
    BY <1>1, <2>3, PublishedTwo
  <2> QED BY <2>1, <2>2, <2>3
<1>3. Failing' => Failing \/ ~CanContinue(agg[task])
  BY <1>2 DEF Failing, store
<1>4. UNCHANGED <<agg, spent>>
  BY DEF store
<1>5. Counted'
  BY <1>4 DEF FailedInv, Counted, StoredContinuations
<1>6. Cardinality(StoredContinuations') = Cardinality(StoredContinuations)
  BY <1>4 DEF StoredContinuations
<1> QED BY <1>3, <1>5, <1>6, OverTheCap DEF FailedInv

LEMMA StoreFailed ==
  ASSUME Typed, FailedInv, NEW i \in Takable, Store(i) PROVE FailedInv'
<1> DEFINE m == inbox[i]
           n == [msg |-> m, pc |-> "stored", read |-> "backlog"]
           a == agg[task]
           ev == DomainEvent(m)
<1> USE DEF Typed
<1>1. inbox \in Seq(Messages) /\ i \in 1..Len(inbox) /\ m \in Messages
  BY WorkersAssumption DEF Takable, DaemonTyped
<1>2. /\ Len(inbox') = Len(inbox) - 1
      /\ \A k \in 1..Len(inbox) - 1 : inbox'[k] = inbox[IF k < i THEN k ELSE k + 1]
  BY <1>1, RemoveAtFacts DEF Store
<1>3. \A k \in 1..Len(inbox') : inbox'[k].type = "task.failed" =>
        \E j \in 1..Len(inbox) : inbox[j].type = "task.failed"
  BY <1>1, <1>2
<1>4. handlers' = handlers \union {n} /\ n.msg = m
  BY DEF Store
<1>6. (\E h \in handlers' : h.msg.type = "task.failed") => Failing
  <2> HIDE DEF n
  <2> QED BY <1>1, <1>4 DEF Failing
<1>7. CASE UNCHANGED store
  <2>1. Failing' => Failing
    BY <1>3, <1>6, <1>7 DEF Failing, store
  <2> QED BY <1>7, <2>1 DEF FailedInv, Counted, StoredContinuations, store
<1>8. CASE AppendEvent(task, ev, Key(m))
  <2>1. /\ a \in Aggregates /\ a.initialized /\ ev \in Events
        /\ task \in Tasks
    BY <1>1, TaskAssumption, DomainEvents DEF DaemonTyped, StreamTypeOK
  <2>2. /\ agg'[task] = Apply(a, ev) /\ spent' = spent \union {Key(m)}
        /\ IsFiniteSet(spent')
    BY <1>1, <1>8, AppendTyped
  <2>3. /\ Cardinality(StoredContinuations) \in Nat
        /\ Cardinality(StoredContinuations') \in Nat
        /\ Cardinality(StoredContinuations) <= Cardinality(StoredContinuations')
        /\ IsFiniteSet(StoredContinuations)
    BY <2>2, StoredGrow
  <2>4. agg'[task].status = "Failed" => Failing
    <3>1. agg'[task].status = "Failed" => a.status = "Failed" \/ ev.type = "Failed"
      BY <2>1, <2>2, ApplyCounts
    <3>2. ev.type = "Failed" => m.type = "task.failed"
      BY <1>1, DomainEvents
    <3> QED BY <1>1, <3>1, <3>2 DEF Failing
  <2>5. Failing' => Failing
    BY <1>3, <1>6, <2>4 DEF Failing
  <2>6. m.type = "picker.continuation-needed" =>
          Cardinality(StoredContinuations') = Cardinality(StoredContinuations) + 1
    <3>1. SUFFICES ASSUME m.type = "picker.continuation-needed"
                   PROVE  Cardinality(StoredContinuations') =
                            Cardinality(StoredContinuations) + 1
      OBVIOUS
    <3>2. Key(m)[1] = "picker.continuation-needed" /\ Key(m) \notin spent
      BY <1>8, <3>1 DEF Key, AppendEvent
    <3>3. StoredContinuations' = StoredContinuations \union {Key(m)}
      BY <2>2, <3>2 DEF StoredContinuations
    <3>4. Key(m) \notin StoredContinuations
      BY <3>2 DEF StoredContinuations
    <3> QED BY <2>3, <3>3, <3>4, FS_AddElement
  <2>7. Counted'
    <3>1. TotalContinuations(Apply(a, ev)) <=
            TotalContinuations(a) + IF ev.type = "ContinuationRequested" THEN 1 ELSE 0
      BY <2>1, ApplyCounts
    <3>2. ev.type = "ContinuationRequested" => m.type = "picker.continuation-needed"
      BY <1>1, DomainEvents
    <3>3. TotalContinuations(a) \in Nat /\ TotalContinuations(Apply(a, ev)) \in Nat
      BY <2>1, ApplyType DEF TotalContinuations, Aggregates
    <3>4. TotalContinuations(a) <= Cardinality(StoredContinuations)
      BY DEF FailedInv, Counted
    <3>5. TotalContinuations(Apply(a, ev)) <= Cardinality(StoredContinuations')
      BY <2>3, <2>6, <3>1, <3>2, <3>3, <3>4
    <3> QED BY <2>2, <3>5 DEF Counted
  <2> QED BY <2>3, <2>5, <2>7, CapAssumption DEF FailedInv
<1> QED BY <1>7, <1>8 DEF Store

LEMMA FailedInitially == ASSUME LifecycleInit PROVE FailedInv
<1>1. agg[task] = Apply(NewAggregate, [type |-> "Requested"])
  BY TaskAssumption DEF LifecycleInit
<1>2. agg[task] = [NewAggregate EXCEPT !.initialized = TRUE, !.status = "Queued", !.version = 1]
  BY <1>1 DEF Apply, NewAggregate
<1>3. /\ agg[task].status = "Queued" /\ agg[task].prePr = 0 /\ agg[task].postPr = 0
  BY <1>2 DEF NewAggregate
<1>4. StoredContinuations = {}
  BY DEF LifecycleInit, StoredContinuations
<1>5. ~Failing
  BY <1>3 DEF LifecycleInit, Failing
<1>6. Counted
  BY <1>3, <1>4, FS_EmptySet DEF Counted, TotalContinuations
<1> QED BY <1>5, <1>6 DEF FailedInv

LEMMA FailedInductive ==
  ASSUME Typed, FailedInv, [LifecycleNext]_lifecycleVars PROVE FailedInv'
<1>1. ASSUME NEW h \in handlers, HandlerStep(h) PROVE FailedInv'
  <2>1. \A m : Caused(h, m) => (m.type = "task.failed" => ~CanContinue(agg[task]))
    BY DEF Caused
  <2> QED BY <1>1, <2>1, HandlerPublishes, FailedKept
<1>2. CASE Crash
  BY <1>2, FailedKept DEF Crash
<1>3. ASSUME NEW s \in SessionIds,
             \/ Dispatch(s) \/ OperatorResumes(s) \/ PickerKilledBySignal(s)
             \/ HandsOff(s) \/ FullStop(s)
             \/ \E success \in BOOLEAN : PickerExits(s, success)
      PROVE  FailedInv'
  BY <1>3, NeighboursTell, FailedKept DEF store
<1>4. ASSUME NEW p \in PrRefs, NEW trace \in PollTraces,
             Reviewed(p, trace) \/ Merged(p, trace)
      PROVE  FailedInv'
  BY <1>4, PollsTell, FailedKept DEF store
<1>5. CASE UNCHANGED lifecycleVars
  BY <1>5, FailedKept DEF lifecycleVars, store
<1> QED BY <1>1, <1>2, <1>3, <1>4, <1>5, StoreFailed DEF LifecycleNext, DaemonStep

LEMMA FailedInvariant == LifecycleSpec => [](Typed /\ FailedInv)
<1>1. LifecycleInit => Typed /\ FailedInv
  BY TypedInitially, FailedInitially
<1>2. Typed /\ FailedInv /\ [LifecycleNext]_lifecycleVars => (Typed /\ FailedInv)'
  BY TypedInductive, FailedInductive
<1> QED BY <1>1, <1>2, PTL DEF LifecycleSpec

\* No task fails that was not asked to continue as often as the cap, operators
\* or not, and however its PRs and deaths of the daemon reset what is counted.
THEOREM FailedAfterCapHolds == LifecycleSpec => []FailedAfterCap
<1>1. FailedInv => FailedAfterCap
  BY DEF FailedInv, Failing, FailedAfterCap
<1> QED BY <1>1, FailedInvariant, PTL

-----------------------------------------------------------------------------
(* The cap before a PR.  Every Picker but the first is the answer to a     *)
(* continuation that was counted when it was stored: the message names the *)
(* Picker that ended, each of which asks once, and a task that is over,    *)
(* which counts no more, has no turn left.                                 *)

Born    == {s \in SessionIds : sessions[s] # "unborn"}
NoPrYet == \A p \in PrRefs : prs[p] = "unborn"

AboutPr(msg) ==
  \/ msg.type \in {"pr.opened", "pr.merged", "pr.review-received"}
  \/ msg.type = "picker.continuation-needed" /\ msg.session = NoSession

Ending(msg) == msg.type \in {"task.failed", "task.abandoned"}

Over ==
  \/ IsTerminal(agg[task].status)
  \/ \E i \in 1..Len(inbox) : Ending(inbox[i])
  \/ \E h \in handlers : Ending(h.msg)

\* The continuation that Picker s may ask for is still to be counted.
Uncounted(s) == <<"picker.continuation-needed", s>> \notin spent

Continuing(h) ==
  h.msg.type = "picker.continuation-needed" /\ h.pc \in {"stored", "resuming"}

NoneAboutPr ==
  /\ ~HasPr(agg[task])
  /\ \A i \in 1..Len(inbox) : ~AboutPr(inbox[i])
  /\ \A h \in handlers : ~AboutPr(h.msg)

AskedOnce ==
  /\ \A s \in SessionIds : sessions[s] \in {"unborn", "running"} => Uncounted(s)
  /\ \A i \in 1..Len(inbox) : Turn(inbox[i]) => Uncounted(inbox[i].session)
  /\ \A h \in handlers :
       Acting(h) /\ h.msg.type = "picker.exited" => Uncounted(h.msg.session)

OverIsQuiet == Over => Idle /\ QuietInbox /\ QuietHandlers /\ Born # {}

PickersCounted ==
  /\ IsFiniteSet(Born)
  /\ Cardinality(Born) <= agg[task].prePr + 1
  /\ Cardinality(Born) <= CONTINUATION_CAP
  /\ \A h \in handlers : Continuing(h) => Cardinality(Born) <= agg[task].prePr
  /\ \A h \in handlers : h.pc = "resuming" => Cardinality(Born) < CONTINUATION_CAP

BeforePr == NoneAboutPr /\ AskedOnce /\ OverIsQuiet /\ PickersCounted

BeforePrInv == NoPrYet => BeforePr

\* A PR that is there stays.
LEMMA PrsStay ==
  ASSUME Typed, [LifecycleNext]_lifecycleVars, NoPrYet'
  PROVE  NoPrYet
<1>1. ASSUME NEW p \in PrRefs, prs[p] # "unborn" PROVE prs'[p] # "unborn"
  <2>1. \A q \in PrRefs : OpensPr(q) => prs'[p] # "unborn"
    BY <1>1 DEF OpensPr, Typed, OutsideTyped
  <2>2. ASSUME NEW q \in PrRefs, NEW trace \in PollTraces,
               Reviewed(q, trace) \/ Merged(q, trace)
        PROVE  prs'[p] # "unborn"
    BY <1>1, <2>2 DEF Reviewed, Merged, Typed, OutsideTyped
  <2>3. ASSUME NEW s \in SessionIds,
               \/ Dispatch(s) \/ OperatorResumes(s) \/ PickerKilledBySignal(s)
               \/ HandsOff(s) \/ FullStop(s)
               \/ \E success \in BOOLEAN : PickerExits(s, success)
        PROVE  prs'[p] # "unborn"
    BY <1>1, <2>1, <2>3
       DEF Dispatch, OperatorResumes, PickerKilledBySignal, HandsOff, FullStop,
          PickerExits
  <2>4. ASSUME NEW h \in handlers, HandlerStep(h) PROVE prs'[p] # "unborn"
    <3>1. prs' = prs \/ \E q \in PrRefs : OpensPr(q)
      BY <2>4
      DEF HandlerStep, JudgeExit, OpenPrAnswered, AskAfterFeedback, GoOn, GiveUp,
                  Resume, ResumeFails, ReadNode, TruncateNode, WriteNode, outside
    <3> QED BY <1>1, <2>1, <3>1
  <2>5. ASSUME NEW i \in Takable, Store(i) PROVE prs' = prs
    BY <2>5 DEF Store, outside
  <2>6. CASE Crash \/ UNCHANGED lifecycleVars
    BY <1>1, <2>6 DEF Crash, lifecycleVars
  <2> QED BY <1>1, <2>2, <2>3, <2>4, <2>5, <2>6 DEF LifecycleNext, DaemonStep
<1> QED BY <1>1 DEF NoPrYet

\* While there is a turn the task is not over; the turn of a Picker is the only
\* reason for a continuation.
LEMMA TurnNotOver ==
  ASSUME BeforePr, ~Idle \/ ~QuietInbox \/ ~QuietHandlers
  PROVE  ~Over
BY DEF BeforePr, OverIsQuiet

LEMMA ContinuingActs ==
  ASSUME Typed, BeforePr, NEW h \in handlers, Continuing(h)
  PROVE  Acting(h)
<1>1. h.msg \in Messages
  BY DEF Typed, DaemonTyped, Handlers
<1>2. h.msg.session \in SessionIds
  BY <1>1, MessageFields DEF BeforePr, NoneAboutPr, AboutPr, Continuing
<1> QED BY <1>2 DEF Continuing, Acting, Turn

\* A step that appends nothing, starts no Picker and publishes nobody's turn.
LEMMA QuietBeforePr ==
  ASSUME Typed, BeforePr, UNCHANGED store,
         \A s \in SessionIds : sessions'[s] = "running" => sessions[s] = "running",
         \A s \in SessionIds : sessions'[s] = "unborn" <=> sessions[s] = "unborn",
         \A g \in handlers' : \E k \in handlers : g.msg = k.msg,
         \A g \in handlers' : g.pc \in {"stored", "opening", "resuming"} => g \in handlers,
         UNCHANGED inbox \/ inbox' = <<>> \/ \E m \in Messages :
           Publish(<<m>>) /\ ~Turn(m) /\ ~AboutPr(m) /\ ~Ending(m)
  PROVE  BeforePr'
<1>1. inbox \in Seq(Messages) /\ UNCHANGED <<agg, spent>>
  BY DEF Typed, DaemonTyped, store
<1>2. \A i \in 1..Len(inbox') :
        \/ i \in 1..Len(inbox) /\ inbox'[i] = inbox[i]
        \/ ~Turn(inbox'[i]) /\ ~AboutPr(inbox'[i]) /\ ~Ending(inbox'[i])
  <2>1. CASE UNCHANGED inbox \/ inbox' = <<>>
    BY <1>1, <2>1
  <2>2. ASSUME NEW m \in Messages, Publish(<<m>>), ~Turn(m), ~AboutPr(m), ~Ending(m)
        PROVE  <1>2!:
    BY <1>1, <2>2, PublishedOne DEF Typed
  <2> QED BY <2>1, <2>2
<1>3. Born' = Born
  BY DEF Born
<1>4. \A g \in handlers' : /\ Acting(g) => g \in handlers
                           /\ Continuing(g) => g \in handlers
  BY DEF Acting, Continuing
<1>5. NoneAboutPr'
  BY <1>1, <1>2 DEF BeforePr, NoneAboutPr, AboutPr
<1>6. AskedOnce'
  BY <1>1, <1>2, <1>4 DEF BeforePr, AskedOnce, Uncounted, Acting, Turn
<1>7. Over' => Over
  BY <1>1, <1>2 DEF Over, Ending
<1>8. /\ Idle => Idle'
      /\ QuietInbox => QuietInbox'
      /\ QuietHandlers => QuietHandlers'
  <2>1. Idle => Idle'
    BY DEF Idle
  <2>2. QuietInbox => QuietInbox'
    BY <1>2 DEF QuietInbox
  <2>3. QuietHandlers => QuietHandlers'
    BY <1>4 DEF QuietHandlers, Acting
  <2> QED BY <2>1, <2>2, <2>3
<1>9. OverIsQuiet'
  BY <1>3, <1>7, <1>8 DEF BeforePr, OverIsQuiet
<1>10. PickersCounted'
  BY <1>1, <1>3, <1>4 DEF BeforePr, PickersCounted, Continuing
<1> QED BY <1>5, <1>6, <1>9, <1>10 DEF BeforePr

\* A message that is handed on: its Picker's continuation is still to be
\* counted and stays so until it is stored.
LEMMA StoreBeforePr ==
  ASSUME Typed, TurnInv, BeforePr, NEW i \in Takable, Store(i) PROVE BeforePr'
<1> DEFINE m == inbox[i]
           n == [msg |-> m, pc |-> "stored", read |-> "backlog"]
           a == agg[task]
           ev == DomainEvent(m)
<1> USE DEF Typed
<1>1. /\ inbox \in Seq(Messages) /\ i \in 1..Len(inbox) /\ m \in Messages /\ Traced(m)
      /\ ~AboutPr(m)
  BY WorkersAssumption DEF Takable, DaemonTyped, BeforePr, NoneAboutPr
<1>2. /\ Len(inbox') = Len(inbox) - 1
      /\ \A k \in 1..Len(inbox) - 1 : inbox'[k] = inbox[IF k < i THEN k ELSE k + 1]
  BY <1>1, RemoveAtFacts DEF Store
<1>3. ASSUME NEW k \in 1..Len(inbox')
      PROVE  \E j \in 1..Len(inbox) : j # i /\ inbox'[k] = inbox[j]
  <2>1. k \in 1..Len(inbox) - 1 /\ k \in Nat /\ i \in Nat
    BY <1>1, <1>2
  <2>2. CASE k < i
    BY <1>1, <1>2, <2>1, <2>2
  <2>3. CASE ~(k < i)
    <3>1. k + 1 \in 1..Len(inbox) /\ k + 1 # i /\ inbox'[k] = inbox[k + 1]
      BY <1>1, <1>2, <2>1, <2>3
    <3> QED BY <3>1
  <2> QED BY <2>2, <2>3
<1>4. handlers' = handlers \union {n} /\ n.msg = m /\ n.pc = "stored"
      /\ UNCHANGED sessions
  BY DEF Store, outside
<1>5. Born' = Born /\ (Idle <=> Idle')
  BY <1>4 DEF Born, Idle
<1>6. /\ a \in Aggregates /\ a.initialized /\ task \in Tasks /\ ~HasPr(a)
      /\ ev \in Events /\ ev.type \notin {"PrOpened", "PrMerged"}
      /\ ev.type = "Failed" => m.type = "task.failed"
      /\ ev.type = "Abandoned" => m.type = "task.abandoned"
      /\ ev.type = "ContinuationRequested" <=> m.type = "picker.continuation-needed"
      /\ m.type = "picker.continuation-needed" => ev.phase = "PrePr"
  BY <1>1, TaskAssumption, DomainEvents
     DEF DaemonTyped, StreamTypeOK, BeforePr, NoneAboutPr, AboutPr,
        ContinuationPhase
<1>7. \/ UNCHANGED <<agg, spent>> /\ Key(m) \in spent
      \/ /\ agg'[task] = Apply(a, ev) /\ spent' = spent \union {Key(m)}
         /\ Key(m) \notin spent
  BY <1>1, AppendTyped DEF Store, AppendEvent, store
<1>8. /\ agg'[task].prePr >= a.prePr /\ ~HasPr(agg'[task])
      /\ a.prePr \in Nat /\ agg'[task].prePr \in Nat
      /\ IsTerminal(agg'[task].status) => IsTerminal(a.status) \/ Ending(m)
  <2>1. a.prePr \in Nat
    BY <1>6 DEF Aggregates
  <2>2. CASE UNCHANGED agg
    BY <1>6, <2>1, <2>2
  <2>3. CASE agg'[task] = Apply(a, ev)
    <3>1. Apply(a, ev).prePr \in Nat
      BY <1>6, ApplyType DEF Aggregates
    <3>2. /\ Apply(a, ev).prePr >= a.prePr
          /\ ~HasPr(Apply(a, ev))
          /\ IsTerminal(Apply(a, ev).status) =>
               IsTerminal(a.status) \/ ev.type \in {"Failed", "Abandoned", "PrMerged"}
      BY <1>6, ApplyCounts
    <3> QED BY <1>6, <2>1, <2>3, <3>1, <3>2 DEF Ending
  <2> QED BY <1>7, <2>2, <2>3
<1> HIDE DEF n, ev
<1>9. NoneAboutPr'
  BY <1>1, <1>3, <1>4, <1>8 DEF BeforePr, NoneAboutPr, AboutPr
<1>10. Over' => Over
  BY <1>1, <1>3, <1>4, <1>8 DEF Over, Ending
<1>11. CASE ~Turn(m)
  <2>1. /\ m.type # "picker.continuation-needed"
        /\ ~Acting(n) /\ ~Continuing(n) /\ n.pc # "resuming"
    <3>1. m.type # "picker.continuation-needed"
      BY <1>1, <1>11, MessageFields DEF AboutPr, Turn
    <3> QED BY <1>4, <1>11, <3>1 DEF Acting, Continuing
  <2>2. \A s : Uncounted(s) => Uncounted(s)'
    BY <1>7, <2>1 DEF Uncounted, Key
  <2>3. AskedOnce'
    BY <1>3, <1>4, <2>1, <2>2 DEF BeforePr, AskedOnce, Acting, Turn
  <2>4. (QuietInbox => QuietInbox') /\ (QuietHandlers => QuietHandlers')
    BY <1>3, <1>4, <2>1 DEF QuietInbox, QuietHandlers, Acting
  <2>5. OverIsQuiet'
    BY <1>5, <1>10, <2>4 DEF BeforePr, OverIsQuiet
  <2>6. PickersCounted'
    <3>1. Cardinality(Born) \in Nat
      BY FS_CardinalityType DEF BeforePr, PickersCounted
    <3> QED BY <1>4, <1>5, <1>8, <2>1, <3>1 DEF BeforePr, PickersCounted, Continuing
  <2> QED BY <1>9, <2>3, <2>5, <2>6 DEF BeforePr
<1>12. CASE Turn(m)
  <2>1. Idle /\ QuietHandlers /\ ~Over
    <3>1. ~QuietInbox
      BY <1>1, <1>12 DEF QuietInbox
    <3> QED BY <3>1, TurnNotOver DEF TurnInv, OneTurn
  <2>2. \A k \in 1..Len(inbox') : ~Turn(inbox'[k])
    BY <1>1, <1>3, <1>12 DEF TurnInv, OneTurn, InboxOne
  <2>3. /\ m.session \in SessionIds /\ sessions[m.session] \notin {"unborn", "running"}
        /\ Uncounted(m.session) /\ m.trace = m.session
    <3>1. m.session \in SessionIds /\ Uncounted(m.session)
      BY <1>1, <1>12 DEF Turn, BeforePr, AskedOnce
    <3>2. sessions[m.session] # "unborn"
      BY <1>1, <1>12 DEF TurnInv, StartedOnly
    <3>3. m.trace = m.session
      BY <1>1, <1>12, <3>1, NoSessionAssumption DEF Traced, Turn
    <3> QED BY <2>1, <3>1, <3>2, <3>3 DEF Idle
  <2>4. \A s : Uncounted(s) /\ s # m.session => Uncounted(s)'
    BY <1>7, <2>3 DEF Uncounted, Key
  <2>5. m.type = "picker.exited" =>
          <<"picker.continuation-needed", m.session>> \notin spent'
    BY <1>7, <2>3 DEF Uncounted, Key
  <2>6. AskedOnce'
    <3>1. \A s \in SessionIds :
            sessions'[s] \in {"unborn", "running"} => s # m.session /\ Uncounted(s)
      BY <1>4, <2>3 DEF BeforePr, AskedOnce
    <3>2. \A h \in handlers' : Acting(h) => h = n
      BY <1>4, <2>1 DEF QuietHandlers
    <3>3. ASSUME NEW h \in handlers', Acting(h), h.msg.type = "picker.exited"
          PROVE  <<"picker.continuation-needed", h.msg.session>> \notin spent'
      BY <1>4, <2>5, <3>2, <3>3
    <3>4. \A s \in SessionIds :
            sessions'[s] \in {"unborn", "running"} => Uncounted(s)'
      BY <2>4, <3>1
    <3> QED BY <2>2, <3>3, <3>4 DEF AskedOnce, Acting, Uncounted
  <2>7. OverIsQuiet'
    BY <1>10, <2>1 DEF OverIsQuiet
  <2>8. m.type = "picker.continuation-needed" => agg'[task].prePr = a.prePr + 1
    <3>1. SUFFICES ASSUME m.type = "picker.continuation-needed"
                   PROVE  agg'[task].prePr = a.prePr + 1
      OBVIOUS
    <3>2. Key(m) \notin spent
      BY <2>3, <3>1 DEF Uncounted, Key
    <3>3. agg'[task] = Apply(a, ev)
      BY <1>7, <3>2
    <3>4. ~IsTerminal(a.status)
      BY <2>1 DEF Over
    <3> QED BY <1>6, <3>1, <3>3, <3>4, ApplyCounts
  <2>9. PickersCounted'
    <3>1. Cardinality(Born) \in Nat
      BY FS_CardinalityType DEF BeforePr, PickersCounted
    <3>2. \A h \in handlers' : Continuing(h) => h = n
      BY <1>4, <2>1, ContinuingActs DEF QuietHandlers
    <3>3. \A h \in handlers' : h.pc = "resuming" => FALSE
      <4>1. ASSUME NEW h \in handlers, h.pc = "resuming" PROVE FALSE
        <5>1. Continuing(h)
          BY <4>1 DEF DaemonTyped, Shaped, Continuing
        <5> QED BY <2>1, <5>1, ContinuingActs DEF QuietHandlers
      <4> QED BY <1>4, <4>1
    <3>4. Continuing(n) => m.type = "picker.continuation-needed"
      BY <1>4 DEF Continuing
    <3>5. PickersCounted
      BY DEF BeforePr
    <3> QED BY <1>5, <1>8, <2>8, <3>1, <3>2, <3>3, <3>4, <3>5
            DEF PickersCounted, Continuing
  <2> QED BY <1>9, <2>6, <2>7, <2>9 DEF BeforePr
<1> QED BY <1>11, <1>12

\* The turn goes on, or back to the inbox, with the Picker it is of.
LEMMA TurnPassesBeforePr ==
  ASSUME Typed, TurnInv, BeforePr, NEW h \in handlers, Acting(h),
         UNCHANGED store, UNCHANGED sessions,
         \A g \in handlers' : \E k \in handlers : g.msg = k.msg,
         \A g \in handlers' : g \in handlers \ {h} \/ ~Acting(g) \/ g.msg = h.msg,
         \A g \in handlers' : Continuing(g) => g \in handlers,
         \A g \in handlers' : g.pc = "resuming" => g \in handlers,
         h.msg.type = "picker.exited",
         UNCHANGED inbox \/ \E m \in Messages :
           /\ Publish(<<m>>) /\ ~AboutPr(m) /\ ~Ending(m)
           /\ m.session = h.msg.session
  PROVE  BeforePr'
<1>1. inbox \in Seq(Messages) /\ UNCHANGED <<agg, spent>>
  BY DEF Typed, DaemonTyped, store
<1>2. /\ Idle /\ QuietInbox /\ ~Over
      /\ \A g \in handlers \ {h} : ~Acting(g)
  BY TheOnlyTurn, TurnNotOver DEF QuietHandlers
<1>3. Uncounted(h.msg.session)
  BY DEF BeforePr, AskedOnce
<1>4. \A i \in 1..Len(inbox') :
        \/ i \in 1..Len(inbox) /\ inbox'[i] = inbox[i]
        \/ /\ ~AboutPr(inbox'[i]) /\ ~Ending(inbox'[i])
           /\ inbox'[i].session = h.msg.session
  <2>1. CASE UNCHANGED inbox
    BY <1>1, <2>1
  <2>2. ASSUME NEW m \in Messages, Publish(<<m>>), ~AboutPr(m), ~Ending(m),
               m.session = h.msg.session
        PROVE  <1>4!:
    BY <1>1, <2>2, PublishedOne DEF Typed
  <2> QED BY <2>1, <2>2
<1>5. NoneAboutPr'
  BY <1>1, <1>4 DEF BeforePr, NoneAboutPr, AboutPr
<1>6. AskedOnce'
  <2>1. \A i \in 1..Len(inbox') : Turn(inbox'[i]) => Uncounted(inbox'[i].session)
    BY <1>2, <1>3, <1>4 DEF QuietInbox
  <2>2. \A g \in handlers' : Acting(g) => Uncounted(g.msg.session)
    BY <1>2, <1>3
  <2> QED BY <1>1, <2>1, <2>2 DEF BeforePr, AskedOnce, Uncounted, Acting
<1>7. ~Over'
  BY <1>1, <1>2, <1>4 DEF Over, Ending
<1>8. PickersCounted'
  BY <1>1 DEF BeforePr, PickersCounted, Continuing, Born
<1> QED BY <1>5, <1>6, <1>7, <1>8 DEF BeforePr, OverIsQuiet

LEMMA HandlerBeforePr ==
  ASSUME Typed, TurnInv, BeforePr, NoPrYet', NEW h \in handlers, HandlerStep(h)
  PROVE  BeforePr'
<1> USE DEF Typed
<1>1. /\ h \in Handlers /\ h.msg \in Messages /\ Shaped(h) /\ ~AboutPr(h.msg)
      /\ inbox \in Seq(Messages)
  BY DEF DaemonTyped, Handlers, BeforePr, NoneAboutPr
<1>2. \A pc : /\ [h EXCEPT !.pc = pc].msg = h.msg
              /\ [h EXCEPT !.pc = pc].pc = pc
  BY <1>1 DEF Handlers
<1>3. /\ UNCHANGED store
      /\ \A g \in handlers' : \E k \in handlers : g.msg = k.msg
  BY HandlerPublishes
<1>4. ASSUME NEW pc \in {"opening", "judged", "truncated"}, GoesOn(h, pc)
      PROVE  /\ \A g \in handlers' : Continuing(g) => g \in handlers
             /\ \A g \in handlers' : g.pc = "resuming" => g \in handlers
             /\ \A g \in handlers' : g \in handlers \ {h} \/ g.msg = h.msg
             /\ pc # "opening" => \A g \in handlers' :
                  g.pc \in {"stored", "opening", "resuming"} => g \in handlers
  BY <1>2, <1>4 DEF GoesOn, Continuing
<1>5. CASE JudgeExit(h)
  <2>1. /\ h.msg.type = "picker.exited" /\ h.msg.session \in SessionIds
        /\ h.pc = "stored" /\ UNCHANGED sessions
    BY <1>1, <1>5, MessageFields DEF JudgeExit, outside
  <2>2. Acting(h)
    BY <2>1 DEF Acting, Turn
  <2> DEFINE m == Continuation(h, h.msg.session)
  <2>3. m \in Messages /\ ~AboutPr(m) /\ ~Ending(m) /\ m.session = h.msg.session
    BY <1>1, <2>1, PublishedMessages, NoSessionAssumption DEF AboutPr, Ending
  <2>4. \E pc \in {"opening", "judged", "truncated"} : GoesOn(h, pc)
    BY <1>5 DEF JudgeExit
  <2>5. UNCHANGED inbox \/ Publish(<<m>>)
    BY <1>5 DEF JudgeExit
  <2> HIDE DEF m
  <2> QED BY <1>3, <1>4, <2>1, <2>2, <2>3, <2>4, <2>5, TurnPassesBeforePr
<1>6. CASE OpenPrAnswered(h)
  <2>1. /\ h.msg.type = "picker.exited" /\ h.msg.session \in SessionIds
        /\ h.pc = "opening" /\ UNCHANGED sessions
    BY <1>1, <1>6, MessageFields DEF OpenPrAnswered, Shaped
  <2>2. Acting(h)
    BY <2>1 DEF Acting, Turn
  <2> DEFINE m == Continuation(h, h.msg.session)
  <2>3. m \in Messages /\ ~AboutPr(m) /\ ~Ending(m) /\ m.session = h.msg.session
    BY <1>1, <2>1, PublishedMessages, NoSessionAssumption DEF AboutPr, Ending
  <2>4. \A p \in PrRefs : ~OpensPr(p)
    BY DEF OpensPr, NoPrYet, OutsideTyped
  <2>5. GoesOn(h, "judged") /\ (UNCHANGED inbox \/ Publish(<<m>>))
    BY <1>6, <2>4 DEF OpenPrAnswered
  <2> HIDE DEF m
  <2> QED BY <1>3, <1>4, <2>1, <2>2, <2>3, <2>5, TurnPassesBeforePr
<1>7. CASE AskAfterFeedback(h)
  BY <1>1, <1>7 DEF AskAfterFeedback, AboutPr
<1>8. CASE GoOn(h)
  <2> DEFINE n == [h EXCEPT !.pc = "resuming"]
  <2>1. n.msg = h.msg /\ n.pc = "resuming" /\ handlers' = (handlers \ {h}) \union {n}
    BY <1>2, <1>8 DEF GoOn, GoesOn
  <2>2. /\ h.pc = "stored" /\ UNCHANGED <<agg, spent, inbox, sessions>>
        /\ h.msg.type = "picker.continuation-needed"
    BY <1>8 DEF GoOn, outside, store
  <2>3. agg[task].prePr < CONTINUATION_CAP /\ agg[task].prePr \in Nat
    BY <1>8, TaskAssumption
       DEF GoOn, CanContinue, BeforePr, NoneAboutPr, DaemonTyped, StreamTypeOK,
          Aggregates
  <2> HIDE DEF n
  <2>4. Continuing(h) /\ Acting(h)
    BY <2>2, ContinuingActs DEF Continuing
  <2>5. /\ Idle /\ QuietInbox /\ ~Over /\ \A g \in handlers \ {h} : ~Acting(g)
    BY <2>4, TheOnlyTurn, TurnNotOver DEF QuietHandlers
  <2>6. NoneAboutPr'
    BY <2>1, <2>2 DEF BeforePr, NoneAboutPr, AboutPr
  <2>7. AskedOnce'
    BY <2>1, <2>2, <2>5 DEF BeforePr, AskedOnce, Uncounted, Acting, QuietInbox
  <2>8. ~Over'
    BY <2>1, <2>2, <2>5 DEF Over, Ending
  <2>9. PickersCounted'
    <3>1. Born' = Born /\ agg' = agg
      BY <2>2 DEF Born
    <3>2. /\ Cardinality(Born) \in Nat
          /\ Cardinality(Born) <= agg[task].prePr
      BY <2>4, FS_CardinalityType DEF BeforePr, PickersCounted
    <3>3. Cardinality(Born) < CONTINUATION_CAP
      BY <2>3, <3>2, CapAssumption
    <3> QED BY <3>1, <3>2, <3>3 DEF BeforePr, PickersCounted
  <2> QED BY <2>6, <2>7, <2>8, <2>9 DEF BeforePr, OverIsQuiet
<1>9. CASE GiveUp(h)
  <2>1. /\ h.pc = "stored" /\ h.msg.type = "picker.continuation-needed"
        /\ handlers' = handlers \ {h} /\ UNCHANGED <<agg, spent, sessions>>
    BY <1>9 DEF GiveUp, Ends, outside, store
  <2>2. Continuing(h) /\ Acting(h)
    BY <2>1, ContinuingActs DEF Continuing
  <2>3. /\ Idle /\ QuietInbox /\ ~Over /\ \A g \in handlers \ {h} : ~Acting(g)
        /\ h.msg.session \in SessionIds /\ sessions[h.msg.session] # "unborn"
    BY <2>2, TheOnlyTurn, TurnNotOver DEF QuietHandlers
  <2> DEFINE m == Plain("task.failed", h.msg.trace)
  <2>4. m \in Messages /\ ~Turn(m) /\ ~AboutPr(m)
    BY <1>1, MessageFields, PublishedMessages DEF Turn, AboutPr
  <2>5. Publish(<<m>>)
    BY <1>9 DEF GiveUp
  <2> HIDE DEF m
  <2>6. /\ Len(inbox') = Len(inbox) + 1
        /\ \A i \in 1..Len(inbox) : inbox'[i] = inbox[i]
        /\ inbox'[Len(inbox) + 1] = m
    BY <2>4, <2>5, PublishedOne
  <2>7. NoneAboutPr'
    BY <1>1, <2>1, <2>4, <2>6 DEF BeforePr, NoneAboutPr, AboutPr
  <2>8. QuietInbox' /\ QuietHandlers' /\ Idle' /\ Born' = Born /\ Born # {}
    BY <1>1, <2>1, <2>3, <2>4, <2>6
    DEF QuietInbox, QuietHandlers, Acting, Idle, Born
  <2>9. AskedOnce'
    BY <2>1, <2>8 DEF BeforePr, AskedOnce, Uncounted, QuietInbox, QuietHandlers
  <2>10. PickersCounted'
    BY <2>1, <2>8 DEF BeforePr, PickersCounted, Continuing
  <2> QED BY <2>7, <2>8, <2>9, <2>10 DEF BeforePr, OverIsQuiet
<1>10. CASE Resume(h)
  <2>1. /\ h.pc = "resuming" /\ handlers' = handlers \ {h} /\ UNCHANGED <<agg, spent>>
    BY <1>10 DEF Resume, Ends, store
  <2>2. Continuing(h) /\ Acting(h)
    BY <1>1, <2>1, ContinuingActs DEF Shaped, Continuing
  <2>3. Idle /\ QuietInbox /\ ~Over /\ \A g \in handlers \ {h} : ~Acting(g)
    BY <2>2, TheOnlyTurn, TurnNotOver DEF QuietHandlers
  <2>4. PICK s \in SessionIds :
          Launched(s) /\ Publish(<<OfSession("picker.spawned", s, s)>>)
    BY <1>10 DEF Resume
  <2> DEFINE m == OfSession("picker.spawned", s, s)
  <2>5. m \in Messages /\ ~Turn(m) /\ ~AboutPr(m) /\ ~Ending(m)
    BY PublishedMessages DEF Turn, AboutPr, Ending
  <2> HIDE DEF m
  <2>6. /\ Len(inbox') = Len(inbox) + 1
        /\ \A i \in 1..Len(inbox) : inbox'[i] = inbox[i]
        /\ inbox'[Len(inbox) + 1] = m
    BY <2>4, <2>5, PublishedOne DEF m
  <2>7. /\ sessions[s] = "unborn" /\ sessions' = [sessions EXCEPT ![s] = "running"]
        /\ sessions \in [SessionIds -> {"unborn", "running", "exited", "killed"}]
    BY <2>4 DEF Launched, OutsideTyped
  <2>8. NoneAboutPr'
    BY <1>1, <2>1, <2>5, <2>6 DEF BeforePr, NoneAboutPr, AboutPr
  <2>9. QuietInbox' /\ QuietHandlers'
    BY <1>1, <2>1, <2>3, <2>5, <2>6 DEF QuietInbox, QuietHandlers, Acting
  <2>10. AskedOnce'
    BY <2>1, <2>7, <2>9
       DEF BeforePr, AskedOnce, Uncounted, QuietInbox, QuietHandlers
  <2>11. ~Over'
    BY <1>1, <2>1, <2>3, <2>5, <2>6 DEF Over, Ending
  <2>12. PickersCounted'
    <3>1. Born' = Born \union {s} /\ s \notin Born
      BY <2>7 DEF Born
    <3>2. /\ IsFiniteSet(Born) /\ Cardinality(Born) \in Nat
          /\ Cardinality(Born) <= agg[task].prePr
          /\ Cardinality(Born) < CONTINUATION_CAP
      BY <2>1, <2>2, FS_CardinalityType DEF BeforePr, PickersCounted
    <3>3. IsFiniteSet(Born') /\ Cardinality(Born') = Cardinality(Born) + 1
      BY <3>1, <3>2, FS_AddElement
    <3>4. \A g \in handlers' : ~Continuing(g) /\ g.pc # "resuming"
      <4>1. ASSUME NEW g \in handlers, g # h, Continuing(g) \/ g.pc = "resuming"
            PROVE  FALSE
        <5>1. Continuing(g)
          BY <4>1 DEF DaemonTyped, Shaped, Continuing
        <5> QED BY <2>3, <4>1, <5>1, ContinuingActs
      <4> QED BY <2>1, <4>1
    <3>5. agg[task].prePr \in Nat
      BY TaskAssumption DEF DaemonTyped, StreamTypeOK, Aggregates
    <3> QED BY <2>1, <3>2, <3>3, <3>4, <3>5, CapAssumption
            DEF PickersCounted, Continuing
  <2> QED BY <2>8, <2>10, <2>11, <2>12 DEF BeforePr, OverIsQuiet
<1>11. CASE ResumeFails(h) \/ WriteNode(h)
  <2>1. UNCHANGED <<inbox, sessions>> /\ handlers' = handlers \ {h}
    BY <1>11 DEF ResumeFails, WriteNode, Ends, outside
  <2> QED BY <1>3, <2>1, QuietBeforePr
<1>12. CASE ReadNode(h)
  <2> DEFINE n == [h EXCEPT !.pc = "read", !.read = node.status]
  <2>1. n.pc = "read"
    BY <1>1 DEF Handlers
  <2>2. UNCHANGED <<inbox, sessions>>
    BY <1>12 DEF ReadNode, outside
  <2>3. handlers' = (handlers \ {h}) \union {n} \/ handlers' = handlers \ {h}
    BY <1>12 DEF ReadNode, Ends
  <2> HIDE DEF n
  <2> QED BY <1>3, <2>1, <2>2, <2>3, QuietBeforePr
<1>13. CASE TruncateNode(h)
  <2>1. UNCHANGED <<inbox, sessions>> /\ GoesOn(h, "truncated")
    BY <1>13 DEF TruncateNode, outside
  <2> QED BY <1>3, <1>4, <2>1, QuietBeforePr
<1> QED
  BY <1>5, <1>6, <1>7, <1>8, <1>9, <1>10, <1>11, <1>12, <1>13 DEF HandlerStep

LEMMA DispatchBeforePr ==
  ASSUME Typed, TurnInv, BeforePr, NEW s \in SessionIds, Dispatch(s) PROVE BeforePr'
<1> DEFINE m == OfSession("picker.spawned", s, s)
<1>1. m \in Messages /\ ~Turn(m) /\ ~AboutPr(m) /\ ~Ending(m)
  BY PublishedMessages DEF Turn, AboutPr, Ending
<1>2. Publish(<<m>>) /\ UNCHANGED <<handlers, agg, spent>>
  BY DEF Dispatch, Tell, store
<1> HIDE DEF m
<1>3. /\ Len(inbox') = Len(inbox) + 1
      /\ \A i \in 1..Len(inbox) : inbox'[i] = inbox[i]
      /\ inbox'[Len(inbox) + 1] = m
  BY <1>1, <1>2, PublishedOne DEF Typed
<1>4. inbox \in Seq(Messages)
  BY DEF Typed, DaemonTyped
<1>5. /\ \A q \in SessionIds : sessions[q] = "unborn"
      /\ sessions' = [sessions EXCEPT ![s] = "running"]
      /\ sessions \in [SessionIds -> {"unborn", "running", "exited", "killed"}]
  BY DEF Dispatch, Launched, Typed, OutsideTyped
<1>6. QuietInbox /\ QuietHandlers
  BY <1>5 DEF TurnInv, StartedOnly, QuietInbox, QuietHandlers, Turn, Acting
<1>7. Born = {} /\ Born' = {s}
  BY <1>5 DEF Born
<1>8. ~Over
  BY <1>7 DEF BeforePr, OverIsQuiet
<1>9. ~Over'
  BY <1>1, <1>2, <1>3, <1>4, <1>8 DEF Over, Ending
<1>10. NoneAboutPr'
  BY <1>1, <1>2, <1>3, <1>4 DEF BeforePr, NoneAboutPr, AboutPr
<1>11. AskedOnce'
  <2>1. QuietInbox'
    BY <1>1, <1>3, <1>4, <1>6 DEF QuietInbox
  <2> QED BY <1>2, <1>5, <1>6, <2>1
          DEF BeforePr, AskedOnce, Uncounted, QuietInbox, QuietHandlers, Acting
<1>12. PickersCounted'
  <2>1. IsFiniteSet(Born') /\ Cardinality(Born') = 1
    BY <1>7, FS_Singleton
  <2>2. \A h \in handlers : ~Continuing(h) /\ h.pc # "resuming"
    <3>1. ASSUME NEW h \in handlers, Continuing(h) \/ h.pc = "resuming" PROVE FALSE
      <4>1. Continuing(h)
        BY <3>1 DEF Typed, DaemonTyped, Shaped, Continuing
      <4> QED BY <1>6, <4>1, ContinuingActs DEF QuietHandlers
    <3> QED BY <3>1
  <2>3. agg[task].prePr \in Nat
    BY TaskAssumption DEF Typed, DaemonTyped, StreamTypeOK, Aggregates
  <2> QED BY <1>2, <2>1, <2>2, <2>3, CapAssumption DEF PickersCounted, Continuing
<1> QED BY <1>9, <1>10, <1>11, <1>12 DEF BeforePr, OverIsQuiet

\* A Picker that ends, by itself or by a full stop.
LEMMA EndBeforePr ==
  ASSUME Typed, TurnInv, BeforePr, NEW s \in SessionIds,
         FullStop(s) \/ \E success \in BOOLEAN : PickerExits(s, success)
  PROVE  BeforePr'
<1>1. PICK m \in Messages :
        /\ Publish(<<m>>) /\ ~AboutPr(m)
        /\ Turn(m) => ~Ending(m) /\ m.session = s
  <2>1. CASE FullStop(s)
    <3>1. /\ Plain("task.abandoned", s) \in Messages
          /\ ~AboutPr(Plain("task.abandoned", s)) /\ ~Turn(Plain("task.abandoned", s))
      BY PublishedMessages DEF AboutPr, Turn
    <3> QED BY <2>1, <3>1 DEF FullStop, Tell
  <2>2. ASSUME NEW success \in BOOLEAN, PickerExits(s, success)
        PROVE  \E m \in Messages : /\ Publish(<<m>>) /\ ~AboutPr(m)
                                   /\ Turn(m) => ~Ending(m) /\ m.session = s
    <3>1. /\ Exited(s, success) \in Messages
          /\ ~AboutPr(Exited(s, success)) /\ ~Ending(Exited(s, success))
          /\ Exited(s, success).session = s
      BY PublishedMessages DEF AboutPr, Ending
    <3> QED BY <2>2, <3>1 DEF PickerExits, Tell
  <2> QED BY <2>1, <2>2
<1>2. /\ UNCHANGED <<handlers, agg, spent>> /\ sessions[s] = "running"
      /\ \E to \in {"exited", "killed"} : sessions' = [sessions EXCEPT ![s] = to]
      /\ sessions \in [SessionIds -> {"unborn", "running", "exited", "killed"}]
      /\ inbox \in Seq(Messages)
  BY DEF FullStop, PickerExits, Tell, store, Typed, DaemonTyped, OutsideTyped
<1>3. /\ Len(inbox') = Len(inbox) + 1
      /\ \A i \in 1..Len(inbox) : inbox'[i] = inbox[i]
      /\ inbox'[Len(inbox) + 1] = m
  BY <1>1, PublishedOne DEF Typed
<1>4. QuietInbox /\ QuietHandlers /\ ~Over /\ RunningOne
  BY <1>2, TurnNotOver DEF TurnInv, OneTurn, Idle
<1>5. Born' = Born /\ s \in Born
  BY <1>2 DEF Born
<1>6. Idle' /\ QuietHandlers'
  BY <1>2, <1>4 DEF RunningOne, Idle, QuietHandlers, Acting
<1>7. NoneAboutPr'
  BY <1>1, <1>2, <1>3 DEF BeforePr, NoneAboutPr, AboutPr
<1>8. Uncounted(s)
  BY <1>2 DEF BeforePr, AskedOnce
<1>9. \A i \in 1..Len(inbox') : Turn(inbox'[i]) => inbox'[i] = m
  BY <1>2, <1>3, <1>4 DEF QuietInbox
<1>10. AskedOnce'
  <2>1. \A q \in SessionIds :
          sessions'[q] \in {"unborn", "running"} => sessions[q] \in {"unborn", "running"}
    BY <1>2
  <2> QED BY <1>1, <1>2, <1>6, <1>8, <1>9, <2>1
          DEF BeforePr, AskedOnce, Uncounted, QuietHandlers
<1>11. OverIsQuiet'
  <2>1. CASE Ending(m)
    <3>1. QuietInbox'
      BY <1>1, <1>9, <2>1 DEF QuietInbox
    <3> QED BY <1>5, <1>6, <3>1 DEF OverIsQuiet
  <2>2. CASE ~Ending(m)
    <3>1. ~Over'
      BY <1>2, <1>3, <1>4, <2>2 DEF Over, Ending
    <3> QED BY <3>1 DEF OverIsQuiet
  <2> QED BY <2>1, <2>2
<1>12. PickersCounted'
  BY <1>2, <1>5 DEF BeforePr, PickersCounted, Continuing
<1> QED BY <1>7, <1>10, <1>11, <1>12 DEF BeforePr

LEMMA BeforePrInitially == ASSUME LifecycleInit PROVE BeforePrInv
<1>1. agg[task] = Apply(NewAggregate, [type |-> "Requested"])
  BY TaskAssumption DEF LifecycleInit
<1>2. agg[task] = [NewAggregate EXCEPT !.initialized = TRUE, !.status = "Queued", !.version = 1]
  BY <1>1 DEF Apply, NewAggregate
<1>3. /\ agg[task].status = "Queued" /\ agg[task].prePr = 0 /\ ~HasPr(agg[task])
  BY <1>2 DEF NewAggregate, HasPr
<1>4. Born = {}
  BY DEF LifecycleInit, Born
<1>5. NoneAboutPr /\ AskedOnce
  BY <1>3 DEF LifecycleInit, NoneAboutPr, AskedOnce, Uncounted
<1>6. ~Over
  BY <1>3 DEF LifecycleInit, Over, IsTerminal, TerminalStatuses
<1>7. PickersCounted
  <2>1. IsFiniteSet(Born) /\ Cardinality(Born) = 0
    BY <1>4, FS_EmptySet
  <2>2. handlers = {}
    BY DEF LifecycleInit
  <2> QED BY <1>3, <2>1, <2>2, CapAssumption DEF PickersCounted
<1> QED BY <1>5, <1>6, <1>7 DEF BeforePrInv, BeforePr, OverIsQuiet

LEMMA BeforePrInductive ==
  ASSUME OperatorSessions = {}, Typed, TurnInv, BeforePrInv, [LifecycleNext]_lifecycleVars
  PROVE  BeforePrInv'
<1> SUFFICES ASSUME NoPrYet' PROVE BeforePr'
  BY DEF BeforePrInv
<1>1. NoPrYet /\ BeforePr
  BY PrsStay DEF BeforePrInv
<1>2. CASE DaemonStep
  BY <1>1, <1>2, StoreBeforePr, HandlerBeforePr DEF DaemonStep
<1>3. CASE Crash
  <2>1. inbox' = <<>> /\ handlers' = {} /\ UNCHANGED <<store, sessions>>
    BY <1>3 DEF Crash
  <2> QED BY <1>1, <2>1, QuietBeforePr
<1>4. ASSUME NEW s \in SessionIds, PickerKilledBySignal(s) PROVE BeforePr'
  <2>1. sessions \in [SessionIds -> {"unborn", "running", "exited", "killed"}]
    BY DEF Typed, OutsideTyped
  <2> QED BY <1>1, <1>4, <2>1, QuietBeforePr DEF PickerKilledBySignal
<1>5. ASSUME NEW s \in SessionIds, HandsOff(s) PROVE BeforePr'
  <2>1. \A p \in PrRefs : ~OpensPr(p)
    BY DEF OpensPr, NoPrYet, Typed, OutsideTyped
  <2>2. UNCHANGED <<store, sessions, inbox, handlers>>
    BY <1>5, <2>1 DEF HandsOff
  <2> QED BY <1>1, <2>2, QuietBeforePr
<1>6. ASSUME NEW p \in PrRefs, NEW trace \in PollTraces,
             Reviewed(p, trace) \/ Merged(p, trace)
      PROVE  BeforePr'
  BY <1>1, <1>6, PollsTell DEF NoPrYet
<1>7. CASE UNCHANGED lifecycleVars
  <2>1. UNCHANGED <<store, sessions, inbox, handlers>>
    BY <1>7 DEF lifecycleVars, store
  <2> QED BY <1>1, <2>1, QuietBeforePr
<1>8. \A s \in SessionIds : ~OperatorResumes(s)
  BY DEF OperatorResumes
<1> QED
  BY <1>1, <1>2, <1>3, <1>4, <1>5, <1>6, <1>7, <1>8, DispatchBeforePr, EndBeforePr
     DEF LifecycleNext

LEMMA BeforePrInvariant ==
  OperatorSessions = {} /\ LifecycleSpec => [](Typed /\ TurnInv /\ BeforePrInv)
<1>1. LifecycleInit => Typed /\ TurnInv /\ BeforePrInv
  BY TypedInitially, TurnInitially, BeforePrInitially
<1>2. CASE OperatorSessions = {}
  <2>1. Typed /\ TurnInv /\ BeforePrInv /\ [LifecycleNext]_lifecycleVars
          => (Typed /\ TurnInv /\ BeforePrInv)'
    BY <1>2, TypedInductive, TurnInductive, BeforePrInductive
  <2> QED BY <1>1, <2>1, PTL DEF LifecycleSpec
<1> QED BY <1>2

\* Without an operator a task that has no PR is never given more Pickers than
\* the cap, and no task fails that was not asked to continue as often, for any
\* cap and any number of Pickers, worker threads, faults and deaths.
THEOREM CapHoldsAlways == OperatorSessions = {} /\ LifecycleSpec => []CapHolds
<1>1. ASSUME OperatorSessions = {}
      PROVE  BeforePrInv => PickersBoundedBeforePr
  <2>1. {s \in SessionIds \ OperatorSessions : sessions[s] # "unborn"} = Born
    BY <1>1 DEF Born
  <2> QED BY <2>1
          DEF BeforePrInv, BeforePr, PickersCounted, NoPrYet, PickersBoundedBeforePr
<1>2. CASE OperatorSessions = {}
  <2>1. BeforePrInv => PickersBoundedBeforePr
    BY <1>1, <1>2
  <2>2. PickersBoundedBeforePr /\ FailedAfterCap => CapHolds
    BY DEF CapHolds
  <2> QED BY <1>2, <2>1, <2>2, BeforePrInvariant, FailedAfterCapHolds, PTL
<1> QED BY <1>2
=============================================================================
