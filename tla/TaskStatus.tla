----------------------------- MODULE TaskStatus -----------------------------
(***************************************************************************)
(* What a task's status promises its readers (dashboard, poller, store     *)
(* queries): the graph of the moves a status may make, with no events, no  *)
(* sessions and no counters.  TaskStream is shown to implement it.         *)
(***************************************************************************)
CONSTANT Tasks

VARIABLE status

Live == {"Queued", "Active", "PostPicker", "InReview"}

Init == status = [t \in Tasks |-> "Queued"]

Move(t, from, to) ==
  /\ status[t] \in from
  /\ status' = [status EXCEPT ![t] = to]

Dispatch(t)   == Move(t, {"Queued"}, "Active")
Redispatch(t) == Move(t, {"PostPicker", "InReview"}, "Active")
Finish(t)     == Move(t, {"Active"}, "PostPicker")
OpenPr(t)     == Move(t, {"Active", "PostPicker"}, "InReview")
Merge(t)      == Move(t, {"InReview"}, "Merged")
Fail(t)       == Move(t, Live, "Failed")
Abandon(t)    == Move(t, Live, "Abandoned")

Next == \E t \in Tasks :
          \/ Dispatch(t) \/ Redispatch(t) \/ Finish(t) \/ OpenPr(t)
          \/ Merge(t) \/ Fail(t) \/ Abandon(t)

Spec == Init /\ [][Next]_status
=============================================================================
