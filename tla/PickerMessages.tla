---------------------------- MODULE PickerMessages ----------------------------
(***************************************************************************)
(* Messages to one Picker: the message service (crates/jam-svc-message)    *)
(* publishes a command and then its first status; the session service      *)
(* takes the commands of each mode in a task of its own, writes them to    *)
(* the Picker's stdin and publishes what became of them; the UI's outbox   *)
(* merges answers, statuses and its own timeout.  A full stop passes the   *)
(* session service by a request.  Commands nobody is subscribed to are     *)
(* lost.                                                                   *)
(***************************************************************************)
EXTENDS Naturals, Sequences

CONSTANTS
  Messages,     \* messages a user may send
  ModeOf,       \* "queue" or "interrupt", by message
  StatusFaults  \* "status": publishes of a status may fail

ASSUME ModeAssumption == ModeOf \in [Messages -> {"queue", "interrupt"}]
ASSUME StatusFaultsAssumption == StatusFaults \subseteq {"status"}

Modes == {"queue", "interrupt"}
NoMessage == "none"

VARIABLES
  sent,     \* the message service's task, by message
  mailbox,  \* commands the session service has not taken, by mode
  worker,   \* what each of its tasks is doing
  picker,   \* the record: "starting", "Running", "Killing", "ended"
  kill,     \* full_stop of the message service
  written,  \* messages written to the Picker's stdin
  late,     \* messages whose command was published to a Picker that is
            \* being killed or has ended
  overtaken, \* those whose command was published after that of the full stop
  shown     \* the outbox of the UI: the status of each message

messageVars ==
  <<sent, mailbox, worker, picker, kill, written, late, overtaken, shown>>

NoWork == [msg |-> NoMessage, pc |-> "idle"]

MessageInit ==
  /\ sent = [m \in Messages |-> "none"]
  /\ mailbox = [mode \in Modes |-> <<>>]
  /\ worker = [mode \in Modes |-> NoWork]
  /\ picker = "starting"
  /\ kill = "none"
  /\ written = {} /\ late = {} /\ overtaken = {}
  /\ shown = [m \in Messages |-> "none"]

\* messageStatusRank
StatusRank ==
  [status \in {"none", "sending", "queued", "interrupt-requested", "interrupt-accepted",
               "delivered", "delivery-failed"} |->
     CASE status \in {"none", "sending"} -> 0
       [] status \in {"queued", "interrupt-requested"} -> 1
       [] status = "interrupt-accepted" -> 2
       [] status = "delivered" -> 3
       [] status = "delivery-failed" -> 5]

\* Faulty variant: the last status is shown.
ShowLast(m, status) == shown' = [shown EXCEPT ![m] = status]

\* upsertOutboxStatus, and the answer in reconcilePromptAck: a status of lower
\* rank is dropped.
Show(m, status) ==
  shown' = IF StatusRank[status] < StatusRank[shown[m]] THEN shown ELSE [shown EXCEPT ![m] = status]

\* A status reaches the UI when it is published; a failed publish is logged.
Status(m, status) ==
  \/ Show(m, status)
  \/ "status" \in StatusFaults /\ UNCHANGED shown

\* Faulty variant: every message is told to be queued.
AlwaysQueued(m) == "queued"

FirstStatus(m) == IF ModeOf[m] = "queue" THEN "queued" ELSE "interrupt-requested"

(***************************************************************************)
(* The message service and the UI.                                         *)
(***************************************************************************)

\* publish_command_and_status: the command; the session service has it if it
\* is subscribed.
PublishCommand(m) ==
  /\ sent[m] = "none"
  /\ sent' = [sent EXCEPT ![m] = "command"]
  /\ mailbox' = IF picker = "starting" THEN mailbox
                ELSE [mailbox EXCEPT ![ModeOf[m]] = Append(@, m)]
  /\ late' = IF picker \in {"Killing", "ended"} THEN late \union {m} ELSE late
  /\ overtaken' = IF kill # "none" THEN overtaken \union {m} ELSE overtaken
  /\ UNCHANGED <<worker, picker, kill, written, shown>>

\* ... the status; a failure ends the request, and the outbox shows it unless
\* it knows better.
PublishStatus(m) ==
  /\ sent[m] = "command"
  /\ \/ sent' = [sent EXCEPT ![m] = "status"] /\ Show(m, FirstStatus(m))
     \/ /\ "status" \in StatusFaults
        /\ sent' = [sent EXCEPT ![m] = "answered"]
        /\ shown' = IF shown[m] = "none" THEN [shown EXCEPT ![m] = "delivery-failed"] ELSE shown
  /\ UNCHANGED <<mailbox, worker, picker, kill, written, late, overtaken>>

\* The answer of the request, which the UI merges as well.
Answered(m) ==
  /\ sent[m] = "status"
  /\ sent' = [sent EXCEPT ![m] = "answered"]
  /\ Show(m, FirstStatus(m))
  /\ UNCHANGED <<mailbox, worker, picker, kill, written, late, overtaken>>

\* Faulty variant: an interrupt that was only requested is waited for.
PendingWithoutRequest(status) == status \in {"sending", "queued", "interrupt-accepted"}

\* isPendingDeliveryStatus
Pending(status) ==
  status \in {"sending", "queued", "interrupt-requested", "interrupt-accepted"}

\* Ten seconds without a confirmation.
Timeout(m) ==
  /\ Pending(shown[m])
  /\ shown' = [shown EXCEPT ![m] = "delivery-failed"]
  /\ UNCHANGED <<sent, mailbox, worker, picker, kill, written, late, overtaken>>

\* full_stop: the command and its status, then the request to the session
\* service, which is refused or confirmed.
CommandKill ==
  /\ kill = "none"
  /\ kill' = "commanded"
  /\ UNCHANGED <<sent, mailbox, worker, picker, written, late, overtaken, shown>>

RequestKill ==
  /\ kill = "commanded"
  /\ IF picker = "Running" THEN kill' = "requested" /\ picker' = "Killing"
     ELSE kill' = "answered" /\ UNCHANGED picker
  /\ UNCHANGED <<sent, mailbox, worker, written, late, overtaken, shown>>

ConfirmKill ==
  /\ kill = "requested"
  /\ kill' = "answered" /\ picker' = "ended"
  /\ UNCHANGED <<sent, mailbox, worker, written, late, overtaken, shown>>

(***************************************************************************)
(* The session service.                                                    *)
(***************************************************************************)

\* launch_picker: the record, and the subscriptions.
SessionListens ==
  /\ picker = "starting"
  /\ picker' = "Running"
  /\ UNCHANGED <<sent, mailbox, worker, kill, written, late, overtaken, shown>>

PickerStops ==
  /\ picker = "Running"
  /\ picker' = "ended"
  /\ UNCHANGED <<sent, mailbox, worker, kill, written, late, overtaken, shown>>

\* Faulty variant: any session that has a record will do.
AnySession == picker # "starting"

\* picker_session_running
SessionRunning == picker = "Running"

\* handle_picker_message_command: taken, and looked at.
TakeMessage(mode) ==
  /\ worker[mode].pc = "idle" /\ mailbox[mode] # <<>>
  /\ LET m == Head(mailbox[mode])
     IN IF SessionRunning
        THEN /\ worker' = [worker EXCEPT ![mode] = [msg |-> m, pc |-> "checked"]]
             /\ UNCHANGED shown
        ELSE Status(m, "delivery-failed") /\ UNCHANGED worker
  /\ mailbox' = [mailbox EXCEPT ![mode] = Tail(@)]
  /\ UNCHANGED <<sent, picker, kill, written, late, overtaken>>

AcceptInterrupt ==
  /\ worker["interrupt"].pc = "checked"
  /\ worker' = [worker EXCEPT !["interrupt"].pc = "accepted"]
  /\ Status(worker["interrupt"].msg, "interrupt-accepted")
  /\ UNCHANGED <<sent, mailbox, picker, kill, written, late, overtaken>>

\* write_picker_message_to_stdin: it may fail, and must when nobody reads.
WriteMessage(mode, ok) ==
  /\ worker[mode].pc = IF mode = "queue" THEN "checked" ELSE "accepted"
  /\ ok => picker # "ended"
  /\ worker' = [worker EXCEPT ![mode].pc = IF ok THEN "written" ELSE "refused"]
  /\ written' = IF ok THEN written \union {worker[mode].msg} ELSE written
  /\ UNCHANGED <<sent, mailbox, picker, kill, late, overtaken, shown>>

\* Faulty variant: what was refused is told as delivered.
TellAlways(mode) ==
  /\ worker[mode].pc \in {"written", "refused"}
  /\ Status(worker[mode].msg, "delivered")
  /\ worker' = [worker EXCEPT ![mode] = NoWork]
  /\ UNCHANGED <<sent, mailbox, picker, kill, written, late, overtaken>>

TellOutcome(mode) ==
  /\ worker[mode].pc \in {"written", "refused"}
  /\ Status(worker[mode].msg,
            IF worker[mode].pc = "written" THEN "delivered" ELSE "delivery-failed")
  /\ worker' = [worker EXCEPT ![mode] = NoWork]
  /\ UNCHANGED <<sent, mailbox, picker, kill, written, late, overtaken>>

MessageNext ==
  \/ \E m \in Messages :
       PublishCommand(m) \/ PublishStatus(m) \/ Answered(m) \/ Timeout(m)
  \/ \E mode \in Modes :
       \/ TakeMessage(mode) \/ TellOutcome(mode)
       \/ \E ok \in BOOLEAN : WriteMessage(mode, ok)
  \/ AcceptInterrupt \/ SessionListens \/ PickerStops
  \/ CommandKill \/ RequestKill \/ ConfirmKill

MessageSpec == MessageInit /\ [][MessageNext]_messageVars

\* The UI's interval fires for ever, and a request is answered.
MessageFairness ==
  \A m \in Messages :
    /\ WF_messageVars(Timeout(m))
    /\ WF_messageVars(Answered(m))
    /\ WF_messageVars(PublishStatus(m))

FairMessageSpec == MessageSpec /\ MessageFairness
-----------------------------------------------------------------------------

MessageTypeOK ==
  /\ sent \in [Messages -> {"none", "command", "status", "answered"}]
  /\ mailbox \in [Modes -> Seq(Messages)]
  /\ worker \in [Modes -> [msg: Messages \union {NoMessage},
                 pc: {"idle", "checked", "accepted", "written", "refused"}]]
  /\ picker \in {"starting", "Running", "Killing", "ended"}
  /\ kill \in {"none", "commanded", "requested", "answered"}
  /\ written \subseteq Messages /\ late \subseteq Messages /\ overtaken \subseteq Messages
  /\ shown \in [Messages -> DOMAIN StatusRank]
  /\ \A m \in Messages : shown[m] = "queued" => ModeOf[m] = "queue"
  /\ \A mode \in Modes : worker[mode].pc # "idle" => ModeOf[worker[mode].msg] = mode

\* Whatever order the answer, the two publishers' statuses and the timeout
\* come in, the outbox never shows less of a message than before, and calls it
\* delivered only when the Picker was given it (upsertOutboxStatus).
ShownOnlyGrows ==
  [][\A m \in Messages : StatusRank[shown'[m]] >= StatusRank[shown[m]]]_messageVars

DeliveredIsWritten ==
  \A m \in Messages : shown[m] = "delivered" => m \in written

\* feat-messaging-three-modes.md:34, "`queue`/`interrupt` after kill rejected",
\* from the moment the session service has marked the kill: no later message
\* reaches a Picker in its grace period (picker_session_running).
LateMessageRejected == late \intersect written = {}

\* No message stays pending in the outbox: one that nobody was subscribed to,
\* or whose statuses are lost, is shown as failed in the end.
PendingEnds ==
  \A m \in Messages : sent[m] = "command" ~> shown[m] \in {"delivered", "delivery-failed"}

\* The same sentence of the document, and comp-jam-svc-message.md's "`kill`
\* takes precedence", from the moment the kill is published.
KillTakesPrecedence == overtaken \intersect written = {}

\* A status is what happened: delivered means written to the Picker, and a
\* message after its end is rejected (main.rs:3692-3784 of the session service).
MessageSafety == DeliveredIsWritten /\ LateMessageRejected
=============================================================================
