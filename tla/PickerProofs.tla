---------------------------- MODULE PickerProofs -----------------------------
(***************************************************************************)
(* What is proved of a Picker and of the branch it works on.  Of the       *)
(* session service: its Pickers' lives (PickerSession), for any number of  *)
(* sessions, faults and ends of the service; the messages to them          *)
(* (PickerMessages), for any messages and restarts; and their output       *)
(* (PickerOutput), for any sessions and lines.  Of a task's branch: the    *)
(* worktrees and the clone they come from (Worktrees), for any requests,   *)
(* workers, faults and restarts; its pull requests (PullRequests), for any *)
(* calls, commits, PRs and commands that run on after their timeout; and   *)
(* the service that polls GitHub for what becomes of them (PrPoller), for  *)
(* any PRs, CI statuses, faults, revisions and crashes.                    *)
(***************************************************************************)
EXTENDS PickerSession, PickerMessages, PickerOutput, Worktrees, PullRequests, PrPoller,
        FiniteSetTheorems, TLAPS

-----------------------------------------------------------------------------
(* The inductive invariant relates what the launch, the watcher, the full  *)
(* stop and the purge of one session know of each other.                   *)

\* A session is watched, recorded, stopped and purged only after its launch,
\* which told its start.
LaunchedFirst(s) ==
  /\ launch[s] = "launched" => proc[s] # "none"
  /\ launch[s] \in {"told", "registered", "done"} => "spawned" \in published[s]
  /\ launch[s] # "done" => watcher[s] = "none"
  /\ launch[s] \notin {"registered", "done"} => record[s] = "absent"
  /\ launch[s] \in {"none", "worktree", "launched", "told"} =>
       stop[s] = "none" /\ purge[s] = "none" /\ published[s] \subseteq {"spawned"}
  /\ (record[s] # "absent" \/ stop[s] # "none" \/ purge[s] # "none" \/ published[s] # {})
       => "spawned" \in published[s] /\ proc[s] # "none"

\* The mark under the lock: either the watcher reports the end or a full stop
\* does, and neither gives its part back.
OneReports(s) ==
  /\ record[s] = "Running" => stop[s] = "none"
  /\ record[s] = "Killing" => stop[s] # "none"
  /\ watcher[s] \in {"reporting", "handing", "opening"}
     \/ "exited" \in published[s] \/ "pr" \in published[s]
       => stop[s] = "none" /\ record[s] # "Running"
  /\ "killed" \in published[s] => stop[s] # "none"

\* What counts as completed has no process.
CompletedIsDead(s) ==
  record[s] \in Completed \/ purge[s] # "none" \/ stop[s] = "terminated" => proc[s] \in Dead

PickerInv ==
  /\ PickerTypeOK
  /\ \A s \in Pickers : LaunchedFirst(s) /\ OneReports(s) /\ CompletedIsDead(s)

LEMMA PickerInvInductive == PickerInv /\ [PickerNext]_pickerVars => PickerInv'
<1> SUFFICES ASSUME PickerInv, [PickerNext]_pickerVars
             PROVE  PickerInv'
  OBVIOUS
<1> USE DeathsAssumption
    DEF PickerInv, PickerTypeOK, LaunchedFirst, OneReports, CompletedIsDead,
        Dead, Completed, Idle
<1>1. ASSUME NEW s \in Pickers, SpawnPicker(s)
     PROVE  PickerInv'
  BY <1>1 DEF SpawnPicker, world
<1>2. ASSUME NEW s \in Pickers, ResumePicker(s)
     PROVE  PickerInv'
  BY <1>2 DEF ResumePicker, world
<1>3. ASSUME NEW s \in Pickers, NEW ok \in BOOLEAN, LaunchProcess(s, ok)
     PROVE  PickerInv'
  BY <1>3 DEF LaunchProcess, world
<1>4. ASSUME NEW s \in Pickers, NEW ok \in BOOLEAN, PublishSpawned(s, ok)
     PROVE  PickerInv'
  BY <1>4 DEF PublishSpawned, TellsIf, Tells, world
<1>5. ASSUME NEW s \in Pickers, Register(s)
     PROVE  PickerInv'
  BY <1>5 DEF Register, world
<1>6. ASSUME NEW s \in Pickers, NEW how \in Dead, PickerEnds(s, how)
     PROVE  PickerInv'
  BY <1>6 DEF PickerEnds, world
<1>7. ASSUME NEW s \in Pickers, SeeExit(s)
     PROVE  PickerInv'
  BY <1>7 DEF SeeExit, world
<1>8. ASSUME NEW s \in Pickers, NEW ok \in BOOLEAN, ReportExit(s, ok)
     PROVE  PickerInv'
  BY <1>8 DEF ReportExit, TellsIf, Tells, world
<1>9. ASSUME NEW s \in Pickers, PrepareHandoff(s)
     PROVE  PickerInv'
  BY <1>9 DEF PrepareHandoff, world
<1>10. ASSUME NEW s \in Pickers, NEW ok \in BOOLEAN, OpenHandoffPr(s, ok)
     PROVE  PickerInv'
  BY <1>10 DEF OpenHandoffPr, TellsIf, Tells, world
<1>11. ASSUME NEW s \in Pickers, MarkKilling(s)
     PROVE  PickerInv'
  BY <1>11 DEF MarkKilling, world
<1>12. ASSUME NEW s \in Pickers, Terminate(s)
     PROVE  PickerInv'
  BY <1>12 DEF Terminate, world
<1>13. ASSUME NEW s \in Pickers, GraceOver(s)
     PROVE  PickerInv'
  BY <1>13 DEF GraceOver, world
<1>14. ASSUME NEW s \in Pickers, NEW ok \in BOOLEAN, MarkKilled(s, ok)
     PROVE  PickerInv'
  BY <1>14 DEF MarkKilled, world
<1>15. ASSUME NEW s \in Pickers, NEW ok \in BOOLEAN, PublishKilled(s, ok)
     PROVE  PickerInv'
  BY <1>15 DEF PublishKilled, TellsIf, Tells, world
<1>16. ASSUME NEW s \in Pickers, NEW ok \in BOOLEAN, PublishAbandoned(s, ok)
     PROVE  PickerInv'
  BY <1>16 DEF PublishAbandoned, TellsIf, Tells, world
<1>17. ASSUME NEW s \in Pickers, NEW ok \in BOOLEAN, Archive(s, ok)
     PROVE  PickerInv'
  BY <1>17 DEF Archive, Removable, TellsIf, Tells, world
<1>18. ASSUME NEW s \in Pickers, Purge(s)
     PROVE  PickerInv'
  BY <1>18 DEF Purge, Removable, world
<1>19. ASSUME NEW s \in Pickers, NEW ok \in BOOLEAN, PurgeWorktree(s, ok)
     PROVE  PickerInv'
  <2>1. present' \in BOOLEAN
    BY <1>19 DEF PurgeWorktree
  <2> QED BY <1>19, <2>1 DEF PurgeWorktree
<1>20. ASSUME NEW s \in Pickers, NEW ok \in BOOLEAN, PublishPurged(s, ok)
     PROVE  PickerInv'
  BY <1>20 DEF PublishPurged, TellsIf, Tells, world
<1>21. ASSUME NEW s \in Pickers, StartWatcher(s)
     PROVE  PickerInv'
  BY <1>21 DEF StartWatcher, world
<1>22. ASSUME NEW s \in Pickers, NEW ok \in BOOLEAN, PublishPurgeAbandons(s, ok)
     PROVE  PickerInv'
  BY <1>22 DEF PublishPurgeAbandons, TellsIf, Tells, world
<1>23. CASE ServiceEnds
  BY <1>23 DEF ServiceEnds, Cut
<1>24. CASE UNCHANGED pickerVars
  BY <1>24 DEF pickerVars
<1> HIDE DEF PickerInv, PickerTypeOK, LaunchedFirst, OneReports, CompletedIsDead, Dead
<1> QED BY <1>1, <1>2, <1>3, <1>4, <1>5, <1>6, <1>7, <1>8, <1>9, <1>10, <1>11,
           <1>12, <1>13, <1>14, <1>15, <1>16, <1>17, <1>18, <1>19, <1>20, <1>21,
           <1>22, <1>23, <1>24 DEF PickerNext, Serve, Watch

LEMMA PickerInvariant == PickerSpec => []PickerInv
<1>1. PickerInit => PickerInv
  <2> SUFFICES ASSUME PickerInit PROVE PickerInv
    OBVIOUS
  <2>1. PickerTypeOK
    <3>1. present \in BOOLEAN /\ branched \in BOOLEAN
      BY DEF PickerInit
    <3>2. deaths \in 0..MaxDeaths
      BY DeathsAssumption DEF PickerInit
    <3> QED BY <3>1, <3>2 DEF PickerInit, PickerTypeOK, Dead, Completed, Idle
  <2>2. \A s \in Pickers : LaunchedFirst(s) /\ OneReports(s) /\ CompletedIsDead(s)
    BY DEF PickerInit, LaunchedFirst, OneReports, CompletedIsDead, Completed
  <2> QED BY <2>1, <2>2 DEF PickerInv
<1> QED BY <1>1, PickerInvInductive, PTL DEF PickerSpec

\* Every variable of the session service stays in its type, and a session that
\* runs or is being killed has its watcher waiting, or is about to get it.
THEOREM PickerTypeCorrect == PickerSpec => []PickerTypeOK
<1>1. PickerInv => PickerTypeOK
  BY DEF PickerInv
<1> QED BY <1>1, PickerInvariant, PTL

\* However exits, full stops, archives, purges and ends of the service race,
\* the end of a Picker is told once, a stopped Picker opens no PR, only a dead
\* one is purged, and nothing is told of one before its start.
THEOREM PickerSafetyHolds == PickerSpec => []PickerSafety
<1>1. PickerInv => PickerSafety
  <2> SUFFICES ASSUME PickerInv PROVE PickerSafety
    OBVIOUS
  <2>1. \A s \in Pickers : LaunchedFirst(s) /\ OneReports(s) /\ CompletedIsDead(s)
    BY DEF PickerInv
  <2>2. \A s \in Pickers : published[s] \subseteq
          {"spawned", "exited", "killed", "abandoned", "archived", "purged", "pr"}
    BY DEF PickerInv, PickerTypeOK
  <2>3. EndToldOnce
    BY <2>1 DEF EndToldOnce, OneReports
  <2>4. StoppedOpensNoPr
    BY <2>1 DEF StoppedOpensNoPr, OneReports
  <2>5. PurgedIsDead
    BY <2>1 DEF PurgedIsDead, CompletedIsDead
  <2>6. SpawnToldFirst
    BY <2>1, <2>2 DEF SpawnToldFirst, LaunchedFirst
  <2> QED BY <2>3, <2>4, <2>5, <2>6 DEF PickerSafety
<1> QED BY <1>1, PickerInvariant, PTL

-----------------------------------------------------------------------------
(* Messages.  What a Picker was given had its command published while the  *)
(* session service took commands, and no status says more than happened.   *)

Statuses == {"none", "sending", "queued", "interrupt-requested", "interrupt-accepted",
             "delivered", "delivery-failed"}

Works == [msg: Messages \union {NoMessage},
          pc: {"idle", "checked", "accepted", "written", "refused"}]

MessageTyped ==
  /\ sent \in [Messages -> {"none", "command", "status", "answered"}]
  /\ mailbox \in [Modes -> Seq(Messages)]
  /\ worker \in [Modes -> Works]
  /\ picker \in {"starting", "Running", "Killing", "ended"}
  /\ kill \in {"none", "commanded", "requested", "answered"}
  /\ written \subseteq Messages /\ late \subseteq Messages /\ overtaken \subseteq Messages
  /\ shown \in [Messages -> Statuses]

Working(mode) == worker[mode].pc # "idle"
ToBeWritten(mode) == worker[mode].pc \in {"checked", "accepted"}
Posted(mode) == {mailbox[mode][i] : i \in 1..Len(mailbox[mode])}

\* A message travels in the mailbox of its mode.
OwnMode ==
  /\ \A m \in Messages : shown[m] = "queued" => ModeOf[m] = "queue"
  /\ \A mode \in Modes :
       /\ \A m \in Posted(mode) : ModeOf[m] = mode
       /\ Working(mode) => worker[mode].msg \in Messages /\ ModeOf[worker[mode].msg] = mode

\* Nothing is known of a message before its command.
UnsentIsUnknown ==
  \A m \in Messages : sent[m] = "none" =>
    /\ m \notin written
    /\ \A mode \in Modes :
         m \notin Posted(mode) /\ (Working(mode) => worker[mode].msg # m)

ToldIsWritten ==
  /\ \A m \in Messages : shown[m] = "delivered" => m \in written
  /\ \A mode \in Modes : worker[mode].pc = "written" => worker[mode].msg \in written

\* What comes late is not even about to be written.
LateIsLeft ==
  /\ picker \in {"starting", "Running"} => late = {}
  /\ late \intersect written = {}
  /\ \A mode \in Modes : ToBeWritten(mode) => worker[mode].msg \notin late

MessageInv == MessageTyped /\ OwnMode /\ UnsentIsUnknown /\ ToldIsWritten /\ LateIsLeft

LEMMA StatusRanks ==
  /\ DOMAIN StatusRank = Statuses
  /\ StatusRank["none"] = 0 /\ StatusRank["sending"] = 0
  /\ StatusRank["queued"] = 1 /\ StatusRank["interrupt-requested"] = 1
  /\ StatusRank["interrupt-accepted"] = 2 /\ StatusRank["delivered"] = 3
  /\ StatusRank["delivery-failed"] = 5
BY DEF StatusRank, Statuses

\* One message's status changes, and says no less.
ShowsNext(m, status) ==
  /\ shown' \in [Messages -> Statuses]
  /\ \A n \in Messages : n # m => shown'[n] = shown[n]
  /\ shown'[m] \in {shown[m], status}
  /\ StatusRank[shown'[m]] >= StatusRank[shown[m]]

LEMMA RanksAreNumbers == \A status \in Statuses : StatusRank[status] \in 0..5
BY StatusRanks DEF Statuses

LEMMA ShowFacts ==
  ASSUME shown \in [Messages -> Statuses], NEW m \in Messages, NEW status \in Statuses,
         Show(m, status)
  PROVE  ShowsNext(m, status)
<1>1. CASE StatusRank[status] < StatusRank[shown[m]]
  BY <1>1, RanksAreNumbers DEF Show, ShowsNext
<1>2. CASE ~(StatusRank[status] < StatusRank[shown[m]])
  BY <1>2, RanksAreNumbers DEF Show, ShowsNext
<1> QED BY <1>1, <1>2

LEMMA StatusFacts ==
  ASSUME shown \in [Messages -> Statuses], NEW m \in Messages, NEW status \in Statuses,
         Status(m, status)
  PROVE  ShowsNext(m, status)
<1>1. CASE Show(m, status)
  BY <1>1, ShowFacts
<1>2. CASE UNCHANGED shown
  BY <1>2, RanksAreNumbers DEF ShowsNext
<1> QED BY <1>1, <1>2 DEF Status

LEMMA FailedFacts ==
  ASSUME shown \in [Messages -> Statuses], NEW m \in Messages,
         shown' = [shown EXCEPT ![m] = "delivery-failed"]
  PROVE  ShowsNext(m, "delivery-failed")
<1>1. "delivery-failed" \in Statuses
  BY DEF Statuses
<1> QED BY <1>1, StatusRanks, RanksAreNumbers DEF ShowsNext

LEMMA FirstStatusFacts ==
  ASSUME NEW m \in Messages
  PROVE  /\ FirstStatus(m) \in Statuses /\ FirstStatus(m) # "delivered"
         /\ FirstStatus(m) = "queued" => ModeOf[m] = "queue"
BY DEF FirstStatus, Statuses

\* A step of which only the outbox sees something.
LEMMA OutboxMoves ==
  ASSUME MessageInv, NEW m \in Messages, NEW status \in Statuses, ShowsNext(m, status),
         status = "delivered" => m \in written,
         status = "queued" => ModeOf[m] = "queue",
         UNCHANGED <<mailbox, worker, picker, kill, written, late, overtaken>>,
         sent' \in [Messages -> {"none", "command", "status", "answered"}],
         \A n \in Messages : sent'[n] = "none" => sent[n] = "none"
  PROVE  MessageInv'
<1>1. MessageTyped'
  BY DEF MessageInv, MessageTyped, ShowsNext
<1>2. OwnMode'
  BY DEF MessageInv, OwnMode, ShowsNext, Posted, Working
<1>3. UnsentIsUnknown'
  BY DEF MessageInv, UnsentIsUnknown, Posted, Working
<1>4. ToldIsWritten'
  BY DEF MessageInv, ToldIsWritten, ShowsNext
<1>5. LateIsLeft'
  BY DEF MessageInv, LateIsLeft, ToBeWritten
<1> QED BY <1>1, <1>2, <1>3, <1>4, <1>5 DEF MessageInv

LEMMA UiSteps ==
  ASSUME MessageInv, NEW m \in Messages, PublishStatus(m) \/ Answered(m) \/ Timeout(m)
  PROVE  MessageInv' /\ \E status \in Statuses : ShowsNext(m, status)
<1>1. /\ shown \in [Messages -> Statuses] /\ "delivery-failed" \in Statuses
      /\ sent \in [Messages -> {"none", "command", "status", "answered"}]
  BY DEF MessageInv, MessageTyped, Statuses
<1>2. /\ UNCHANGED <<mailbox, worker, picker, kill, written, late, overtaken>>
      /\ sent' \in [Messages -> {"none", "command", "status", "answered"}]
      /\ \A n \in Messages : sent'[n] = "none" => sent[n] = "none"
  BY <1>1 DEF PublishStatus, Answered, Timeout
<1>3. CASE Show(m, FirstStatus(m))
  BY <1>1, <1>2, <1>3, ShowFacts, FirstStatusFacts, OutboxMoves
<1>4. CASE shown' = [shown EXCEPT ![m] = "delivery-failed"]
  BY <1>1, <1>2, <1>4, FailedFacts, OutboxMoves
<1>5. CASE UNCHANGED shown
  <2>1. ShowsNext(m, "delivery-failed")
    BY <1>1, <1>5, RanksAreNumbers DEF ShowsNext
  <2> QED BY <1>1, <1>2, <2>1, OutboxMoves
<1> QED BY <1>3, <1>4, <1>5 DEF PublishStatus, Answered, Timeout

LEMMA CommandStep ==
  ASSUME MessageInv, NEW m \in Messages, PublishCommand(m)
  PROVE  MessageInv'
<1> DEFINE mode == ModeOf[m]
<1>1. /\ mode \in Modes /\ sent[m] = "none"
      /\ sent' = [sent EXCEPT ![m] = "command"]
      /\ late' = IF picker \in {"Killing", "ended"} THEN late \union {m} ELSE late
      /\ UNCHANGED <<worker, picker, kill, written, shown>>
  BY ModeAssumption DEF PublishCommand, Modes
<1>2. mailbox[mode] \in Seq(Messages)
  BY <1>1 DEF MessageInv, MessageTyped
<1>3. /\ mailbox' \in [Modes -> Seq(Messages)]
      /\ \A o \in Modes : Posted(o)' \subseteq Posted(o) \union (IF o = mode THEN {m} ELSE {})
  <2>1. CASE picker = "starting"
    BY <2>1 DEF PublishCommand, MessageInv, MessageTyped, Posted
  <2>2. CASE picker # "starting"
    <3>1. mailbox' = [mailbox EXCEPT ![mode] = Append(mailbox[mode], m)]
      BY <2>2 DEF PublishCommand
    <3>2. mailbox'[mode] = Append(mailbox[mode], m)
      BY <1>1, <3>1 DEF MessageInv, MessageTyped
    <3>3. /\ Append(mailbox[mode], m) \in Seq(Messages)
          /\ Len(Append(mailbox[mode], m)) = Len(mailbox[mode]) + 1
          /\ \A i \in 1..(Len(mailbox[mode]) + 1) :
               Append(mailbox[mode], m)[i] = IF i <= Len(mailbox[mode])
                                             THEN mailbox[mode][i] ELSE m
      BY <1>2
    <3>4. Len(mailbox[mode]) \in Nat
      BY <1>2
    <3>5. Posted(mode)' \subseteq Posted(mode) \union {m}
      BY <3>2, <3>3, <3>4 DEF Posted
    <3>6. \A o \in Modes : o # mode => Posted(o)' = Posted(o)
      BY <1>1, <3>1 DEF Posted, MessageInv, MessageTyped
    <3>7. mailbox' \in [Modes -> Seq(Messages)]
      BY <1>1, <3>1, <3>3 DEF MessageInv, MessageTyped
    <3> QED BY <3>5, <3>6, <3>7
  <2> QED BY <2>1, <2>2
<1> HIDE DEF mode
<1>4. MessageTyped'
  BY <1>1, <1>3 DEF PublishCommand, MessageInv, MessageTyped
<1>5. OwnMode'
  BY <1>1, <1>3 DEF MessageInv, OwnMode, Working, mode
<1>6. UnsentIsUnknown'
  BY <1>1, <1>3 DEF MessageInv, MessageTyped, UnsentIsUnknown, Working
<1>7. ToldIsWritten'
  BY <1>1 DEF MessageInv, ToldIsWritten
<1>8. LateIsLeft'
  BY <1>1 DEF MessageInv, LateIsLeft, ToBeWritten, UnsentIsUnknown, Working
<1> QED BY <1>4, <1>5, <1>6, <1>7, <1>8 DEF MessageInv

LEMMA KillSteps ==
  ASSUME MessageInv,
         CommandKill \/ RequestKill \/ ConfirmKill \/ SessionListens \/ PickerStops
  PROVE  MessageInv' /\ UNCHANGED shown
<1>1. /\ UNCHANGED <<sent, mailbox, worker, written, late, overtaken, shown>>
      /\ picker' \in {"starting", "Running", "Killing", "ended"}
      /\ kill' \in {"none", "commanded", "requested", "answered"}
      /\ picker' \in {"starting", "Running"} => picker \in {"starting", "Running"}
  BY DEF CommandKill, RequestKill, ConfirmKill, SessionListens, PickerStops,
         MessageInv, MessageTyped
<1> QED
  BY <1>1
  DEF MessageInv, MessageTyped, OwnMode, UnsentIsUnknown, ToldIsWritten, LateIsLeft,
             Posted, Working, ToBeWritten

LEMMA TakeStep ==
  ASSUME MessageInv, NEW mode \in Modes, TakeMessage(mode)
  PROVE  MessageInv' /\ \E m \in Messages, status \in Statuses : ShowsNext(m, status)
<1> DEFINE m == Head(mailbox[mode])
<1>1. /\ mailbox \in [Modes -> Seq(Messages)] /\ mailbox[mode] \in Seq(Messages)
      /\ mailbox[mode] # <<>> /\ shown \in [Messages -> Statuses]
      /\ worker \in [Modes -> Works] /\ "delivery-failed" \in Statuses
      /\ mailbox' = [mailbox EXCEPT ![mode] = Tail(mailbox[mode])]
      /\ UNCHANGED <<sent, picker, kill, written, late, overtaken>>
  BY DEF MessageInv, MessageTyped, TakeMessage, Statuses
<1>2. m \in Posted(mode) /\ m \in Messages
  BY <1>1 DEF Posted
<1>3. mailbox' \in [Modes -> Seq(Messages)] /\ \A o \in Modes : Posted(o)' \subseteq Posted(o)
  <2>1. Tail(mailbox[mode]) \in Seq(Messages) /\ mailbox'[mode] = Tail(mailbox[mode])
    BY <1>1
  <2>2. Posted(mode)' \subseteq Posted(mode)
    BY <1>1, <2>1 DEF Posted
  <2>3. \A o \in Modes : o # mode => Posted(o)' = Posted(o)
    BY <1>1 DEF Posted
  <2> QED BY <1>1, <2>1, <2>2, <2>3
<1>4. ModeOf[m] = mode /\ sent[m] # "none"
  BY <1>2 DEF MessageInv, OwnMode, UnsentIsUnknown
<1> HIDE DEF m
<1>5. CASE SessionRunning
  <2> DEFINE r == [msg |-> m, pc |-> "checked"]
  <2>1. worker' = [worker EXCEPT ![mode] = r] /\ UNCHANGED shown
    BY <1>5 DEF TakeMessage, m
  <2>2. r \in Works /\ r.msg = m /\ r.pc = "checked"
    BY <1>2 DEF Works
  <2> HIDE DEF r
  <2>3. /\ worker' \in [Modes -> Works] /\ worker'[mode] = r
        /\ \A o \in Modes : o # mode => worker'[o] = worker[o]
    BY <1>1, <2>1, <2>2
  <2>4. late = {}
    BY <1>5 DEF MessageInv, LateIsLeft, SessionRunning
  <2>5. MessageTyped'
    BY <1>1, <1>3, <2>1, <2>3 DEF MessageInv, MessageTyped
  <2>6. OwnMode'
    BY <1>2, <1>3, <1>4, <2>1, <2>2, <2>3 DEF MessageInv, OwnMode, Working
  <2>7. UnsentIsUnknown'
    BY <1>1, <1>2, <1>3, <1>4, <2>2, <2>3, ZenonT(60) DEF MessageInv, UnsentIsUnknown, Working
  <2>8. ToldIsWritten'
    BY <1>1, <2>1, <2>2, <2>3 DEF MessageInv, ToldIsWritten
  <2>9. LateIsLeft'
    BY <1>1, <2>4, <2>2, <2>3 DEF MessageInv, LateIsLeft, ToBeWritten
  <2>10. ShowsNext(m, "delivery-failed")
    <3>1. shown' = shown /\ shown[m] \in Statuses
      BY <1>1, <1>2, <2>1
    <3>2. StatusRank[shown[m]] \in 0..5
      BY <3>1, RanksAreNumbers
    <3> QED BY <1>1, <3>1, <3>2 DEF ShowsNext
  <2> QED BY <1>1, <1>2, <2>5, <2>6, <2>7, <2>8, <2>9, <2>10 DEF MessageInv
<1>6. CASE ~SessionRunning
  <2>1. Status(m, "delivery-failed") /\ UNCHANGED worker
    BY <1>6 DEF TakeMessage, m
  <2>2. ShowsNext(m, "delivery-failed")
    BY <1>1, <1>2, <2>1, StatusFacts
  <2>3. MessageTyped'
    BY <1>1, <1>3, <2>1, <2>2 DEF MessageInv, MessageTyped, ShowsNext
  <2>4. OwnMode'
    BY <1>2, <1>3, <2>1, <2>2 DEF MessageInv, OwnMode, Working, ShowsNext
  <2>5. UnsentIsUnknown'
    BY <1>1, <1>3, <2>1 DEF MessageInv, UnsentIsUnknown, Working
  <2>6. ToldIsWritten'
    BY <1>1, <1>2, <2>1, <2>2 DEF MessageInv, ToldIsWritten, ShowsNext
  <2>7. LateIsLeft'
    BY <1>1, <2>1 DEF MessageInv, LateIsLeft, ToBeWritten
  <2> QED BY <1>1, <1>2, <2>2, <2>3, <2>4, <2>5, <2>6, <2>7 DEF MessageInv
<1> QED BY <1>5, <1>6

\* What a worker has in hand goes on: it keeps its message or is done with it.
LEMMA WorkerMoves ==
  ASSUME MessageInv, NEW mode \in Modes, NEW r \in Works, Working(mode),
         worker' = [worker EXCEPT ![mode] = r],
         r.pc # "idle" => r.msg = worker[mode].msg,
         r.pc \in {"checked", "accepted"} => ToBeWritten(mode),
         UNCHANGED <<sent, mailbox, picker, kill, late, overtaken>>,
         NEW status \in Statuses, ShowsNext(worker[mode].msg, status),
         status = "delivered" => worker[mode].msg \in written',
         status # "queued",
         written \subseteq written', written' \subseteq written \union {worker[mode].msg},
         r.pc = "written" => worker[mode].msg \in written',
         worker[mode].msg \in late => written' = written
  PROVE  MessageInv'
<1> DEFINE m == worker[mode].msg
<1>1. m \in Messages /\ ModeOf[m] = mode /\ sent[m] # "none" /\ \A o \in Modes : Posted(o)' = Posted(o)
  BY DEF MessageInv, OwnMode, UnsentIsUnknown, Posted
<1>2. /\ worker' \in [Modes -> Works] /\ worker'[mode] = r
      /\ \A o \in Modes : o # mode => worker'[o] = worker[o]
  BY DEF MessageInv, MessageTyped
<1>3. MessageTyped'
  BY <1>1, <1>2 DEF MessageInv, MessageTyped, ShowsNext
<1>4. OwnMode'
  BY <1>1, <1>2 DEF MessageInv, OwnMode, Working, ShowsNext
<1>5. UnsentIsUnknown'
  BY <1>1, <1>2 DEF MessageInv, UnsentIsUnknown, Working
<1>6. ToldIsWritten'
  BY <1>1, <1>2 DEF MessageInv, ToldIsWritten, ShowsNext
<1>7. LateIsLeft'
  BY <1>1, <1>2 DEF MessageInv, LateIsLeft, ToBeWritten
<1> QED BY <1>3, <1>4, <1>5, <1>6, <1>7 DEF MessageInv

LEMMA WorkSteps ==
  ASSUME MessageInv, NEW mode \in Modes,
         \/ mode = "interrupt" /\ AcceptInterrupt
         \/ \E ok \in BOOLEAN : WriteMessage(mode, ok)
         \/ TellOutcome(mode)
  PROVE  MessageInv' /\ \E m \in Messages, status \in Statuses : ShowsNext(m, status)
<1> DEFINE m == worker[mode].msg
<1>1. /\ shown \in [Messages -> Statuses] /\ worker[mode] \in Works /\ NoWork \in Works
      /\ {"interrupt-accepted", "delivered", "delivery-failed"} \subseteq Statuses
  BY DEF MessageInv, MessageTyped, Statuses, NoWork, Works
<1>2. Working(mode) => m \in Messages
  BY DEF MessageInv, OwnMode
<1>3. CASE mode = "interrupt" /\ AcceptInterrupt
  <2> DEFINE r == [worker[mode] EXCEPT !.pc = "accepted"]
  <2>1. /\ worker[mode].pc = "checked" /\ worker' = [worker EXCEPT ![mode] = r]
        /\ Status(m, "interrupt-accepted")
        /\ UNCHANGED <<sent, mailbox, picker, kill, written, late, overtaken>>
    BY <1>3 DEF AcceptInterrupt
  <2>2. r \in Works /\ r.pc = "accepted" /\ r.msg = m
    BY <1>1 DEF Works
  <2> HIDE DEF r
  <2>3. Working(mode) /\ ToBeWritten(mode)
    BY <2>1 DEF Working, ToBeWritten
  <2>4. ShowsNext(m, "interrupt-accepted")
    BY <1>1, <1>2, <2>1, <2>3, StatusFacts
  <2> QED BY <1>1, <1>2, <2>1, <2>2, <2>3, <2>4, WorkerMoves
<1>4. ASSUME NEW ok \in BOOLEAN, WriteMessage(mode, ok)
      PROVE  MessageInv' /\ \E n \in Messages, status \in Statuses : ShowsNext(n, status)
  <2> DEFINE pc == IF ok THEN "written" ELSE "refused"
  <2> DEFINE r == [worker[mode] EXCEPT !.pc = pc]
  <2>1. /\ worker' = [worker EXCEPT ![mode] = r]
        /\ UNCHANGED <<sent, mailbox, picker, kill, late, overtaken, shown>>
        /\ written' = IF ok THEN written \union {m} ELSE written
    BY <1>4 DEF WriteMessage
  <2>2. worker[mode].pc \in {"checked", "accepted"}
    BY <1>4 DEF WriteMessage
  <2>3. Working(mode) /\ ToBeWritten(mode)
    BY <2>2 DEF Working, ToBeWritten
  <2>4. pc \in {"written", "refused"} /\ (pc = "written" => m \in written')
    BY <2>1
  <2> HIDE DEF pc
  <2>5. r \in Works /\ r.pc = pc /\ r.msg = m
    BY <1>1, <2>4 DEF Works
  <2> HIDE DEF r
  <2>6. ShowsNext(m, "delivery-failed")
    BY <1>1, <1>2, <2>1, <2>3, RanksAreNumbers DEF ShowsNext
  <2>7. m \notin late
    BY <2>3 DEF MessageInv, LateIsLeft
  <2>8. written \subseteq written' /\ written' \subseteq written \union {m}
    BY <2>1
  <2>9. MessageInv'
    BY <1>1, <2>1, <2>3, <2>4, <2>5, <2>6, <2>7, <2>8, WorkerMoves
  <2> QED BY <1>1, <1>2, <2>3, <2>6, <2>9
<1>5. CASE TellOutcome(mode)
  <2> DEFINE status == IF worker[mode].pc = "written" THEN "delivered" ELSE "delivery-failed"
  <2>1. /\ worker' = [worker EXCEPT ![mode] = NoWork] /\ Status(m, status)
        /\ UNCHANGED <<sent, mailbox, picker, kill, written, late, overtaken>>
        /\ Working(mode)
    BY <1>5 DEF TellOutcome, Working
  <2>2. status \in Statuses /\ status # "queued" /\ (status = "delivered" => m \in written)
    BY <1>1 DEF MessageInv, ToldIsWritten
  <2> HIDE DEF status
  <2>3. ShowsNext(m, status)
    BY <1>1, <1>2, <2>1, <2>2, StatusFacts
  <2>4. NoWork.pc = "idle"
    BY DEF NoWork
  <2> QED BY <1>1, <1>2, <2>1, <2>2, <2>3, <2>4, WorkerMoves
<1> QED BY <1>3, <1>4, <1>5

LEMMA MessageInitially == MessageInit => MessageInv
<1> SUFFICES ASSUME MessageInit PROVE MessageInv
  OBVIOUS
<1>1. NoWork \in Works /\ NoWork.pc = "idle"
  BY DEF NoWork, Works
<1>2. MessageTyped
  <2>1. mailbox \in [Modes -> Seq(Messages)] /\ worker \in [Modes -> Works]
    BY <1>1 DEF MessageInit
  <2> QED BY <2>1 DEF MessageInit, MessageTyped, Statuses
<1>3. \A mode \in Modes : worker[mode].pc = "idle" /\ Posted(mode) = {}
  BY <1>1 DEF MessageInit, Posted
<1> QED
  BY <1>2, <1>3
  DEF MessageInit, MessageInv, OwnMode, UnsentIsUnknown, ToldIsWritten, LateIsLeft,
                   Working, ToBeWritten

LEMMA MessageInductive ==
  MessageInv /\ [MessageNext]_messageVars =>
    /\ MessageInv'
    /\ \/ UNCHANGED shown
       \/ \E m \in Messages, status \in Statuses : ShowsNext(m, status)
<1> SUFFICES ASSUME MessageInv, [MessageNext]_messageVars
             PROVE  /\ MessageInv'
                    /\ \/ UNCHANGED shown
                       \/ \E m \in Messages, status \in Statuses : ShowsNext(m, status)
  OBVIOUS
<1>1. CASE UNCHANGED messageVars
  <2>1. UNCHANGED <<sent, mailbox, worker, picker, kill, written, late, overtaken, shown>>
    BY <1>1 DEF messageVars
  <2>2. MessageTyped' /\ ToldIsWritten'
    BY <2>1 DEF MessageInv, MessageTyped, ToldIsWritten
  <2>3. OwnMode' /\ UnsentIsUnknown'
    BY <2>1 DEF MessageInv, OwnMode, UnsentIsUnknown, Posted, Working
  <2>4. LateIsLeft'
    BY <2>1 DEF MessageInv, LateIsLeft, ToBeWritten
  <2> QED BY <2>1, <2>2, <2>3, <2>4 DEF MessageInv
<1>2. ASSUME NEW m \in Messages, PublishCommand(m)
      PROVE  MessageInv' /\ UNCHANGED shown
  BY <1>2, CommandStep DEF PublishCommand
<1>3. ASSUME NEW m \in Messages, PublishStatus(m) \/ Answered(m) \/ Timeout(m)
      PROVE  MessageInv' /\ \E status \in Statuses : ShowsNext(m, status)
  BY <1>3, UiSteps
<1>4. ASSUME NEW mode \in Modes, TakeMessage(mode)
      PROVE  MessageInv' /\ \E m \in Messages, status \in Statuses : ShowsNext(m, status)
  BY <1>4, TakeStep
<1>5. ASSUME NEW mode \in Modes,
             \/ mode = "interrupt" /\ AcceptInterrupt
             \/ \E ok \in BOOLEAN : WriteMessage(mode, ok)
             \/ TellOutcome(mode)
      PROVE  MessageInv' /\ \E m \in Messages, status \in Statuses : ShowsNext(m, status)
  BY <1>5, WorkSteps
<1>6. "interrupt" \in Modes
  BY DEF Modes
<1>7. CASE CommandKill \/ RequestKill \/ ConfirmKill \/ SessionListens \/ PickerStops
  BY <1>7, KillSteps
<1> QED BY <1>1, <1>2, <1>3, <1>4, <1>5, <1>6, <1>7 DEF MessageNext

\* Commands, workers and statuses keep their types, and a message its mode.
THEOREM MessageTypeCorrect == MessageSpec => []MessageTypeOK
<1>1. MessageInv => MessageTypeOK
  BY StatusRanks
  DEF MessageInv, MessageTyped, OwnMode, Working, Works, MessageTypeOK
<1> QED BY <1>1, MessageInitially, MessageInductive, PTL DEF MessageSpec

\* For any messages, modes and lost statuses: what the outbox calls delivered
\* was written to the Picker, and no message whose command came after the mark
\* of the kill, or after the end, is written (picker_session_running).
THEOREM MessageSafetyHolds == MessageSpec => []MessageSafety
<1>1. MessageInv => MessageSafety
  BY DEF MessageInv, ToldIsWritten, LateIsLeft, MessageSafety, DeliveredIsWritten,
         LateMessageRejected
<1> QED BY <1>1, MessageInitially, MessageInductive, PTL DEF MessageSpec

\* The outbox never shows less of a message than before, whatever order the
\* answer, the statuses and the timeout come in (upsertOutboxStatus).
THEOREM ShownOnlyGrowsHolds == MessageSpec => ShownOnlyGrows
<1>1. MessageInv /\ [MessageNext]_messageVars =>
        [\A m \in Messages : StatusRank[shown'[m]] >= StatusRank[shown[m]]]_messageVars
  <2> SUFFICES ASSUME MessageInv, [MessageNext]_messageVars, NEW m \in Messages
               PROVE  StatusRank[shown'[m]] >= StatusRank[shown[m]]
    OBVIOUS
  <2>1. shown[m] \in Statuses
    BY DEF MessageInv, MessageTyped
  <2>2. CASE UNCHANGED shown
    BY <2>1, <2>2, RanksAreNumbers
  <2>3. ASSUME NEW n \in Messages, NEW status \in Statuses, ShowsNext(n, status)
        PROVE  StatusRank[shown'[m]] >= StatusRank[shown[m]]
    BY <2>1, <2>3, RanksAreNumbers DEF ShowsNext
  <2> QED BY <2>2, <2>3, MessageInductive
<1> QED BY <1>1, MessageInitially, MessageInductive, PTL
        DEF MessageSpec, ShownOnlyGrows

-----------------------------------------------------------------------------
(* Output.  What holds of one session, then of the order in which sessions *)
(* use the worktree.                                                       *)

Grids(T) == [Sessions -> [Streams -> T]]

OutputTyped ==
  /\ process \in [Sessions -> {"none", "running", "ended"}]
  /\ pipe \in Grids(Nat) /\ emitted \in Grids(0..MaxLines) /\ number \in Grids(Nat)
  /\ reader \in Grids({"idle", "read", "marked", "numbered"})
  /\ sequence \in [Sessions -> Nat] /\ firsts \in [Sessions -> Nat]
  /\ first \in [Sessions -> BOOLEAN] /\ limited \in [Sessions -> BOOLEAN]
  /\ log \in [Sessions -> Seq(Nat)] /\ observed \in [Sessions -> Seq(Sessions)]
  /\ usage \in Seq(Sessions)
  /\ exit \in [Sessions -> {"waiting", "observed", "told", "done"}]
  /\ exhausted \subseteq Sessions

\* A line is in the pipe, with the reader, or done with.
Piped(s) ==
  \A c \in Streams :
    /\ pipe[s][c] <= emitted[s][c]
    /\ reader[s][c] # "idle" => pipe[s][c] < emitted[s][c]
    /\ emitted[s][c] > 0 => process[s] # "none"

\* Lines of a pipe that have a number.
Numbered(s, c) ==
  IF reader[s][c] \in {"read", "marked"}
  THEN emitted[s][c] - pipe[s][c] - 1 ELSE emitted[s][c] - pipe[s][c]

OutputCounted(s) ==
  /\ sequence[s] = Numbered(s, "stdout") + Numbered(s, "stderr")
  /\ \A c \in Streams : number[s][c] <= sequence[s]

FirstCounted(s) == firsts[s] = IF first[s] THEN 1 ELSE 0

Logged(s) == {log[s][i] : i \in 1..Len(log[s])}
Held(s) == {c \in Streams : reader[s][c] = "numbered"}

\* A number is logged or in the hands of one reader, and was given out once.
NumberedOnce(s) ==
  /\ \A i, j \in 1..Len(log[s]) : log[s][i] = log[s][j] => i = j
  /\ \A x \in Logged(s) : x < sequence[s]
  /\ \A c \in Held(s) : number[s][c] < sequence[s] /\ number[s][c] \notin Logged(s)
  /\ \A c, d \in Held(s) : number[s][c] = number[s][d] => c = d
  /\ \A x \in 0..(sequence[s] - 1) :
       x \in Logged(s) \/ \E c \in Held(s) : x = number[s][c]

LimitIsOwn(s) == limited[s] \/ s \in exhausted => emitted[s]["stderr"] > 0

SessionInv(s) ==
  Piped(s) /\ OutputCounted(s) /\ FirstCounted(s) /\ NumberedOnce(s) /\ LimitIsOwn(s)

\* A session is launched when the exits of all before it are told, and the
\* usage log has lines of launched sessions only.
InTurn ==
  /\ \A s \in Sessions : exit[s] # "waiting" => process[s] = "ended"
  /\ \A q, s \in Sessions : s < q /\ process[q] # "none" => exit[s] \in {"told", "done"}
  /\ \A i \in 1..Len(usage) : process[usage[i]] # "none"
  /\ \A s \in Sessions : \A i \in 1..Len(observed[s]) : observed[s][i] <= s

OutputInv == OutputTyped /\ (\A s \in Sessions : SessionInv(s)) /\ InTurn

LEMMA StreamsAre == Streams = {"stdout", "stderr"}
BY DEF Streams

\* Sessions are numbers.
LEMMA SessionsAre == Sessions \subseteq Nat
BY OutputAssumption DEF Sessions

\* A session nothing happens to.
LEMMA SessionRests ==
  ASSUME OutputInv, NEW s \in Sessions,
         process[s] # "none" => process'[s] # "none",
         UNCHANGED <<pipe[s], emitted[s], reader[s], number[s], sequence[s], first[s], firsts[s],
                     log[s], limited[s]>>,
         s \in exhausted' => s \in exhausted \/ limited[s]
  PROVE  SessionInv(s)'
<1>1. SessionInv(s)
  BY DEF OutputInv
<1>2. Piped(s)'
  BY <1>1 DEF SessionInv, Piped
<1>3. OutputCounted(s)' /\ FirstCounted(s)'
  BY <1>1 DEF SessionInv, OutputCounted, Numbered, FirstCounted
<1>4. NumberedOnce(s)'
  <2>1. Logged(s)' = Logged(s) /\ Held(s)' = Held(s)
    BY DEF Logged, Held
  <2> QED BY <1>1, <2>1 DEF SessionInv, NumberedOnce
<1>5. LimitIsOwn(s)'
  BY <1>1 DEF SessionInv, LimitIsOwn
<1> QED BY <1>2, <1>3, <1>4, <1>5 DEF SessionInv

LEMMA LaunchStep ==
  ASSUME OutputInv, NEW s \in Sessions, LaunchNext(s) \/ ProcessEnds(s)
  PROVE  OutputInv'
<1>1. UNCHANGED <<pipe, emitted, reader, number, sequence, first, firsts, log, limited, exit,
                  observed, exhausted>>
  BY DEF LaunchNext, ProcessEnds, reading, watching
<1>2. /\ process' \in [Sessions -> {"none", "running", "ended"}]
      /\ \A q \in Sessions : q # s => process'[q] = process[q]
      /\ process'[s] # "none" /\ (process[s] = "ended" => process'[s] = "ended")
      /\ usage' \in Seq(Sessions) /\ (usage' = <<>> \/ usage' = usage)
  <2>1. process \in [Sessions -> {"none", "running", "ended"}] /\ usage \in Seq(Sessions)
    BY DEF OutputInv, OutputTyped
  <2>2. CASE LaunchNext(s)
    BY <2>1, <2>2 DEF LaunchNext
  <2>3. CASE ProcessEnds(s)
    BY <2>1, <2>3 DEF ProcessEnds
  <2> QED BY <2>2, <2>3
<1>3. OutputTyped'
  BY <1>1, <1>2 DEF OutputInv, OutputTyped
<1>4. ASSUME NEW q \in Sessions PROVE SessionInv(q)'
  BY <1>1, <1>2, SessionRests
<1>5. InTurn'
  <2>1. ASSUME NEW r \in Sessions, r < s
        PROVE  exit[r] \in {"told", "done"}
    <3>1. CASE ProcessEnds(s)
      BY <2>1, <3>1 DEF ProcessEnds, OutputInv, InTurn
    <3>2. CASE LaunchNext(s)
      <4>1. s \in Nat /\ r \in Nat /\ s - 1 \in Sessions /\ s > 1
        BY <2>1, OutputAssumption DEF Sessions
      <4>2. exit[s - 1] \in {"told", "done"} /\ process[s - 1] = "ended"
        BY <3>2, <4>1 DEF LaunchNext, OutputInv, InTurn
      <4>3. CASE r = s - 1
        BY <4>2, <4>3
      <4>4. CASE r < s - 1
        BY <4>1, <4>2, <4>4 DEF OutputInv, InTurn
      <4> QED BY <2>1, <4>1, <4>3, <4>4
    <3> QED BY <3>1, <3>2
  <2>2. \A q, r \in Sessions : r < q /\ process'[q] # "none" => exit'[r] \in {"told", "done"}
    BY <1>1, <1>2, <2>1 DEF OutputInv, InTurn
  <2>3. \A q \in Sessions : exit'[q] # "waiting" => process'[q] = "ended"
    BY <1>1, <1>2 DEF OutputInv, InTurn
  <2>4. \A i \in 1..Len(usage') : process'[usage'[i]] # "none"
    <3>1. CASE usage' = <<>>
      BY <3>1
    <3>2. CASE usage' = usage
      <4>1. \A i \in 1..Len(usage) : usage[i] \in Sessions
        BY DEF OutputInv, OutputTyped
      <4> QED BY <1>2, <3>2, <4>1 DEF OutputInv, InTurn
    <3> QED BY <1>2, <3>1, <3>2
  <2> QED BY <1>1, <2>2, <2>3, <2>4 DEF OutputInv, InTurn
<1> QED BY <1>3, <1>4, <1>5 DEF OutputInv

\* The order of the sessions is no business of the readers.
LEMMA TurnsRest ==
  ASSUME OutputInv, UNCHANGED <<process, exit, observed>>,
         \/ UNCHANGED usage
         \/ \E s \in Sessions : process[s] # "none" /\ usage' = Append(usage, s)
  PROVE  InTurn' /\ usage' \in Seq(Sessions)
<1>1. usage \in Seq(Sessions)
  BY DEF OutputInv, OutputTyped
<1>2. CASE UNCHANGED usage
  BY <1>1, <1>2 DEF OutputInv, InTurn
<1>3. ASSUME NEW s \in Sessions, process[s] # "none", usage' = Append(usage, s)
      PROVE  InTurn' /\ usage' \in Seq(Sessions)
  <2>1. /\ usage' \in Seq(Sessions) /\ Len(usage) \in Nat /\ Len(usage') = Len(usage) + 1
        /\ \A i \in 1..Len(usage') : usage'[i] = IF i <= Len(usage) THEN usage[i] ELSE s
    BY <1>1, <1>3
  <2>2. \A i \in 1..Len(usage') : process[usage'[i]] # "none"
    BY <1>3, <2>1 DEF OutputInv, InTurn
  <2> QED BY <2>1, <2>2 DEF OutputInv, InTurn
<1> QED BY <1>2, <1>3

LEMMA WriteLineStep ==
  ASSUME OutputInv, NEW s \in Sessions, NEW c \in Streams, WriteLine(s, c)
  PROVE  OutputInv'
<1>1. /\ UNCHANGED <<process, reader, number, sequence, first, firsts, log, usage, limited, exit,
                     observed, exhausted>>
      /\ process[s] = "running" /\ emitted[s][c] < MaxLines
      /\ emitted' = [emitted EXCEPT ![s][c] = emitted[s][c] + 1]
      /\ pipe' = [pipe EXCEPT ![s][c] = pipe[s][c] + 1]
  BY DEF WriteLine, reading, watching, OutputInv, OutputTyped, Grids
<1>2. /\ emitted \in Grids(0..MaxLines) /\ pipe \in Grids(Nat) /\ MaxLines \in Nat
      /\ \A d \in Streams : emitted[s][d] \in 0..MaxLines /\ pipe[s][d] \in Nat
  BY OutputAssumption DEF OutputInv, OutputTyped, Grids
<1>3. emitted[s][c] + 1 \in 0..MaxLines /\ pipe[s][c] + 1 \in Nat
  BY <1>1, <1>2
<1>4. /\ emitted' \in Grids(0..MaxLines) /\ pipe' \in Grids(Nat)
      /\ emitted'[s][c] = emitted[s][c] + 1 /\ pipe'[s][c] = pipe[s][c] + 1
      /\ \A d \in Streams : d # c => emitted'[s][d] = emitted[s][d] /\ pipe'[s][d] = pipe[s][d]
      /\ \A q \in Sessions : q # s => emitted'[q] = emitted[q] /\ pipe'[q] = pipe[q]
  BY <1>1, <1>2, <1>3 DEF Grids
<1>5. OutputTyped'
  BY <1>1, <1>4 DEF OutputInv, OutputTyped
<1>6. SessionInv(s)
  BY DEF OutputInv
<1>7. SessionInv(s)'
  <2>1. Piped(s)'
    BY <1>1, <1>2, <1>4, <1>6 DEF SessionInv, Piped
  <2>2. OutputCounted(s)'
    <3>1. \A d \in Streams : Numbered(s, d)' = Numbered(s, d)
      BY <1>1, <1>2, <1>4 DEF Numbered
    <3> QED BY <1>1, <1>6, <3>1, StreamsAre DEF SessionInv, OutputCounted
  <2>3. NumberedOnce(s)' /\ FirstCounted(s)'
    BY <1>1, <1>6 DEF SessionInv, NumberedOnce, FirstCounted, Logged, Held
  <2>4. LimitIsOwn(s)'
    BY <1>1, <1>2, <1>4, <1>6, StreamsAre DEF SessionInv, LimitIsOwn
  <2> QED BY <2>1, <2>2, <2>3, <2>4 DEF SessionInv
<1>8. ASSUME NEW q \in Sessions, q # s PROVE SessionInv(q)'
  BY <1>1, <1>4, <1>8, SessionRests
<1> QED BY <1>1, <1>5, <1>7, <1>8, TurnsRest DEF OutputInv

LEMMA ReadLineStep ==
  ASSUME OutputInv, NEW s \in Sessions, NEW c \in Streams, ReadLine(s, c)
  PROVE  OutputInv'
<1>1. /\ UNCHANGED <<process, emitted, number, sequence, first, firsts, log, limited, exit,
                     observed, exhausted>>
      /\ reader[s][c] = "idle" /\ pipe[s][c] > 0
      /\ pipe' = [pipe EXCEPT ![s][c] = pipe[s][c] - 1]
      /\ reader' = [reader EXCEPT ![s][c] = "read"]
      /\ usage' = usage \/ usage' = Append(usage, s)
  BY DEF ReadLine, GoesTo, watching, OutputInv, OutputTyped, Grids
<1>2. /\ emitted \in Grids(0..MaxLines) /\ pipe \in Grids(Nat) /\ MaxLines \in Nat
      /\ reader \in Grids({"idle", "read", "marked", "numbered"})
      /\ \A d \in Streams : emitted[s][d] \in 0..MaxLines /\ pipe[s][d] \in Nat
  BY OutputAssumption DEF OutputInv, OutputTyped, Grids
<1>3. pipe[s][c] - 1 \in Nat
  BY <1>1, <1>2
<1>4. /\ reader' \in Grids({"idle", "read", "marked", "numbered"}) /\ pipe' \in Grids(Nat)
      /\ reader'[s][c] = "read" /\ pipe'[s][c] = pipe[s][c] - 1
      /\ \A d \in Streams : d # c => reader'[s][d] = reader[s][d] /\ pipe'[s][d] = pipe[s][d]
      /\ \A q \in Sessions : q # s => reader'[q] = reader[q] /\ pipe'[q] = pipe[q]
  BY <1>1, <1>2, <1>3 DEF Grids
<1>5. SessionInv(s)
  BY DEF OutputInv
<1>6. SessionInv(s)'
  <2>1. Piped(s)'
    BY <1>1, <1>2, <1>4, <1>5 DEF SessionInv, Piped
  <2>2. OutputCounted(s)'
    BY <1>1, <1>2, <1>4, <1>5, StreamsAre, SMTT(40) DEF SessionInv, OutputCounted, Numbered
  <2>3. Held(s)' = Held(s) /\ Logged(s)' = Logged(s)
    BY <1>1, <1>4 DEF Held, Logged
  <2>4. NumberedOnce(s)' /\ FirstCounted(s)' /\ LimitIsOwn(s)'
    BY <1>1, <1>5, <2>3 DEF SessionInv, NumberedOnce, FirstCounted, LimitIsOwn
  <2> QED BY <2>1, <2>2, <2>4 DEF SessionInv
<1>7. ASSUME NEW q \in Sessions, q # s PROVE SessionInv(q)'
  BY <1>1, <1>4, <1>7, SessionRests
<1>8. process[s] # "none"
  BY <1>1, <1>2, <1>5 DEF SessionInv, Piped
<1>9. InTurn' /\ usage' \in Seq(Sessions)
  BY <1>1, <1>8, TurnsRest
<1>10. OutputTyped'
  BY <1>1, <1>4, <1>9 DEF OutputInv, OutputTyped
<1> QED BY <1>6, <1>7, <1>9, <1>10 DEF OutputInv

\* The steps of a reader with its line.
LEMMA ReaderMoves ==
  ASSUME OutputInv, NEW s \in Sessions, NEW c \in Streams,
         NEW from \in {"read", "marked", "numbered"},
         NEW to \in {"idle", "marked", "numbered"},
         reader[s][c] = from, GoesTo(s, c, to)
  PROVE  /\ reader' \in Grids({"idle", "read", "marked", "numbered"}) /\ reader'[s][c] = to
         /\ \A d \in Streams : d # c => reader'[s][d] = reader[s][d]
         /\ \A q \in Sessions : q # s => reader'[q] = reader[q]
<1>1. reader \in Grids({"idle", "read", "marked", "numbered"})
  BY DEF OutputInv, OutputTyped
<1>2. to \in {"idle", "read", "marked", "numbered"}
  OBVIOUS
<1> QED BY <1>1, <1>2 DEF GoesTo, Grids

LEMMA FirstOutputStep ==
  ASSUME OutputInv, NEW s \in Sessions, NEW c \in Streams, FirstOutput(s, c)
  PROVE  OutputInv'
<1>1. /\ UNCHANGED <<process, pipe, emitted, number, sequence, log, usage, limited, exit,
                     observed, exhausted>>
      /\ reader[s][c] = "read" /\ GoesTo(s, c, "marked")
      /\ firsts' = IF first[s] THEN firsts ELSE [firsts EXCEPT ![s] = firsts[s] + 1]
      /\ first' = [first EXCEPT ![s] = TRUE]
  BY DEF FirstOutput, watching, writing, OutputInv, OutputTyped
<1>2. /\ reader' \in Grids({"idle", "read", "marked", "numbered"}) /\ reader'[s][c] = "marked"
      /\ \A d \in Streams : d # c => reader'[s][d] = reader[s][d]
      /\ \A q \in Sessions : q # s => reader'[q] = reader[q]
  BY <1>1, ReaderMoves
<1>3. SessionInv(s)
  BY DEF OutputInv
<1>4. /\ firsts' \in [Sessions -> Nat] /\ first' \in [Sessions -> BOOLEAN]
      /\ firsts'[s] = 1 /\ first'[s]
      /\ \A q \in Sessions : q # s => firsts'[q] = firsts[q] /\ first'[q] = first[q]
  <2>1. firsts \in [Sessions -> Nat] /\ first \in [Sessions -> BOOLEAN]
    BY DEF OutputInv, OutputTyped
  <2>2. CASE first[s]
    BY <1>1, <1>3, <2>1, <2>2 DEF SessionInv, FirstCounted
  <2>3. CASE ~first[s]
    BY <1>1, <1>3, <2>1, <2>3 DEF SessionInv, FirstCounted
  <2> QED BY <2>2, <2>3
<1>5. SessionInv(s)'
  <2>1. Piped(s)'
    BY <1>1, <1>2, <1>3 DEF SessionInv, Piped
  <2>2. OutputCounted(s)'
    BY <1>1, <1>2, <1>3, StreamsAre DEF SessionInv, OutputCounted, Numbered
  <2>3. Held(s)' = Held(s) /\ Logged(s)' = Logged(s)
    BY <1>1, <1>2 DEF Held, Logged
  <2>4. NumberedOnce(s)' /\ LimitIsOwn(s)'
    BY <1>1, <1>3, <2>3 DEF SessionInv, NumberedOnce, LimitIsOwn
  <2>5. FirstCounted(s)'
    BY <1>4 DEF FirstCounted
  <2> QED BY <2>1, <2>2, <2>4, <2>5 DEF SessionInv
<1>6. ASSUME NEW q \in Sessions, q # s PROVE SessionInv(q)'
  BY <1>1, <1>2, <1>4, <1>6, SessionRests
<1>7. OutputTyped'
  BY <1>1, <1>2, <1>4 DEF OutputInv, OutputTyped
<1> QED BY <1>1, <1>5, <1>6, <1>7, TurnsRest DEF OutputInv

LEMMA NumberLineStep ==
  ASSUME OutputInv, NEW s \in Sessions, NEW c \in Streams, NumberLine(s, c)
  PROVE  OutputInv'
<1>1. /\ UNCHANGED <<process, pipe, emitted, first, firsts, log, usage, exit, observed, exhausted>>
      /\ reader[s][c] = "marked" /\ GoesTo(s, c, "numbered")
      /\ number' = [number EXCEPT ![s][c] = sequence[s]]
      /\ sequence' = [sequence EXCEPT ![s] = sequence[s] + 1]
      /\ limited' = [limited EXCEPT ![s] = limited[s] \/ c = "stderr"]
  BY DEF NumberLine, watching, writing, OutputInv, OutputTyped
<1>2. /\ reader' \in Grids({"idle", "read", "marked", "numbered"}) /\ reader'[s][c] = "numbered"
      /\ \A d \in Streams : d # c => reader'[s][d] = reader[s][d]
      /\ \A q \in Sessions : q # s => reader'[q] = reader[q]
  BY <1>1, ReaderMoves
<1>3. SessionInv(s)
  BY DEF OutputInv
<1>4. /\ number \in Grids(Nat) /\ sequence \in [Sessions -> Nat] /\ sequence[s] \in Nat
      /\ limited \in [Sessions -> BOOLEAN]
      /\ \A d \in Streams : emitted[s][d] \in Nat /\ pipe[s][d] \in Nat /\ number[s][d] \in Nat
  BY OutputAssumption DEF OutputInv, OutputTyped, Grids
<1>5. /\ number' \in Grids(Nat) /\ number'[s][c] = sequence[s]
      /\ \A d \in Streams : d # c => number'[s][d] = number[s][d]
      /\ \A q \in Sessions : q # s => number'[q] = number[q]
  BY <1>1, <1>4 DEF Grids
<1>6. /\ sequence' \in [Sessions -> Nat] /\ sequence'[s] = sequence[s] + 1
      /\ \A q \in Sessions : q # s => sequence'[q] = sequence[q]
  BY <1>1, <1>4
<1>7. /\ limited' \in [Sessions -> BOOLEAN]
      /\ limited'[s] => limited[s] \/ c = "stderr"
      /\ \A q \in Sessions : q # s => limited'[q] = limited[q]
  BY <1>1, <1>4
<1>8. SessionInv(s)'
  <2>1. Piped(s)'
    BY <1>1, <1>2, <1>3 DEF SessionInv, Piped
  <2>2. OutputCounted(s)'
    BY <1>1, <1>2, <1>3, <1>4, <1>6, StreamsAre DEF SessionInv, OutputCounted, Numbered
  <2>3. Held(s)' = Held(s) \union {c} /\ c \notin Held(s) /\ Logged(s)' = Logged(s)
    BY <1>1, <1>2 DEF Held, Logged
  <2>4. NumberedOnce(s)'
    <3>1. \A i, j \in 1..Len(log'[s]) : log'[s][i] = log'[s][j] => i = j
      BY <1>1, <1>3 DEF SessionInv, NumberedOnce
    <3>2. Held(s) \subseteq Streams /\ Logged(s) \subseteq Nat
      BY DEF Held, Logged, OutputInv, OutputTyped
    <3>3. \A x \in Logged(s)' : x < sequence'[s]
      BY <1>3, <1>4, <1>6, <2>3, <3>2 DEF SessionInv, NumberedOnce
    <3>4. \A d \in Held(s)' : number'[s][d] < sequence'[s] /\ number'[s][d] \notin Logged(s)'
      BY <1>3, <1>4, <1>5, <1>6, <2>3, <3>2 DEF SessionInv, NumberedOnce
    <3>5. \A d, e \in Held(s)' : number'[s][d] = number'[s][e] => d = e
      BY <1>3, <1>4, <1>5, <2>3, <3>2 DEF SessionInv, NumberedOnce
    <3>6. \A x \in 0..(sequence'[s] - 1) :
            x \in Logged(s)' \/ \E d \in Held(s)' : x = number'[s][d]
      <4> TAKE x \in 0..(sequence'[s] - 1)
      <4>1. CASE x = sequence[s]
        BY <1>5, <2>3, <4>1
      <4>2. CASE x # sequence[s]
        <5>1. x \in 0..(sequence[s] - 1)
          BY <1>4, <1>6, <4>2
        <5>2. CASE x \in Logged(s)
          BY <2>3, <5>2
        <5>3. ASSUME NEW d \in Held(s), x = number[s][d]
              PROVE  \E e \in Held(s)' : x = number'[s][e]
          BY <1>5, <2>3, <3>2, <5>3
        <5> QED BY <1>3, <5>1, <5>2, <5>3 DEF SessionInv, NumberedOnce
      <4> QED BY <4>1, <4>2
    <3> QED BY <3>1, <3>3, <3>4, <3>5, <3>6 DEF NumberedOnce
  <2>5. emitted[s][c] > 0
    BY <1>1, <1>3, <1>4 DEF SessionInv, Piped
  <2>6. LimitIsOwn(s)' /\ FirstCounted(s)'
    BY <1>1, <1>3, <1>7, <2>5 DEF SessionInv, LimitIsOwn, FirstCounted
  <2> QED BY <2>1, <2>2, <2>4, <2>6 DEF SessionInv
<1>9. ASSUME NEW q \in Sessions, q # s PROVE SessionInv(q)'
  BY <1>1, <1>2, <1>5, <1>6, <1>7, <1>9, SessionRests
<1>10. OutputTyped'
  BY <1>1, <1>2, <1>5, <1>6, <1>7 DEF OutputInv, OutputTyped
<1> QED BY <1>1, <1>8, <1>9, <1>10, TurnsRest DEF OutputInv

LEMMA AppendLineStep ==
  ASSUME OutputInv, NEW s \in Sessions, NEW c \in Streams, AppendLine(s, c)
  PROVE  OutputInv'
<1>1. /\ UNCHANGED <<process, pipe, emitted, number, sequence, first, firsts, usage, limited,
                     exit, observed, exhausted>>
      /\ reader[s][c] = "numbered" /\ GoesTo(s, c, "idle")
      /\ log' = [log EXCEPT ![s] = Append(log[s], number[s][c])]
  BY DEF AppendLine, watching, writing, OutputInv, OutputTyped
<1>2. /\ reader' \in Grids({"idle", "read", "marked", "numbered"}) /\ reader'[s][c] = "idle"
      /\ \A d \in Streams : d # c => reader'[s][d] = reader[s][d]
      /\ \A q \in Sessions : q # s => reader'[q] = reader[q]
  BY <1>1, ReaderMoves
<1>3. SessionInv(s)
  BY DEF OutputInv
<1>4. /\ log \in [Sessions -> Seq(Nat)] /\ log[s] \in Seq(Nat) /\ number[s][c] \in Nat
      /\ sequence[s] \in Nat
  BY DEF OutputInv, OutputTyped, Grids
<1> DEFINE n == number[s][c]
<1> DEFINE k == Len(log[s])
<1>5. /\ Append(log[s], n) \in Seq(Nat) /\ k \in Nat /\ Len(Append(log[s], n)) = k + 1
      /\ \A i \in 1..(k + 1) : Append(log[s], n)[i] = IF i <= k THEN log[s][i] ELSE n
  BY <1>4
<1>6. /\ log' \in [Sessions -> Seq(Nat)] /\ Len(log'[s]) = k + 1
      /\ \A i \in 1..(k + 1) : log'[s][i] = IF i <= k THEN log[s][i] ELSE n
      /\ \A q \in Sessions : q # s => log'[q] = log[q]
  BY <1>1, <1>4, <1>5
<1>7. /\ Held(s)' = Held(s) \ {c} /\ c \in Held(s) /\ Logged(s)' = Logged(s) \union {n}
  <2>0. k \in Nat /\ \A i \in 1..(k + 1) : log'[s][i] = IF i <= k THEN log[s][i] ELSE n
    BY <1>5, <1>6
  <2>1. Logged(s)' = {log'[s][i] : i \in 1..(k + 1)}
    BY <1>6 DEF Logged
  <2> HIDE DEF k, n
  <2>2. Logged(s)' \subseteq Logged(s) \union {n}
    <3> SUFFICES ASSUME NEW i \in 1..(k + 1) PROVE log'[s][i] \in Logged(s) \union {n}
      BY <2>1
    <3>1. CASE i <= k
      <4>1. i \in 1..k
        BY <2>0, <3>1
      <4>2. log'[s][i] = log[s][i]
        BY <2>0, <3>1
      <4> QED BY <4>1, <4>2 DEF Logged, k
    <3>2. CASE ~(i <= k)
      BY <1>6, <3>2
    <3> QED BY <3>1, <3>2
  <2>3. Logged(s) \subseteq Logged(s)'
    <3> SUFFICES ASSUME NEW i \in 1..k PROVE log[s][i] \in Logged(s)'
      BY DEF Logged, k
    <3>1. i \in 1..(k + 1) /\ i <= k
      BY <2>0
    <3>2. log'[s][i] = log[s][i]
      BY <2>0, <3>1
    <3> QED BY <2>1, <3>1, <3>2
  <2>4. n \in Logged(s)'
    <3>1. k + 1 \in 1..(k + 1) /\ ~(k + 1 <= k)
      BY <1>5
    <3>2. log'[s][k + 1] = n
      BY <1>6, <3>1
    <3> QED BY <2>1, <3>1, <3>2
  <2>5. Held(s)' = Held(s) \ {c} /\ c \in Held(s)
    BY <1>1, <1>2 DEF Held
  <2> QED BY <2>2, <2>3, <2>4, <2>5
<1>8. n < sequence[s] /\ n \notin Logged(s)
  BY <1>3, <1>7 DEF SessionInv, NumberedOnce
<1>9. NumberedOnce(s)'
  <2>1. \A i, j \in 1..Len(log'[s]) : log'[s][i] = log'[s][j] => i = j
    <3>1. \A i \in 1..k : log[s][i] # n
      BY <1>8 DEF Logged
    <3>2. \A i, j \in 1..k : log[s][i] = log[s][j] => i = j
      BY <1>3 DEF SessionInv, NumberedOnce
    <3>3. \A i \in 1..(k + 1) : i <= k => i \in 1..k
      BY <1>5
    <3>4. \A i \in 1..(k + 1) : ~(i <= k) => i = k + 1
      BY <1>5
    <3> SUFFICES ASSUME NEW i \in 1..(k + 1), NEW j \in 1..(k + 1), log'[s][i] = log'[s][j]
                 PROVE  i = j
      BY <1>6
    <3>5. CASE i <= k /\ j <= k
      BY <1>6, <3>2, <3>3, <3>5
    <3>6. CASE i <= k /\ ~(j <= k)
      BY <1>6, <3>1, <3>3, <3>6
    <3>7. CASE ~(i <= k) /\ j <= k
      BY <1>6, <3>1, <3>3, <3>7
    <3>8. CASE ~(i <= k) /\ ~(j <= k)
      BY <3>4, <3>8
    <3> QED BY <3>5, <3>6, <3>7, <3>8
  <2>2. \A x \in Logged(s)' : x < sequence'[s]
    BY <1>1, <1>3, <1>7, <1>8 DEF SessionInv, NumberedOnce
  <2>3. \A d \in Held(s)' : number'[s][d] < sequence'[s] /\ number'[s][d] \notin Logged(s)'
    BY <1>1, <1>3, <1>7 DEF SessionInv, NumberedOnce
  <2>4. \A d, e \in Held(s)' : number'[s][d] = number'[s][e] => d = e
    BY <1>1, <1>3, <1>7 DEF SessionInv, NumberedOnce
  <2>5. \A x \in 0..(sequence'[s] - 1) :
          x \in Logged(s)' \/ \E d \in Held(s)' : x = number'[s][d]
    BY <1>1, <1>3, <1>7 DEF SessionInv, NumberedOnce
  <2> QED BY <2>1, <2>2, <2>3, <2>4, <2>5 DEF NumberedOnce
<1> HIDE DEF n, k
<1>10. SessionInv(s)'
  <2>1. Piped(s)'
    BY <1>1, <1>2, <1>3 DEF SessionInv, Piped
  <2>2. OutputCounted(s)'
    BY <1>1, <1>2, <1>3, StreamsAre DEF SessionInv, OutputCounted, Numbered
  <2>3. LimitIsOwn(s)' /\ FirstCounted(s)'
    BY <1>1, <1>3 DEF SessionInv, LimitIsOwn, FirstCounted
  <2> QED BY <1>9, <2>1, <2>2, <2>3 DEF SessionInv
<1>11. ASSUME NEW q \in Sessions, q # s PROVE SessionInv(q)'
  BY <1>1, <1>2, <1>6, <1>11, SessionRests
<1>12. OutputTyped'
  BY <1>1, <1>2, <1>6 DEF OutputInv, OutputTyped
<1> QED BY <1>1, <1>10, <1>11, <1>12, TurnsRest DEF OutputInv

LEMMA ExitSteps ==
  ASSUME OutputInv, NEW s \in Sessions,
         ReadUsage(s) \/ TellExit(s) \/ \E code \in {0, 1} : TellQuota(s, code)
  PROVE  OutputInv'
<1>1. UNCHANGED <<process, pipe, emitted, reader, number, sequence, first, firsts, log, usage,
                  limited>>
  BY DEF ReadUsage, TellExit, TellQuota, reading, writing
<1>2. /\ exit' \in [Sessions -> {"waiting", "observed", "told", "done"}]
      /\ \A q \in Sessions : q # s => exit'[q] = exit[q]
      /\ exit'[s] # "waiting"
      /\ exit[s] \in {"told", "done"} => exit'[s] \in {"told", "done"}
      /\ process[s] = "ended"
  <2>1. exit \in [Sessions -> {"waiting", "observed", "told", "done"}]
    BY DEF OutputInv, OutputTyped
  <2>2. exit[s] # "waiting" => process[s] = "ended"
    BY DEF OutputInv, InTurn
  <2> QED BY <2>1, <2>2 DEF ReadUsage, TellExit, TellQuota
<1>3. exhausted' \subseteq Sessions /\ \A q \in exhausted' : q \in exhausted \/ limited[q]
  BY DEF ReadUsage, TellExit, TellQuota, OutputInv, OutputTyped
<1>4. /\ observed' \in [Sessions -> Seq(Sessions)]
      /\ \A q \in Sessions : \A i \in 1..Len(observed'[q]) : observed'[q][i] <= q
  <2>1. CASE UNCHANGED observed
    BY <2>1 DEF OutputInv, OutputTyped, InTurn
  <2>2. CASE ReadUsage(s)
    <3>1. /\ observed' = [observed EXCEPT ![s] = usage] /\ exit[s] = "waiting"
          /\ usage \in Seq(Sessions) /\ observed \in [Sessions -> Seq(Sessions)]
      BY <2>2 DEF ReadUsage, OutputInv, OutputTyped
    <3>2. ASSUME NEW i \in 1..Len(usage) PROVE usage[i] <= s
      <4>1. usage[i] \in Sessions /\ process[usage[i]] # "none"
        BY <3>1 DEF OutputInv, InTurn
      <4>2. ~(s < usage[i])
        BY <3>1, <4>1 DEF OutputInv, InTurn
      <4>3. s \in Nat /\ usage[i] \in Nat
        BY <4>1, SessionsAre
      <4> QED BY <4>2, <4>3
    <3> QED BY <3>1, <3>2 DEF OutputInv, InTurn
  <2> QED BY <2>1, <2>2 DEF ReadUsage, TellExit, TellQuota
<1>5. OutputTyped'
  BY <1>1, <1>2, <1>3, <1>4 DEF OutputInv, OutputTyped
<1>6. ASSUME NEW q \in Sessions PROVE SessionInv(q)'
  BY <1>1, <1>3, SessionRests
<1>7. InTurn'
  BY <1>1, <1>2, <1>4 DEF OutputInv, InTurn
<1> QED BY <1>5, <1>6, <1>7 DEF OutputInv

LEMMA OutputInitially == OutputInit => OutputInv
<1> SUFFICES ASSUME OutputInit PROVE OutputInv
  OBVIOUS
<1>1. MaxLines \in Nat
  BY OutputAssumption
<1>2. \A s \in Sessions :
        /\ process[s] = "none" /\ sequence[s] = 0 /\ firsts[s] = 0 /\ ~first[s] /\ ~limited[s]
        /\ log[s] = <<>> /\ observed[s] = <<>> /\ exit[s] = "waiting"
        /\ \A c \in Streams : /\ pipe[s][c] = 0 /\ emitted[s][c] = 0 /\ number[s][c] = 0
                              /\ reader[s][c] = "idle"
  BY DEF OutputInit
<1>3. OutputTyped
  BY <1>1 DEF OutputInit, OutputTyped, Grids
<1>4. ASSUME NEW s \in Sessions PROVE SessionInv(s)
  <2>1. Piped(s) /\ OutputCounted(s) /\ FirstCounted(s)
    BY <1>2, StreamsAre DEF Piped, OutputCounted, Numbered, FirstCounted
  <2>2. Logged(s) = {} /\ Held(s) = {} /\ Len(log[s]) = 0
    BY <1>2 DEF Logged, Held
  <2>3. NumberedOnce(s)
    BY <1>2, <2>2 DEF NumberedOnce
  <2>4. LimitIsOwn(s)
    BY <1>2 DEF LimitIsOwn, OutputInit
  <2> QED BY <2>1, <2>3, <2>4 DEF SessionInv
<1>5. InTurn
  BY <1>2 DEF InTurn, OutputInit
<1> QED BY <1>3, <1>4, <1>5 DEF OutputInv

LEMMA OutputInductive == OutputInv /\ [OutputNext]_outputVars => OutputInv'
<1> SUFFICES ASSUME OutputInv, [OutputNext]_outputVars PROVE OutputInv'
  OBVIOUS
<1>1. CASE UNCHANGED outputVars
  <2>1. UNCHANGED <<process, pipe, emitted, reader, number, sequence, first, firsts, log, usage,
                    limited, exit, observed, exhausted>>
    BY <1>1 DEF outputVars
  <2>2. \A s \in Sessions : SessionInv(s)'
    BY <2>1, SessionRests
  <2>3. OutputTyped'
    BY <2>1 DEF OutputInv, OutputTyped
  <2> QED BY <2>1, <2>2, <2>3, TurnsRest DEF OutputInv
<1>2. ASSUME NEW s \in Sessions, LaunchNext(s) \/ ProcessEnds(s)
      PROVE  OutputInv'
  BY <1>2, LaunchStep
<1>3. ASSUME NEW s \in Sessions,
             ReadUsage(s) \/ TellExit(s) \/ \E code \in {0, 1} : TellQuota(s, code)
      PROVE  OutputInv'
  BY <1>3, ExitSteps
<1>4. ASSUME NEW s \in Sessions, NEW c \in Streams,
             \/ WriteLine(s, c) \/ ReadLine(s, c) \/ FirstOutput(s, c)
             \/ NumberLine(s, c) \/ AppendLine(s, c)
      PROVE  OutputInv'
  BY <1>4, WriteLineStep, ReadLineStep, FirstOutputStep, NumberLineStep,
     AppendLineStep
<1> QED BY <1>1, <1>2, <1>3, <1>4 DEF OutputNext

\* Pipes, numbers, logs and exits keep their types and bounds, for any number
\* of sessions and lines.
THEOREM OutputTypeCorrect == OutputSpec => []OutputTypeOK
<1>1. OutputInv => OutputTypeOK
  <2> SUFFICES ASSUME OutputInv PROVE OutputTypeOK
    OBVIOUS
  <2>1. MaxLines \in Nat
    BY OutputAssumption
  <2>2. \A s \in Sessions : \A c \in Streams :
          /\ emitted[s][c] \in 0..MaxLines /\ pipe[s][c] \in Nat /\ pipe[s][c] <= emitted[s][c]
    BY DEF OutputInv, OutputTyped, Grids, SessionInv, Piped
  <2>3. ASSUME NEW s \in Sessions PROVE sequence[s] \in 0..(2 * MaxLines)
    <3>1. sequence[s] = Numbered(s, "stdout") + Numbered(s, "stderr") /\ sequence[s] \in Nat
      BY DEF OutputInv, OutputTyped, SessionInv, OutputCounted
    <3>2. \A c \in Streams : Numbered(s, c) \in Int /\ Numbered(s, c) <= MaxLines
      BY <2>1, <2>2 DEF Numbered
    <3> QED BY <2>1, <3>1, <3>2, StreamsAre
  <2>4. sequence \in [Sessions -> 0..(2 * MaxLines)]
    BY <2>3 DEF OutputInv, OutputTyped
  <2>5. \A s \in Sessions : \A c \in Streams : number[s][c] \in 0..(2 * MaxLines)
    BY <2>1, <2>3 DEF OutputInv, OutputTyped, Grids, SessionInv, OutputCounted
  <2>6. {pipe, emitted, number} \subseteq [Sessions -> [Streams -> 0..(2 * MaxLines)]]
    <3>1. \A s \in Sessions : \A c \in Streams :
            /\ pipe[s][c] \in 0..(2 * MaxLines) /\ emitted[s][c] \in 0..(2 * MaxLines)
      BY <2>1, <2>2
    <3>2. pipe \in [Sessions -> [Streams -> 0..(2 * MaxLines)]]
      BY <3>1 DEF OutputInv, OutputTyped, Grids
    <3>3. emitted \in [Sessions -> [Streams -> 0..(2 * MaxLines)]]
      BY <3>1 DEF OutputInv, OutputTyped, Grids
    <3>4. number \in [Sessions -> [Streams -> 0..(2 * MaxLines)]]
      BY <2>5 DEF OutputInv, OutputTyped, Grids
    <3> QED BY <3>2, <3>3, <3>4
  <2>7. \A s \in Sessions : firsts[s] > 0 => first[s]
    BY DEF OutputInv, SessionInv, FirstCounted
  <2>8. ASSUME NEW s \in Sessions PROVE Range(log[s]) \subseteq 0..(2 * MaxLines)
    <3>1. log[s] \in Seq(Nat) /\ Range(log[s]) = Logged(s)
      BY DEF OutputInv, OutputTyped, Range, Logged
    <3>2. \A x \in Logged(s) : x \in Nat /\ x < sequence[s]
      BY <3>1 DEF OutputInv, SessionInv, NumberedOnce, Logged
    <3> QED BY <2>1, <2>3, <3>1, <3>2
  <2>9. Range(usage) \subseteq Sessions
    BY DEF OutputInv, OutputTyped, Range
  <2> QED BY <2>4, <2>6, <2>7, <2>8, <2>9
          DEF OutputInv, OutputTyped, Grids, OutputTypeOK
<1> QED BY <1>1, OutputInitially, OutputInductive, PTL DEF OutputSpec

\* For any number of sessions in one worktree, however the readers of the two
\* pipes interleave: the first output is told once, no line's number is given
\* twice or missing, no session's usage is read from lines of its continuation,
\* and quota.exhausted is told only of a session that met a limit
\* (spawn_picker_output_reader, watch_picker_exit).
THEOREM OutputSafetyHolds == OutputSpec => []OutputSafety
<1>1. OutputInv => OutputSafety
  <2> SUFFICES ASSUME OutputInv PROVE OutputSafety
    OBVIOUS
  <2>1. FirstOutputOnce
    BY DEF OutputInv, SessionInv, FirstCounted, FirstOutputOnce
  <2>2. NumbersUnique
    <3> SUFFICES ASSUME NEW s \in Sessions
                 PROVE  /\ IsInjective(log[s])
                        /\ Range(log[s]) \union {number[s][c] : c \in Held(s)}
                             = 0..(sequence[s] - 1)
      BY DEF NumbersUnique, Held
    <3>1. /\ log[s] \in Seq(Nat) /\ DOMAIN log[s] = 1..Len(log[s]) /\ Range(log[s]) = Logged(s)
          /\ sequence[s] \in Nat
      BY DEF OutputInv, OutputTyped, Range, Logged
    <3>2. NumberedOnce(s)
      BY DEF OutputInv, SessionInv
    <3>3. IsInjective(log[s])
      BY <3>1, <3>2 DEF NumberedOnce, IsInjective
    <3>4. Logged(s) \subseteq Nat /\ \A c \in Held(s) : number[s][c] \in Nat
      BY <3>1 DEF Logged, Held, OutputInv, OutputTyped, Grids
    <3>5. Logged(s) \union {number[s][c] : c \in Held(s)} \subseteq 0..(sequence[s] - 1)
      BY <3>1, <3>2, <3>4 DEF NumberedOnce
    <3>6. 0..(sequence[s] - 1) \subseteq Logged(s) \union {number[s][c] : c \in Held(s)}
      BY <3>2 DEF NumberedOnce
    <3> QED BY <3>1, <3>3, <3>5, <3>6
  <2>3. UsageNotOfNext
    <3>1. \A s \in Sessions : DOMAIN observed[s] = 1..Len(observed[s])
      BY DEF OutputInv, OutputTyped
    <3> QED BY <3>1 DEF OutputInv, InTurn, UsageNotOfNext
  <2>4. ExhaustedIsOwn
    BY DEF OutputInv, OutputTyped, SessionInv, LimitIsOwn, ExhaustedIsOwn
  <2> QED BY <2>1, <2>2, <2>3, <2>4 DEF OutputSafety
<1> QED BY <1>1, OutputInitially, OutputInductive, PTL DEF OutputSpec

-----------------------------------------------------------------------------
(* Worktrees.  A directory that is added and not prepared belongs to the   *)
(* request that holds the creation mutex, or its preparation was spoilt.   *)

\* Who is about to hand a worktree out knows that git made its branch.
PublishedIsBranched ==
  \A q \in Creates : At(q, "preparing") \/ At(q, "publishing") => request[q].task \in branch

RawIsExplained ==
  \A t \in Projects : tree[t] = "raw" =>
    t \in spoilt \/ \E q \in Creates : At(q, "preparing") /\ request[q].task = t

\* The cursor is not moved while its mutex is held, but for becoming older.
FetchingIsDue == \A q \in Creates : At(q, "fetching") => cursorAge = Window

TreeInv == TreeTypeOK /\ PublishedIsBranched /\ RawIsExplained /\ FetchingIsDue

LEMMA TreeInitially == TreeInit => TreeInv
<1> SUFFICES ASSUME TreeInit PROVE TreeInv
  OBVIOUS
<1>1. (CHOOSE t \in Projects : TRUE) \in Projects
  BY CreatesAssumption
<1> QED
  BY <1>1, CreatesAssumption, RestartsAssumption, WindowAssumption
  DEF TreeInit, TreeInv, TreeTypeOK, PublishedIsBranched, RawIsExplained,
     FetchingIsDue,
      At, TreePcs

LEMMA ResolveAlters ==
  ASSUME TreeTypeOK, NEW q \in Creates, NEW from, ResolveTrunk(q, from)
  PROVE  \E pc \in {"failed", "resolved"}, fresh \in BOOLEAN :
           request' = [request EXCEPT ![q].pc = pc, ![q].fresh = fresh]
<1> DEFINE pc == IF from = "none" THEN "failed" ELSE "resolved"
           fresh == request[q].fresh /\ from = "origin"
<1>1. request' = [request EXCEPT ![q].pc = pc, ![q].fresh = fresh]
  BY DEF ResolveTrunk
<1>2. pc \in {"failed", "resolved"} /\ fresh \in BOOLEAN
  OBVIOUS
<1> HIDE DEF pc, fresh
<1> QED BY <1>1, <1>2

\* A request that finds a directory answers or fails.
LEMMA FindAlters ==
  ASSUME NEW q \in Creates, FindTree(q)
  PROVE  /\ At(q, "resolved") /\ createLock = NoCreate
         /\ UNCHANGED <<fetchLock, time, disk, restarts>>
         /\ \/ tree[request[q].task] = "absent" /\ Goes(q, "adding") /\ createLock' = q
            \/ tree[request[q].task] = "corrupt" /\ Goes(q, "failed") /\ UNCHANGED createLock
            \/ /\ tree[request[q].task] \notin {"absent", "corrupt"}
               /\ Goes(q, "publishing") /\ UNCHANGED createLock
<1>1. CASE tree[request[q].task] = "corrupt"
  BY <1>1 DEF FindTree, FoundTree
<1>2. CASE tree[request[q].task] = "absent"
  BY <1>2 DEF FindTree, FoundTree
<1>3. CASE tree[request[q].task] \notin {"absent", "corrupt"}
  BY <1>3 DEF FindTree, FoundTree
<1> QED BY <1>1, <1>2, <1>3

LEMMA TreeTypedKept == TreeInv /\ [TreeNext]_treeVars => TreeTypeOK'
<1> SUFFICES ASSUME TreeInv, [TreeNext]_treeVars
             PROVE  TreeTypeOK'
  OBVIOUS
<1> USE CreatesAssumption, RestartsAssumption, WindowAssumption
    DEF TreeInv, TreeTypeOK, At, TreePcs, Goes, locks, time, disk
<1>1. ASSUME NEW q \in Creates, NEW t \in Projects, Ask(q, t)
      PROVE  TreeTypeOK'
  BY <1>1, ZenonT(60) DEF Ask
<1>2. ASSUME NEW q \in Creates, CursorCheck(q)
      PROVE  TreeTypeOK'
  BY <1>2 DEF CursorCheck, Leaves
<1>3. ASSUME NEW q \in Creates, NEW ok \in BOOLEAN, FetchEnds(q, ok)
      PROVE  TreeTypeOK'
  <2>1. PICK ages : Leaves(q, ages)
    BY <1>3 DEF FetchEnds
  <2> DEFINE b == ages[RepoOf(q)] < Window
  <2>2. request' = [request EXCEPT ![q].pc = "fetched", ![q].fresh = b] /\ b \in BOOLEAN
    BY <2>1 DEF Leaves
  <2> HIDE DEF b
  <2>3. /\ UNCHANGED <<createLock, disk, restarts>>
        /\ fetchLock' = NoCreate /\ cursorAge' = 0 /\ fetchLock = q
        /\ refAge' = IF ok THEN [refAge EXCEPT ![RepoOf(q)] = 0] ELSE refAge
    BY <1>3 DEF FetchEnds
  <2>4. refAge' \in [Repos -> 0..Window]
    <3>1. 0 \in 0..Window /\ refAge \in [Repos -> 0..Window]
      OBVIOUS
    <3>3. CASE ok
      <4> HIDE WindowAssumption DEF TreeInv, TreeTypeOK
      <4> QED BY <2>3, <3>1, <3>3
    <3>2. CASE ~ok
      BY <2>3, <3>2
    <3> QED BY <3>3, <3>2
  <2>5. request' \in [Creates -> [pc: TreePcs, task: Projects, fresh: BOOLEAN, branched: BOOLEAN]]
    BY ZenonT(60), <2>2
  <2>6. \A r \in Creates : At(r, "fetching")' <=> fetchLock' = r
    BY <2>2, <2>3
  <2>7. \A r \in Creates : (At(r, "adding") \/ At(r, "preparing"))' <=> createLock' = r
    BY <2>2, <2>3
  <2> QED BY <2>3, <2>4, <2>5, <2>6, <2>7
<1>4. ASSUME NEW q \in Creates, NEW from, ResolveTrunk(q, from)
      PROVE  TreeTypeOK'
  <2>1. PICK pc \in {"failed", "resolved"}, fresh \in BOOLEAN :
          request' = [request EXCEPT ![q].pc = pc, ![q].fresh = fresh]
    BY <1>4, ResolveAlters
  <2>2. At(q, "fetched") /\ UNCHANGED <<locks, time, disk, restarts>>
    BY <1>4 DEF ResolveTrunk
  <2>3. request' \in [Creates -> [pc: TreePcs, task: Projects, fresh: BOOLEAN, branched: BOOLEAN]]
    BY ZenonT(60), <2>1
  <2>4. request'[q].pc = pc /\ \A p \in Creates : p # q => request'[p] = request[p]
    BY <2>1
  <2>5. \A p \in Creates : (At(p, "fetching")' <=> fetchLock' = p)
          /\ ((At(p, "adding") \/ At(p, "preparing"))' <=> createLock' = p)
    BY <2>2, <2>4
  <2> QED BY <2>2, <2>3, <2>5
<1>5. ASSUME NEW q \in Creates, FindTree(q)
      PROVE  TreeTypeOK'
  <2>1. CASE tree[request[q].task] = "absent"
    BY <1>5, <2>1, FindAlters
  <2>2. CASE tree[request[q].task] = "corrupt"
    BY <1>5, <2>2, FindAlters
  <2>3. CASE tree[request[q].task] \notin {"absent", "corrupt"}
    BY <1>5, <2>3, FindAlters
  <2> QED BY <2>1, <2>2, <2>3
<1>6. ASSUME NEW q \in Creates, AddTree(q)
      PROVE  TreeTypeOK'
  BY <1>6 DEF AddTree
<1>7. ASSUME NEW q \in Creates, NEW ok \in BOOLEAN, PrepareTree(q, ok)
      PROVE  TreeTypeOK'
  BY <1>7 DEF PrepareTree
<1>8. ASSUME NEW q \in Creates, NEW ok \in BOOLEAN, AnswerTree(q, ok)
      PROVE  TreeTypeOK'
  BY <1>8 DEF AnswerTree
<1>9. ASSUME NEW t \in Projects, PurgeTree(t)
      PROVE  TreeTypeOK'
  BY <1>9 DEF PurgeTree
<1>10. CASE TreeTick
  BY <1>10 DEF TreeTick, Older
<1>11. CASE TreeRestart
  BY <1>11 DEF TreeRestart, Busy
<1>12. CASE UNCHANGED treeVars
  BY <1>12 DEF treeVars
<1> QED
  BY <1>1, <1>2, <1>3, <1>4, <1>5, <1>6, <1>7, <1>8, <1>9, <1>10, <1>11, <1>12
  DEF TreeNext

LEMMA TreeInductive == TreeInv /\ [TreeNext]_treeVars => TreeInv'
<1> SUFFICES ASSUME TreeInv, [TreeNext]_treeVars
             PROVE  (PublishedIsBranched /\ RawIsExplained /\ FetchingIsDue)'
  BY TreeTypedKept DEF TreeInv
<1> DEFINE Rest == PublishedIsBranched /\ RawIsExplained /\ FetchingIsDue
<1> USE CreatesAssumption, WindowAssumption
    DEF TreeInv, TreeTypeOK, PublishedIsBranched, RawIsExplained, FetchingIsDue,
        At, TreePcs, Goes, locks, time, disk
<1>1. ASSUME NEW q \in Creates, NEW t \in Projects, Ask(q, t)
      PROVE  Rest'
  BY <1>1 DEF Ask
<1>2. ASSUME NEW q \in Creates, CursorCheck(q)
      PROVE  Rest'
  <2>1. CASE cursorAge < Window
    BY <1>2, <2>1 DEF CursorCheck, Leaves
  <2>2. CASE ~(cursorAge < Window)
    <3>1. cursorAge = Window
      BY <2>2
    <3> QED BY <1>2, <2>2, <3>1 DEF CursorCheck
  <2> QED BY <2>1, <2>2
<1>3. ASSUME NEW q \in Creates, NEW ok \in BOOLEAN, FetchEnds(q, ok)
      PROVE  Rest'
  BY <1>3 DEF FetchEnds, Leaves
<1>4. ASSUME NEW q \in Creates, NEW from, ResolveTrunk(q, from)
      PROVE  Rest'
  <2>1. PICK pc \in {"failed", "resolved"}, fresh \in BOOLEAN :
          request' = [request EXCEPT ![q].pc = pc, ![q].fresh = fresh]
    BY <1>4, ResolveAlters
  <2>2. At(q, "fetched") /\ UNCHANGED <<locks, time, disk, restarts>>
    BY <1>4 DEF ResolveTrunk
  <2> QED BY <2>1, <2>2
<1>5. ASSUME NEW q \in Creates, FindTree(q)
      PROVE  Rest'
  BY <1>5, FindAlters
<1>6. ASSUME NEW q \in Creates, AddTree(q)
      PROVE  Rest'
  <2>1. CASE request[q].task \in branch
    BY <1>6, <2>1 DEF AddTree
  <2>2. CASE request[q].task \notin branch
    <3>1. /\ request' = [request EXCEPT ![q].pc = "preparing", ![q].branched = TRUE]
          /\ tree' = [tree EXCEPT ![request[q].task] = "raw"]
          /\ branch' = branch \union {request[q].task}
          /\ UNCHANGED <<createLock, fetchLock, time, spoilt, restarts>>
      BY <1>6, <2>2 DEF AddTree
    <3>2. request[q].pc = "adding" /\ request'[q].pc = "preparing"
          /\ request'[q].task = request[q].task
      BY <1>6, <3>1 DEF AddTree
    <3>3. \A p \in Creates : p # q => request'[p] = request[p]
      BY <3>1
    <3>4. RawIsExplained'
      BY <3>1, <3>2, <3>3
    <3>5. PublishedIsBranched' /\ FetchingIsDue'
      BY <3>1, <3>2, <3>3
    <3> QED BY <3>4, <3>5
  <2> QED BY <2>1, <2>2
<1>7. ASSUME NEW q \in Creates, NEW ok \in BOOLEAN, PrepareTree(q, ok)
      PROVE  Rest'
  BY <1>7 DEF PrepareTree
<1>8. ASSUME NEW q \in Creates, NEW ok \in BOOLEAN, AnswerTree(q, ok)
      PROVE  Rest'
  BY <1>8 DEF AnswerTree
<1>9. ASSUME NEW t \in Projects, PurgeTree(t)
      PROVE  Rest'
  BY <1>9 DEF PurgeTree
<1>10. CASE TreeTick
  BY <1>10 DEF TreeTick, Older
<1>11. CASE TreeRestart
  BY <1>11 DEF TreeRestart, Busy
<1>12. CASE UNCHANGED treeVars
  BY <1>12 DEF treeVars
<1> QED
  BY <1>1, <1>2, <1>3, <1>4, <1>5, <1>6, <1>7, <1>8, <1>9, <1>10, <1>11, <1>12
  DEF TreeNext

LEMMA TreeInvariant == TreeSpec => []TreeInv
BY TreeInitially, TreeInductive, PTL DEF TreeSpec

-----------------------------------------------------------------------------
\* A worktree that is handed out unprepared is one whose preparation was cut
\* short before, for any tasks, requests and deaths of the service.
LEMMA PreparedKept == TreeInv /\ PreparedWhenAnswered /\ [TreeNext]_treeVars => PreparedWhenAnswered'
<1> SUFFICES ASSUME TreeInv, PreparedWhenAnswered, [TreeNext]_treeVars
             PROVE  PreparedWhenAnswered'
  OBVIOUS
<1> USE CreatesAssumption, WindowAssumption
    DEF TreeInv, TreeTypeOK, PublishedIsBranched, RawIsExplained,
       PreparedWhenAnswered,
        At, TreePcs, Goes, locks, time, disk
<1>1. ASSUME NEW q \in Creates, NEW t \in Projects, Ask(q, t)
      PROVE  PreparedWhenAnswered'
  BY <1>1 DEF Ask
<1>2. ASSUME NEW q \in Creates, CursorCheck(q)
      PROVE  PreparedWhenAnswered'
  BY <1>2 DEF CursorCheck, Leaves
<1>3. ASSUME NEW q \in Creates, NEW ok \in BOOLEAN, FetchEnds(q, ok)
      PROVE  PreparedWhenAnswered'
  BY <1>3 DEF FetchEnds, Leaves
<1>4. ASSUME NEW q \in Creates, NEW from, ResolveTrunk(q, from)
      PROVE  PreparedWhenAnswered'
  BY <1>4 DEF ResolveTrunk
<1>5. ASSUME NEW q \in Creates, FindTree(q)
      PROVE  PreparedWhenAnswered'
  <2>1. CASE tree[request[q].task] = "absent"
    BY <1>5, <2>1, FindAlters
  <2>2. CASE tree[request[q].task] = "corrupt"
    BY <1>5, <2>2, FindAlters
  <2>3. CASE tree[request[q].task] \notin {"absent", "corrupt"}
    <3>1. tree[request[q].task] = "raw" => request[q].task \in spoilt
      BY <1>5 DEF FindTree
    <3> QED BY <1>5, <2>3, <3>1, FindAlters
  <2> QED BY <2>1, <2>2, <2>3
<1>6. ASSUME NEW q \in Creates, AddTree(q)
      PROVE  PreparedWhenAnswered'
  BY <1>6 DEF AddTree
<1>7. ASSUME NEW q \in Creates, NEW ok \in BOOLEAN, PrepareTree(q, ok)
      PROVE  PreparedWhenAnswered'
  BY <1>7 DEF PrepareTree
<1>8. ASSUME NEW q \in Creates, NEW ok \in BOOLEAN, AnswerTree(q, ok)
      PROVE  PreparedWhenAnswered'
  BY <1>8 DEF AnswerTree
<1>9. ASSUME NEW t \in Projects, PurgeTree(t)
      PROVE  PreparedWhenAnswered'
  BY <1>9 DEF PurgeTree
<1>10. CASE TreeTick
  BY <1>10 DEF TreeTick
<1>11. CASE TreeRestart
  BY <1>11 DEF TreeRestart, Busy
<1>12. CASE UNCHANGED treeVars
  BY <1>12 DEF treeVars
<1> QED
  BY <1>1, <1>2, <1>3, <1>4, <1>5, <1>6, <1>7, <1>8, <1>9, <1>10, <1>11, <1>12
  DEF TreeNext

\* With one repository, whose origin answers and whose trunk is found, the
\* cursor is as old as its refs.
OneOrigin ==
  /\ Repos = OriginRepos /\ \A r, s \in Repos : r = s
  /\ TreeFaults \intersect {"fetch", "resolve"} = {}

RefsFollowCursor == \A r \in Repos : refAge[r] <= cursorAge

FreshSinceFetched ==
  \A q \in Creates :
    /\ request[q].pc \in {"fetched", "resolved", "adding"} => request[q].fresh
    /\ request[q].branched => request[q].fresh

FreshInv == RefsFollowCursor /\ FreshSinceFetched

LEMMA RepoIsKnown == ASSUME TreeTypeOK, NEW q \in Creates PROVE RepoOf(q) \in Repos
BY ProjectAssumption DEF TreeTypeOK, RepoOf

LEMMA FreshInductive ==
  OneOrigin /\ TreeInv /\ FreshInv /\ [TreeNext]_treeVars => FreshInv'
<1> SUFFICES ASSUME OneOrigin, TreeInv, FreshInv, [TreeNext]_treeVars
             PROVE  FreshInv'
  OBVIOUS
<1> USE WindowAssumption
    DEF TreeInv, TreeTypeOK, FreshInv, RefsFollowCursor, FreshSinceFetched,
        At, TreePcs, Goes, locks, time, disk
<1>1. ASSUME NEW q \in Creates, NEW t \in Projects, Ask(q, t)
      PROVE  FreshInv'
  BY <1>1 DEF Ask
<1>2. ASSUME NEW q \in Creates, CursorCheck(q)
      PROVE  FreshInv'
  <2>1. cursorAge < Window => refAge[RepoOf(q)] < Window
    BY RepoIsKnown
  <2> QED BY <1>2, <2>1 DEF CursorCheck, Leaves
<1>3. ASSUME NEW q \in Creates, NEW ok \in BOOLEAN, FetchMay(q, ok), FetchEnds(q, ok)
      PROVE  FreshInv'
  <2>1. ok /\ RepoOf(q) \in Repos /\ \A r \in Repos : r = RepoOf(q)
    BY <1>3, RepoIsKnown DEF FetchMay, OneOrigin
  <2>2. refAge' = [refAge EXCEPT ![RepoOf(q)] = 0]
    BY <1>3, <2>1 DEF FetchEnds
  <2>3. \A r \in Repos : refAge'[r] = 0
    BY <2>1, <2>2
  <2> QED BY <1>3, <2>1, <2>3 DEF FetchEnds, Leaves
<1>4. ASSUME NEW q \in Creates, NEW from, ResolveMay(q, from), ResolveTrunk(q, from)
      PROVE  FreshInv'
  <2>1. from = "origin"
    BY <1>4, RepoIsKnown DEF ResolveMay, OneOrigin
  <2> QED BY <1>4, <2>1 DEF ResolveTrunk
<1>5. ASSUME NEW q \in Creates, FindTree(q)
      PROVE  FreshInv'
  BY <1>5, FindAlters
<1>6. ASSUME NEW q \in Creates, AddTree(q)
      PROVE  FreshInv'
  BY <1>6 DEF AddTree
<1>7. ASSUME NEW q \in Creates, NEW ok \in BOOLEAN, PrepareTree(q, ok)
      PROVE  FreshInv'
  BY <1>7 DEF PrepareTree
<1>8. ASSUME NEW q \in Creates, NEW ok \in BOOLEAN, AnswerTree(q, ok)
      PROVE  FreshInv'
  BY <1>8 DEF AnswerTree
<1>9. ASSUME NEW t \in Projects, PurgeTree(t)
      PROVE  FreshInv'
  BY <1>9 DEF PurgeTree
<1>10. CASE TreeTick
  BY <1>10 DEF TreeTick, Older
<1>11. CASE TreeRestart
  BY <1>11 DEF TreeRestart, Busy
<1>12. CASE UNCHANGED treeVars
  BY <1>12 DEF treeVars
<1> QED
  BY <1>1, <1>2, <1>3, <1>4, <1>5, <1>6, <1>7, <1>8, <1>9, <1>10, <1>11, <1>12
  DEF TreeNext

\* Worktrees keep their types, each mutex is held by the request it protects,
\* and a directory exists only with its branch.
THEOREM TreeTypeCorrect == TreeSpec => []TreeTypeOK
<1>1. TreeInv => TreeTypeOK
  BY DEF TreeInv
<1> QED BY <1>1, TreeInvariant, PTL

\* A worktree is handed out prepared, unless its preparation was cut short
\* before, for any repositories, faults and deaths of the service.
THEOREM PreparedWhenAnsweredHolds == TreeSpec => []PreparedWhenAnswered
<1>1. TreeInit => PreparedWhenAnswered
  BY DEF TreeInit, PreparedWhenAnswered, At
<1> QED
  BY <1>1, PreparedKept, TreeInvariant, PTL DEF TreeSpec

\* With one repository, whose fetches succeed and whose trunk is found, every
\* branch is cut from refs no older than the window, for any tasks, requests and
\* deaths of the service; with a second one the shared cursor breaks this.
THEOREM BranchedFreshHolds == OneOrigin /\ TreeSpec => []BranchedFresh
<1>1. TreeInit => FreshInv
  BY WindowAssumption
  DEF TreeInit, FreshInv, RefsFollowCursor, FreshSinceFetched, At
<1>2. FreshInv => BranchedFresh
  BY DEF FreshInv, FreshSinceFetched, BranchedFresh
<1>3. ASSUME OneOrigin
      PROVE  TreeSpec => []BranchedFresh
  <2>1. TreeInv /\ FreshInv /\ [TreeNext]_treeVars => FreshInv'
    BY <1>3, FreshInductive
  <2> QED
    BY <1>1, <1>2, <2>1, TreeInvariant, PTL DEF TreeSpec
<1> QED BY <1>3

\* No fetch of the service ends within the window of the last one, however
\* many requests found the cursor old (maybe_fetch).
THEOREM FetchOncePerWindowHolds == TreeSpec => FetchOncePerWindow
<1>1. TreeInv => [\A q \in Creates : At(q, "fetching") /\ request'[q].pc = "fetched" =>
                    cursorAge = Window]_treeVars
  BY DEF TreeInv, FetchingIsDue
<1> QED BY <1>1, TreeInvariant, PTL DEF FetchOncePerWindow

-----------------------------------------------------------------------------
(* Pull requests.  First what the commands do to GitHub, whoever runs them *)
(* and however late.                                                       *)

PullRecords == [state: {"none", "open", "merged", "closed"}, draft: Drafts,
          head: 0..MaxCommits, armed: BOOLEAN]

GithubTyped ==
  /\ commits \in 0..MaxCommits /\ pushed \in 0..commits
  /\ pull \in [Numbers -> PullRecords]
  /\ checks \in {"pending", "passed", "failed"} /\ approved \in BOOLEAN

\* Numbers are given one after the other.
NumbersUsed ==
  \E k \in 0..MaxPulls : \A n \in Numbers : (pull[n].state # "none") <=> (n <= k)

\* An open PR shows what was pushed last.
HeadsPushed == \A n \in OpenNow : pull[n].head = pushed

GithubInv == GithubTyped /\ NumbersUsed /\ HeadsPushed

\* What no command takes back.
PullsKept ==
  /\ pushed' >= pushed
  /\ \A n \in Numbers : pull[n].state # "none" =>
       pull'[n].state # "none" /\ pull'[n].head >= pull[n].head

LEMMA LatestIsUsed ==
  ASSUME NEW k \in 0..MaxPulls, \A n \in Numbers : (pull[n].state # "none") <=> (n <= k)
  PROVE  Latest = k
<1>1. MaxPulls \in Nat
  BY PullBoundsAssumption
<1>2. {n \in Numbers : pull[n].state # "none"} = 1..k
  BY <1>1 DEF Numbers
<1>3. Cardinality(1..k) = k
  BY FS_Interval
<1> QED BY <1>2, <1>3 DEF Latest

LEMMA PushIs == ASSUME NEW cmd, cmd.kind = "push", Effect(cmd)
                PROVE  /\ pushed' = commits
                       /\ pull' = [n \in Numbers |-> IF n \in OpenNow
                                                     THEN [pull[n] EXCEPT !.head = commits]
                                                     ELSE pull[n]]
                       /\ checks' = IF commits = pushed THEN checks ELSE "pending"
                       /\ approved' = approved
BY Zenon DEF Effect

LEMMA CreateIs == ASSUME NEW cmd, cmd.kind = "create", Possible(cmd), Effect(cmd)
                  PROVE  /\ OpenNow = {} /\ Latest < MaxPulls
                         /\ pull' = [pull EXCEPT ![Latest + 1] =
                              [state |-> "open", draft |-> cmd.draft,
                               head |-> pushed, armed |-> FALSE]]
                         /\ approved' = FALSE /\ pushed' = pushed /\ checks' = checks
BY Zenon DEF Effect, Possible

LEMMA ArmIs == ASSUME NEW cmd, cmd.kind = "arm", Effect(cmd)
               PROVE  /\ pull' = [pull EXCEPT ![cmd.n].armed = TRUE]
                      /\ pushed' = pushed /\ checks' = checks /\ approved' = approved
BY Zenon DEF Effect

\* The three commands of open-pr.
LEMMA EffectFacts ==
  ASSUME GithubInv, UNCHANGED commits, NEW cmd \in Commands, Possible(cmd), Effect(cmd)
  PROVE  GithubInv' /\ PullsKept
<1>1. /\ MaxPulls \in Nat /\ MaxCommits \in Nat
      /\ commits \in Nat /\ pushed \in Nat /\ pushed <= commits /\ commits <= MaxCommits
      /\ cmd.draft \in Drafts
  BY PullBoundsAssumption DEF GithubInv, GithubTyped, Commands
<1>2. PICK k \in 0..MaxPulls : \A n \in Numbers : (pull[n].state # "none") <=> (n <= k)
  BY DEF GithubInv, NumbersUsed
<1>3. CASE cmd.kind = "push"
  <2>1. /\ pushed' = commits
        /\ pull' = [n \in Numbers |-> IF n \in OpenNow
                                      THEN [pull[n] EXCEPT !.head = commits] ELSE pull[n]]
        /\ checks' = IF commits = pushed THEN checks ELSE "pending"
        /\ approved' = approved
    BY <1>3, PushIs
  <2>2. \A n \in Numbers :
          /\ pull'[n] \in PullRecords /\ pull'[n].state = pull[n].state
          /\ pull'[n].head = IF n \in OpenNow THEN commits ELSE pull[n].head
    BY <1>1, <2>1 DEF GithubInv, GithubTyped, PullRecords
  <2>3. pull' \in [Numbers -> PullRecords]
    BY <2>1, <2>2
  <2>4. GithubTyped'
    BY <1>1, <2>1, <2>3 DEF GithubInv, GithubTyped
  <2>5. NumbersUsed'
    BY <1>2, <2>2 DEF NumbersUsed
  <2>6. HeadsPushed'
    BY <2>1, <2>2 DEF HeadsPushed, OpenNow
  <2>7. PullsKept
    <3>1. \A n \in Numbers : pull[n].head \in Nat
      BY <1>1 DEF GithubInv, GithubTyped, PullRecords
    <3>2. \A n \in OpenNow : pull[n].head = pushed
      BY DEF GithubInv, HeadsPushed
    <3> QED BY <1>1, <2>1, <2>2, <3>1, <3>2 DEF PullsKept
  <2> QED BY <2>4, <2>5, <2>6, <2>7 DEF GithubInv
<1>4. CASE cmd.kind = "create"
  <2> DEFINE new == [state |-> "open", draft |-> cmd.draft, head |-> pushed, armed |-> FALSE]
  <2>1. /\ OpenNow = {} /\ k < MaxPulls
        /\ pull' = [pull EXCEPT ![k + 1] = new]
        /\ approved' = FALSE /\ pushed' = pushed /\ checks' = checks
    BY <1>2, <1>4, CreateIs, LatestIsUsed
  <2>2. /\ new \in PullRecords /\ new.state = "open" /\ new.head = pushed
        /\ k + 1 \in Numbers
    BY <1>1, <2>1 DEF PullRecords, Numbers
  <2> HIDE DEF new
  <2>3. /\ pull' \in [Numbers -> PullRecords] /\ pull'[k + 1] = new
        /\ \A n \in Numbers : n # k + 1 => pull'[n] = pull[n]
    BY <2>1, <2>2 DEF GithubInv, GithubTyped
  <2>4. GithubTyped'
    BY <2>1, <2>3 DEF GithubInv, GithubTyped
  <2>5. NumbersUsed'
    <3>1. k + 1 \in 0..MaxPulls
      BY <1>1, <2>1
    <3>2. \A n \in Numbers : (pull'[n].state # "none") <=> (n <= k + 1)
      BY <1>2, <2>2, <2>3 DEF Numbers
    <3> QED BY <3>1, <3>2 DEF NumbersUsed
  <2>6. HeadsPushed'
    BY <2>1, <2>2, <2>3 DEF HeadsPushed, OpenNow
  <2>7. PullsKept
    <3>1. \A n \in Numbers : pull[n].state # "none" => n # k + 1
      BY <1>2
    <3>2. \A n \in Numbers : pull[n].head \in Nat
      BY <1>1 DEF GithubInv, GithubTyped, PullRecords
    <3> QED BY <1>1, <2>1, <2>3, <3>1, <3>2 DEF PullsKept
  <2> QED BY <2>4, <2>5, <2>6, <2>7 DEF GithubInv
<1>5. CASE cmd.kind = "arm"
  <2>1. /\ pull' = [pull EXCEPT ![cmd.n].armed = TRUE]
        /\ pushed' = pushed /\ checks' = checks /\ approved' = approved
    BY <1>5, ArmIs
  <2>2. /\ pull' \in [Numbers -> PullRecords]
        /\ \A n \in Numbers : pull'[n].state = pull[n].state /\ pull'[n].head = pull[n].head
    BY <2>1 DEF GithubInv, GithubTyped, PullRecords
  <2>3. GithubTyped'
    BY <2>1, <2>2 DEF GithubInv, GithubTyped
  <2>4. NumbersUsed'
    BY <1>2, <2>2 DEF NumbersUsed
  <2>5. HeadsPushed'
    BY <2>1, <2>2 DEF GithubInv, HeadsPushed, OpenNow
  <2>6. PullsKept
    <3>1. \A n \in Numbers : pull[n].head \in Nat
      BY <1>1 DEF GithubInv, GithubTyped, PullRecords
    <3> QED BY <1>1, <2>1, <2>2, <3>1 DEF PullsKept
  <2> QED BY <2>3, <2>4, <2>5, <2>6 DEF GithubInv
<1> QED BY <1>3, <1>4, <1>5 DEF Commands

-----------------------------------------------------------------------------
(* The calls: what a call has found stays true while it goes on.           *)

CallRecords == [pc: RepoPcs, draft: Drafts, commit: 0..MaxCommits,
                n: 0..MaxPulls]

CallsTyped ==
  /\ call \in [OpenCalls -> CallRecords]
  /\ loose \subseteq Commands /\ journaled \subseteq Numbers

HasNumber(c) == call[c].pc \in {"having", "telling", "answered"} => call[c].n # 0

\* What open-pr pushed is on GitHub, then in the PR it found or made.
Proposed(c) ==
  /\ call[c].pc \in {"pushed", "lacking"} => call[c].commit <= pushed
  /\ call[c].pc \in {"having", "telling", "answered"} =>
       /\ call[c].n \in Numbers /\ pull[call[c].n].state # "none"
       /\ pull[call[c].n].head >= call[c].commit
  /\ call[c].pc = "answered" => call[c].n \in journaled

CallInv(c) == HasNumber(c) /\ Proposed(c)

RepoInv == GithubInv /\ CallsTyped /\ \A c \in OpenCalls : CallInv(c)

\* A call that rests keeps what it has found.
LEMMA CallRests ==
  ASSUME RepoInv, GithubInv', PullsKept, journaled \subseteq journaled',
         NEW c \in OpenCalls, call'[c] = call[c]
  PROVE  CallInv(c)'
<1>1. \A n \in Numbers : pull[n].head \in Nat /\ pull'[n].head \in Nat
  BY PullBoundsAssumption DEF RepoInv, GithubInv, GithubTyped, PullRecords
<1>2. call[c].commit \in Nat /\ pushed \in Nat /\ pushed' \in Nat
  BY PullBoundsAssumption
  DEF RepoInv, GithubInv, GithubTyped, CallsTyped, CallRecords
<1> QED
  BY <1>1, <1>2 DEF RepoInv, CallInv, HasNumber, Proposed, PullsKept

\* Nothing happens to GitHub.
LEMMA GithubRests ==
  ASSUME GithubInv, UNCHANGED <<commits, github>>
  PROVE  GithubInv' /\ PullsKept
<1>1. \A n \in Numbers : pull[n].head \in Nat
  BY PullBoundsAssumption DEF GithubInv, GithubTyped, PullRecords
<1>2. pushed \in Nat
  BY PullBoundsAssumption DEF GithubInv, GithubTyped
<1>3. UNCHANGED <<commits, pushed, pull, checks, approved>>
  BY DEF github
<1>4. GithubInv'
  BY <1>3 DEF GithubInv, GithubTyped, NumbersUsed, HeadsPushed, OpenNow
<1> QED BY <1>1, <1>2, <1>3, <1>4 DEF PullsKept

\* A command as a call runs it, whether or not it succeeds.
LEMMA CommandRuns ==
  ASSUME RepoInv, UNCHANGED commits, NEW cmd \in Commands, Succeeds(cmd) \/ Fails(cmd)
  PROVE  /\ GithubInv' /\ PullsKept /\ loose' \subseteq Commands
<1>1. CASE Succeeds(cmd)
  BY <1>1, EffectFacts DEF Succeeds, RepoInv, CallsTyped
<1>2. CASE Fails(cmd)
  <2>1. UNCHANGED github /\ loose' \subseteq loose \union {cmd}
    BY <1>2 DEF Fails, Errs, TimesOut
  <2> QED BY <2>1, GithubRests DEF RepoInv, CallsTyped
<1> QED BY <1>1, <1>2

\* The step of one call: the others rest.
LEMMA OneCallMoves ==
  ASSUME RepoInv, GithubInv', PullsKept, loose' \subseteq Commands,
         journaled \subseteq journaled', journaled' \subseteq Numbers,
         NEW c \in OpenCalls, NEW r,
         r \in CallRecords,
         call' = [call EXCEPT ![c] = r],
         CallInv(c)'
  PROVE  RepoInv'
<1>1. call'[c] = r /\ \A d \in OpenCalls : d # c => call'[d] = call[d]
  BY DEF RepoInv, CallsTyped
<1>2. CallsTyped'
  BY DEF RepoInv, CallsTyped
<1>3. \A d \in OpenCalls : CallInv(d)'
  BY <1>1, CallRests
<1> QED BY <1>2, <1>3 DEF RepoInv

LEMMA NobodyMoves ==
  ASSUME RepoInv, GithubInv', PullsKept, loose' \subseteq Commands, UNCHANGED <<call, journaled>>
  PROVE  RepoInv'
<1>1. \A d \in OpenCalls : CallInv(d)'
  BY CallRests
<1> QED BY <1>1 DEF RepoInv, CallsTyped

\* What GitHub and the Picker do by themselves.
LEMMA ByItself ==
  ASSUME RepoInv,
         \/ CommitMore \/ ReviewTurns
         \/ \E result \in {"passed", "failed"} : ChecksEnd(result)
         \/ \E n \in Numbers : AutoMerge(n) \/ ClosePull(n)
         \/ \E cmd \in loose : LateEffect(cmd)
  PROVE  RepoInv'
<1>1. /\ MaxCommits \in Nat /\ commits \in Nat /\ pushed \in Nat /\ pushed <= commits
      /\ \A n \in Numbers : pull[n].head \in Nat
  BY PullBoundsAssumption DEF RepoInv, GithubInv, GithubTyped, PullRecords
<1>2. /\ GithubTyped /\ NumbersUsed /\ HeadsPushed /\ loose \subseteq Commands
  BY DEF RepoInv, GithubInv, CallsTyped
<1>3. CASE CommitMore
  <2>1. commits' \in 0..MaxCommits /\ pushed \in 0..commits'
    BY <1>1, <1>2, <1>3 DEF CommitMore, GithubTyped
  <2>2. GithubInv'
    BY <1>2, <1>3, <2>1
    DEF CommitMore, GithubInv, GithubTyped, NumbersUsed, HeadsPushed, OpenNow
  <2>3. PullsKept
    BY <1>1, <1>3 DEF CommitMore, PullsKept
  <2> QED BY <1>2, <1>3, <2>2, <2>3, NobodyMoves DEF CommitMore
<1>4. CASE ReviewTurns
  <2>1. approved' \in BOOLEAN
    BY <1>4 DEF ReviewTurns
  <2>2. GithubInv'
    BY <1>2, <1>4, <2>1
    DEF ReviewTurns, GithubInv, GithubTyped, NumbersUsed, HeadsPushed, OpenNow
  <2>3. PullsKept
    BY <1>1, <1>4 DEF ReviewTurns, PullsKept
  <2> QED BY <1>2, <1>4, <2>2, <2>3, NobodyMoves DEF ReviewTurns
<1>5. ASSUME NEW result \in {"passed", "failed"}, ChecksEnd(result)
      PROVE  RepoInv'
  <2>1. GithubInv'
    BY <1>2, <1>5
    DEF ChecksEnd, GithubInv, GithubTyped, NumbersUsed, HeadsPushed, OpenNow
  <2>2. PullsKept
    BY <1>1, <1>5 DEF ChecksEnd, PullsKept
  <2> QED BY <1>2, <1>5, <2>1, <2>2, NobodyMoves DEF ChecksEnd
<1>6. ASSUME NEW n \in Numbers, AutoMerge(n) \/ ClosePull(n)
      PROVE  RepoInv'
  <2>1. /\ pull[n].state = "open"
        /\ \E s \in {"merged", "closed"} : pull' = [pull EXCEPT ![n].state = s]
        /\ UNCHANGED <<commits, pushed, checks, approved, call, loose, journaled>>
    BY <1>6 DEF AutoMerge, ClosePull, Mergeable, OpenNow
  <2> PICK s \in {"merged", "closed"} : pull' = [pull EXCEPT ![n].state = s]
    BY <2>1
  <2> DEFINE r == [pull[n] EXCEPT !.state = s]
  <2>7. pull \in [Numbers -> PullRecords] /\ pull' = [pull EXCEPT ![n] = r]
    BY <1>2 DEF GithubTyped
  <2>8. r \in PullRecords /\ r.state = s /\ r.head = pull[n].head
    BY <2>7 DEF PullRecords
  <2> HIDE DEF r
  <2>9. pull' \in [Numbers -> PullRecords] /\ pull'[n] = r
        /\ \A m \in Numbers : m # n => pull'[m] = pull[m]
    BY <2>7, <2>8
  <2>2. /\ pull' \in [Numbers -> PullRecords]
        /\ \A m \in Numbers : /\ pull'[m].head = pull[m].head
                              /\ (pull'[m].state # "none") <=> (pull[m].state # "none")
                              /\ (pull'[m].state = "open") => (pull[m].state = "open")
    <3> SUFFICES ASSUME NEW m \in Numbers
                 PROVE  /\ pull'[m].head = pull[m].head
                        /\ (pull'[m].state # "none") <=> (pull[m].state # "none")
                        /\ (pull'[m].state = "open") => (pull[m].state = "open")
      BY <2>9
    <3>1. CASE m = n
      <4>1. r.state # "none" /\ r.state # "open"
        BY <2>8
      <4> QED BY <2>1, <2>8, <2>9, <3>1, <4>1
    <3>2. CASE m # n
      BY <2>9, <3>2
    <3> QED BY <3>1, <3>2
  <2>3. GithubTyped'
    BY <1>2, <2>1, <2>2 DEF GithubTyped
  <2>4. NumbersUsed'
    <3>1. PICK k \in 0..MaxPulls : \A m \in Numbers : (pull[m].state # "none") <=> (m <= k)
      BY <1>2 DEF NumbersUsed
    <3>2. \A m \in Numbers : (pull'[m].state # "none") <=> (m <= k)
      <4> TAKE m \in Numbers
      <4>1. (pull'[m].state # "none") <=> (pull[m].state # "none")
        BY <2>2
      <4>2. (pull[m].state # "none") <=> (m <= k)
        BY <3>1
      <4> QED BY <4>1, <4>2
    <3> QED BY <3>2 DEF NumbersUsed
  <2>5. HeadsPushed'
    BY <1>2, <2>1, <2>2 DEF HeadsPushed, OpenNow
  <2>6. PullsKept
    BY <1>1, <2>1, <2>2 DEF PullsKept
  <2> QED BY <1>2, <2>1, <2>3, <2>4, <2>5, <2>6, NobodyMoves DEF GithubInv
<1>7. ASSUME NEW cmd \in loose, LateEffect(cmd)
      PROVE  RepoInv'
  <2>1. cmd \in Commands /\ loose' \subseteq Commands /\ UNCHANGED <<commits, call, journaled>>
    BY <1>2, <1>7 DEF LateEffect
  <2>2. GithubInv' /\ PullsKept
    <3>1. CASE Possible(cmd)
      BY <1>7, <2>1, <3>1, EffectFacts DEF LateEffect, RepoInv
    <3>2. CASE ~Possible(cmd)
      BY <1>7, <2>1, <3>2, GithubRests DEF LateEffect, RepoInv
    <3> QED BY <3>1, <3>2
  <2> QED BY <2>1, <2>2, NobodyMoves
<1> QED BY <1>3, <1>4, <1>5, <1>6, <1>7

\* The pc of a call and the command it runs.
LEMMA CallGoesTo ==
  ASSUME RepoInv, NEW c \in OpenCalls, NEW pc \in RepoPcs
  PROVE  /\ [call[c] EXCEPT !.pc = pc] \in CallRecords
         /\ [call[c] EXCEPT !.pc = pc].pc = pc
         /\ [call[c] EXCEPT !.pc = pc].n = call[c].n
         /\ [call[c] EXCEPT !.pc = pc].commit = call[c].commit
         /\ CallGoes(c, pc) => call' = [call EXCEPT ![c] = [call[c] EXCEPT !.pc = pc]]
BY DEF RepoInv, CallsTyped, CallGoes, CallRecords

\* A failed call says nothing.
LEMMA FailedSaysNothing ==
  ASSUME RepoInv, GithubInv', PullsKept, loose' \subseteq Commands, UNCHANGED journaled,
         NEW c \in OpenCalls, CallGoes(c, "failed")
  PROVE  RepoInv'
<1> DEFINE r == [call[c] EXCEPT !.pc = "failed"]
<1>1. "failed" \in RepoPcs
  BY DEF RepoPcs
<1>2. /\ r \in CallRecords /\ r.pc = "failed"
      /\ call' = [call EXCEPT ![c] = r]
  BY <1>1, CallGoesTo
<1> HIDE DEF r
<1>3. call'[c] = r
  BY <1>2 DEF RepoInv, CallsTyped
<1>4. CallInv(c)'
  BY <1>2, <1>3 DEF CallInv, HasNumber, Proposed
<1>5. journaled' \subseteq Numbers
  BY DEF RepoInv, CallsTyped
<1> QED BY <1>2, <1>4, <1>5, OneCallMoves

LEMMA OpenPrSteps ==
  ASSUME RepoInv, NEW c \in OpenCalls,
         \/ \E draft \in Drafts : Start(c, draft)
         \/ GitPush(c) \/ LookupByBranch(c) \/ CreatePr(c) \/ ArmPr(c)
  PROVE  RepoInv'
<1>1. /\ MaxCommits \in Nat /\ MaxPulls \in Nat /\ commits \in 0..MaxCommits /\ pushed \in Nat
      /\ c \in OpenCalls
      /\ loose \subseteq Commands /\ journaled \subseteq Numbers
  BY PullBoundsAssumption
  DEF RepoInv, GithubInv, GithubTyped, CallsTyped
<1>2. call[c] \in CallRecords
  BY <1>1 DEF RepoInv, CallsTyped
<1>3. ASSUME NEW draft \in Drafts, Start(c, draft)
      PROVE  RepoInv'
  <2> DEFINE r == [call[c] EXCEPT !.pc = "called", !.draft = draft]
  <2>1. /\ r \in CallRecords
        /\ r.pc = "called"
    BY <1>2 DEF RepoPcs, CallRecords
  <2>2. call' = [call EXCEPT ![c] = r] /\ UNCHANGED <<commits, github, loose, journaled>>
    BY <1>3 DEF Start
  <2> HIDE DEF r
  <2>3. CallInv(c)'
    BY <1>1, <2>1, <2>2
    DEF RepoInv, CallsTyped, CallRecords, CallInv, HasNumber, Proposed
  <2>4. GithubInv' /\ PullsKept
    BY <2>2, GithubRests DEF RepoInv
  <2> QED BY <1>1, <2>1, <2>2, <2>3, <2>4, OneCallMoves
<1>4. CASE GitPush(c)
  <2>1. PushCommand \in Commands
    BY <1>1 DEF PushCommand, Commands, Drafts
  <2>2. UNCHANGED <<commits, journaled>> /\ (Succeeds(PushCommand) \/ Fails(PushCommand))
    BY <1>4 DEF GitPush
  <2>3. GithubInv' /\ PullsKept /\ loose' \subseteq Commands
    BY <2>1, <2>2, CommandRuns
  <2>4. CASE Fails(PushCommand) /\ CallGoes(c, "failed")
    BY <1>1, <2>2, <2>3, <2>4, FailedSaysNothing
  <2>5. CASE /\ Succeeds(PushCommand)
             /\ call' = [call EXCEPT ![c].pc = "pushed", ![c].commit = commits]
    <3> DEFINE r == [call[c] EXCEPT !.pc = "pushed", !.commit = commits]
    <3>1. /\ r \in CallRecords
          /\ r.pc = "pushed" /\ r.commit = commits
      BY <1>1, <1>2 DEF RepoPcs, CallRecords
    <3>2. call' = [call EXCEPT ![c] = r]
      BY <2>5
    <3> HIDE DEF r
    <3>3. pushed' = commits
      BY <2>5, PushIs DEF Succeeds, PushCommand
    <3>4. CallInv(c)'
      BY <1>1, <3>1, <3>2, <3>3
      DEF RepoInv, CallsTyped, CallRecords, CallInv, HasNumber, Proposed
    <3> QED BY <1>1, <2>2, <2>3, <3>1, <3>2, <3>4, OneCallMoves
  <2> QED BY <1>4, <2>4, <2>5 DEF GitPush
<1>5. CASE LookupByBranch(c)
  <2>1. UNCHANGED <<commits, github, loose, journaled>> /\ CallAt(c, "pushed")
    BY <1>5 DEF LookupByBranch
  <2>2. GithubInv' /\ PullsKept /\ UNCHANGED <<pull, pushed>>
    BY <2>1, GithubRests DEF RepoInv, github
  <2>3. call[c].commit <= pushed
    BY <1>1, <2>1 DEF RepoInv, CallInv, Proposed, CallAt
  <2>4. ASSUME NEW n \in OpenNow, call' = [call EXCEPT ![c].pc = "having", ![c].n = n]
        PROVE  RepoInv'
    <3> DEFINE r == [call[c] EXCEPT !.pc = "having", !.n = n]
    <3>1. /\ n \in Numbers /\ n # 0 /\ n \in 0..MaxPulls
          /\ pull[n].state # "none" /\ pull[n].head = pushed
      BY <1>1 DEF OpenNow, Numbers, RepoInv, GithubInv, HeadsPushed
    <3>2. /\ r \in CallRecords
          /\ r.pc = "having" /\ r.n = n /\ r.commit = call[c].commit
      BY <1>2, <3>1 DEF RepoPcs, CallRecords
    <3>3. call' = [call EXCEPT ![c] = r]
      BY <2>4
    <3> HIDE DEF r
    <3>4. CallInv(c)'
      BY <1>1, <1>2, <2>2, <2>3, <3>1, <3>2, <3>3
      DEF RepoInv, CallsTyped, CallRecords, CallInv, HasNumber, Proposed
    <3> QED BY <1>1, <2>1, <2>2, <3>2, <3>3, <3>4, OneCallMoves
  <2>5. CASE CallGoes(c, "lacking")
    <3> DEFINE r == [call[c] EXCEPT !.pc = "lacking"]
    <3>3. "lacking" \in RepoPcs
      BY DEF RepoPcs
    <3>1. /\ r \in CallRecords
          /\ r.pc = "lacking" /\ r.commit = call[c].commit
          /\ call' = [call EXCEPT ![c] = r]
      BY <1>1, <2>5, <3>3, CallGoesTo
    <3> HIDE DEF r
    <3>2. CallInv(c)'
      BY <1>1, <1>2, <2>2, <2>3, <3>1
      DEF RepoInv, CallsTyped, CallRecords, CallInv, HasNumber, Proposed
    <3> QED BY <1>1, <2>1, <2>2, <3>1, <3>2, OneCallMoves
  <2>6. CASE CallGoes(c, "failed")
    BY <1>1, <2>1, <2>2, <2>6, FailedSaysNothing
  <2> QED BY <1>5, <2>4, <2>5, <2>6 DEF LookupByBranch
<1>6. CASE CreatePr(c)
  <2> DEFINE cmd == Create(call[c].draft)
  <2>1. cmd \in Commands /\ cmd.kind = "create"
    BY <1>1, <1>2 DEF Create, Commands, CallRecords
  <2>2. /\ UNCHANGED <<commits, journaled>> /\ (Succeeds(cmd) \/ Fails(cmd))
        /\ CallAt(c, "lacking")
    BY <1>6 DEF CreatePr
  <2>3. GithubInv' /\ PullsKept /\ loose' \subseteq Commands
    BY <2>1, <2>2, CommandRuns
  <2>4. CASE Fails(cmd) /\ CallGoes(c, "failed")
    BY <1>1, <2>2, <2>3, <2>4, FailedSaysNothing
  <2>5. CASE Succeeds(cmd) /\ call' = [call EXCEPT ![c].pc = "having", ![c].n = Latest + 1]
    <3>1. PICK k \in 0..MaxPulls : \A n \in Numbers : (pull[n].state # "none") <=> (n <= k)
      BY DEF RepoInv, GithubInv, NumbersUsed
    <3>2. Latest = k
      BY <3>1, LatestIsUsed
    <3>3. /\ k < MaxPulls /\ pushed' = pushed
          /\ pull' = [pull EXCEPT ![k + 1] = [state |-> "open", draft |-> cmd.draft,
                                             head |-> pushed, armed |-> FALSE]]
      BY <2>1, <2>5, <3>2, CreateIs DEF Succeeds
    <3>4. /\ k + 1 \in Numbers /\ k + 1 \in 0..MaxPulls /\ k + 1 # 0
          /\ pull'[k + 1].state = "open" /\ pull'[k + 1].head = pushed
      BY <1>1, <3>3 DEF Numbers, RepoInv, GithubInv, GithubTyped
    <3>5. call[c].commit <= pushed
      BY <1>1, <2>2 DEF RepoInv, CallInv, Proposed, CallAt
    <3> DEFINE r == [call[c] EXCEPT !.pc = "having", !.n = k + 1]
    <3>6. /\ r \in CallRecords
          /\ r.pc = "having" /\ r.n = k + 1 /\ r.commit = call[c].commit
      BY <1>2, <3>4 DEF RepoPcs, CallRecords
    <3>7. call' = [call EXCEPT ![c] = r]
      BY <2>5, <3>2
    <3> HIDE DEF r
    <3>8. CallInv(c)'
      BY <1>1, <1>2, <3>3, <3>4, <3>5, <3>6, <3>7
      DEF RepoInv, CallsTyped, CallRecords, CallInv, HasNumber, Proposed
    <3> QED BY <1>1, <2>2, <2>3, <3>6, <3>7, <3>8, OneCallMoves
  <2> QED BY <1>6, <2>4, <2>5 DEF CreatePr
<1>7. CASE ArmPr(c)
  <2> DEFINE n == call[c].n
  <2>1. CallAt(c, "having") /\ CallGoes(c, "telling") /\ UNCHANGED <<commits, journaled>>
    BY <1>7 DEF ArmPr
  <2>2. GithubInv' /\ PullsKept /\ loose' \subseteq Commands
    <3>1. CASE UNCHANGED <<github, loose>>
      BY <1>1, <2>1, <3>1, GithubRests DEF RepoInv
    <3>2. CASE Succeeds(Arm(n)) \/ Fails(Arm(n))
      <4>1. Arm(n) \in Commands
        BY <1>2 DEF Arm, Commands, Drafts, CallRecords
      <4> QED BY <2>1, <3>2, <4>1, CommandRuns
    <3> QED BY <1>7, <3>1, <3>2 DEF ArmPr
  <2>3. /\ n \in Numbers /\ n # 0 /\ pull[n].state # "none" /\ pull[n].head >= call[c].commit
    BY <1>1, <2>1 DEF RepoInv, CallInv, HasNumber, Proposed, CallAt
  <2>4. /\ pull'[n].state # "none" /\ pull'[n].head >= call[c].commit
    <3>1. pull[n].head \in Nat /\ pull'[n].head \in Nat /\ call[c].commit \in Nat
      BY <1>1, <1>2, <2>2, <2>3
      DEF RepoInv, GithubInv, GithubTyped, PullRecords, CallRecords
    <3> QED BY <2>2, <2>3, <3>1 DEF PullsKept
  <2> DEFINE r == [call[c] EXCEPT !.pc = "telling"]
  <2>8. "telling" \in RepoPcs
    BY DEF RepoPcs
  <2>5. /\ r \in CallRecords
        /\ r.pc = "telling" /\ r.n = n /\ r.commit = call[c].commit
        /\ call' = [call EXCEPT ![c] = r]
    BY <1>1, <2>1, <2>8, CallGoesTo
  <2>6. call'[c] = r
    BY <1>1, <2>5 DEF RepoInv, CallsTyped
  <2> HIDE DEF r, n
  <2>7. CallInv(c)'
    BY <1>1, <2>3, <2>4, <2>5, <2>6
    DEF CallInv, HasNumber, Proposed
  <2> QED BY <1>1, <2>1, <2>2, <2>5, <2>7, OneCallMoves
<1> QED BY <1>3, <1>4, <1>5, <1>6, <1>7

\* publish_pr_opened and the answer.
LEMMA AnswerSteps ==
  ASSUME RepoInv, NEW c \in OpenCalls, NEW ok \in BOOLEAN, TellOpened(c, ok)
  PROVE  RepoInv'
<1>1. /\ call[c] \in CallRecords /\ journaled \subseteq Numbers /\ loose \subseteq Commands
      /\ CallInv(c)
  BY DEF RepoInv, CallsTyped
<1>2. UNCHANGED <<commits, github, loose>>
  BY DEF TellOpened
<1>3. GithubInv' /\ PullsKept /\ loose' \subseteq Commands /\ UNCHANGED pull
  BY <1>1, <1>2, GithubRests DEF RepoInv, github
<1>4. CASE ~ok
  <2>1. CallGoes(c, "failed") /\ UNCHANGED journaled
    BY <1>4 DEF TellOpened
  <2> QED BY <1>3, <2>1, FailedSaysNothing
<1>5. CASE ok
  <2> DEFINE r == [call[c] EXCEPT !.pc = "answered"]
  <2>1. CallGoes(c, "answered")
    BY <1>5 DEF TellOpened
  <2>2. "answered" \in RepoPcs
    BY DEF RepoPcs
  <2>3. /\ r \in CallRecords /\ r.pc = "answered" /\ r.n = call[c].n
        /\ r.commit = call[c].commit /\ call' = [call EXCEPT ![c] = r]
    BY <2>1, <2>2, CallGoesTo
  <2> HIDE DEF r
  <2>4. call'[c] = r
    BY <2>3 DEF RepoInv, CallsTyped
  <2>5. CallAt(c, "telling") /\ journaled' = journaled \union {call[c].n}
    BY <1>5 DEF TellOpened
  <2>6. /\ c \in OpenCalls /\ call[c].n # 0 /\ call[c].n \in Numbers
        /\ pull[call[c].n].state # "none" /\ pull[call[c].n].head >= call[c].commit
    BY <1>1, <2>5 DEF CallInv, HasNumber, Proposed, CallAt
  <2>7. CallInv(c)'
    BY <1>3, <2>3, <2>4, <2>5, <2>6 DEF CallInv, HasNumber, Proposed
  <2>8. journaled \subseteq journaled' /\ journaled' \subseteq Numbers
    BY <1>1, <2>5, <2>6
  <2> QED BY <1>3, <2>3, <2>7, <2>8, OneCallMoves
<1> QED BY <1>4, <1>5

LEMMA PullsInitially == PullsInit => RepoInv
<1> SUFFICES ASSUME PullsInit PROVE RepoInv
  OBVIOUS
<1>1. MaxCommits \in Nat /\ MaxPulls \in Nat
  BY PullBoundsAssumption
<1>2. NoPull \in PullRecords /\ NoPull.state = "none"
  BY <1>1 DEF NoPull, PullRecords, Drafts
<1>3. GithubTyped
  <2>1. pull \in [Numbers -> PullRecords]
    BY <1>2 DEF PullsInit
  <2>2. commits = 0 /\ pushed = 0 /\ checks = "pending" /\ approved = FALSE
    BY DEF PullsInit
  <2>3. commits \in 0..MaxCommits /\ pushed \in 0..commits
    BY <1>1, <2>2
  <2> QED BY <2>1, <2>2, <2>3 DEF GithubTyped
<1>4. \A n \in Numbers : pull[n].state = "none"
  BY <1>2 DEF PullsInit
<1>5. NumbersUsed
  <2>1. 0 \in 0..MaxPulls /\ \A n \in Numbers : (pull[n].state # "none") <=> (n <= 0)
    BY <1>1, <1>4 DEF Numbers
  <2> QED BY <2>1 DEF NumbersUsed
<1>6. HeadsPushed
  BY <1>4 DEF HeadsPushed, OpenNow
<1>7. CallsTyped
  BY <1>1 DEF PullsInit, CallsTyped, CallRecords, RepoPcs, Drafts
<1>8. \A c \in OpenCalls : call[c].pc = "new"
  BY DEF PullsInit
<1>9. \A c \in OpenCalls : CallInv(c)
  BY <1>8 DEF CallInv, HasNumber, Proposed
<1> QED BY <1>3, <1>5, <1>6, <1>7, <1>9 DEF RepoInv, GithubInv

LEMMA PullsInductive == RepoInv /\ [PullsNext]_repoVars => RepoInv'
<1> SUFFICES ASSUME RepoInv, [PullsNext]_repoVars PROVE RepoInv'
  OBVIOUS
<1>1. CASE UNCHANGED repoVars
  <2>1. UNCHANGED <<commits, github, call, loose, journaled>>
    BY <1>1 DEF repoVars, github
  <2> QED BY <2>1, GithubRests, NobodyMoves DEF RepoInv, CallsTyped
<1>2. CASE \/ CommitMore \/ ReviewTurns
           \/ \E result \in {"passed", "failed"} : ChecksEnd(result)
           \/ \E n \in Numbers : AutoMerge(n) \/ ClosePull(n)
           \/ \E cmd \in loose : LateEffect(cmd)
  BY <1>2, ByItself
<1>3. ASSUME NEW c \in OpenCalls,
             \/ \E draft \in Drafts : Start(c, draft)
             \/ GitPush(c) \/ LookupByBranch(c) \/ CreatePr(c) \/ ArmPr(c)
      PROVE  RepoInv'
  BY <1>3, OpenPrSteps
<1>4. ASSUME NEW c \in OpenCalls, NEW ok \in BOOLEAN, TellOpened(c, ok)
      PROVE  RepoInv'
  BY <1>4, AnswerSteps
<1> QED BY <1>1, <1>2, <1>3, <1>4 DEF PullsNext

\* The repository service's calls, GitHub's PRs and the journal stay in their
\* types, and a call that names a PR names a real one.
THEOREM PullsTypeCorrect == PullsSpec => []PullsTypeOK
<1>1. RepoInv => PullsTypeOK
  BY DEF RepoInv, GithubInv, GithubTyped, CallsTyped, CallInv, HasNumber, PullRecords,
     CallRecords, PullsTypeOK
<1> QED BY <1>1, PullsInitially, PullsInductive, PTL DEF PullsSpec

\* Whatever other calls, timed-out commands and GitHub do between the commands
\* of a call: open-pr answers with a PR that holds what it pushed and that is
\* journaled (open_pr).
THEOREM PullSafetyHolds == PullsSpec => []PullSafety
<1>1. RepoInv => PullSafety
  <2> SUFFICES ASSUME RepoInv PROVE PullSafety
    OBVIOUS
  <2>1. PushedIsProposed
    BY DEF RepoInv, CallInv, Proposed, PushedIsProposed, CallAt
  <2>2. AnsweredIsTold
    BY DEF RepoInv, CallInv, Proposed, AnsweredIsTold, CallAt
  <2> QED BY <2>1, <2>2 DEF PullSafety
<1> QED BY <1>1, PullsInitially, PullsInductive, PTL DEF PullsSpec

-----------------------------------------------------------------------------
(* The poller.  A record, wherever it is (in the map, in the poll, in what  *)
(* a replay of the journal gives), agrees with the history of what the     *)
(* journal was told.  Every publish either moves all three together or     *)
(* ends the poll with none of them moved.                                  *)

History == [status: States \union {"none"}, ci: Ci \union {"none"}, seen: Int,
            merged: BOOLEAN, sawMerge: BOOLEAN,
            updates: SUBSET (1..MaxRev), lately: SUBSET (1..MaxRev)]

\* On GitHub a head and a comment are each a revision of their own, and what
\* is merged is closed.
Sound(gitPr) ==
  /\ gitPr.head <= gitPr.rev /\ gitPr.reviews < gitPr.rev
  /\ gitPr.merged => gitPr.state = "closed"

PollPoints == {"status", "merged", "reviews", "behind", "conflict", "ci", "end"}
Polls == [at: PollPoints, pr: Prs, rec: Records, snap: Pulls]

OnPoll(pr) == poll # NoPoll /\ poll.pr = pr

\* What a record remembers is what the journal was told, as far as GitHub
\* went.
Agrees(rec, h, gitPr) ==
  /\ rec.status = h.status /\ rec.ci = h.ci
  /\ rec.reviews # NoCount => rec.reviews = h.seen /\ rec.reviews <= gitPr.reviews
  /\ rec.updateHead <= gitPr.head /\ \A n \in h.updates : n <= rec.updateHead
  /\ rec.conflictHead <= gitPr.head /\ \A n \in h.lately : n <= rec.conflictHead

\* The record of a replay: counts and conflicts are not rebuilt.
AgreesSaved(rec, h, gitPr) ==
  /\ rec.status = h.status /\ rec.ci = h.ci
  /\ rec.reviews = NoCount /\ rec.conflictHead = NoHead
  /\ rec.updateHead <= gitPr.head /\ \A n \in h.updates : n <= rec.updateHead

FreshHistory(h) == h.status = "none" /\ h.ci = "none" /\ h.updates = {} /\ h.lately = {} /\ ~h.merged

Remembers(pr) ==
  /\ records[pr] # Untracked => Agrees(records[pr], told[pr], gh[pr])
  /\ OnPoll(pr) => /\ records[pr] = Untracked
                   /\ Agrees(poll.rec, told[pr], poll.snap)
                   /\ poll.snap.reviews <= gh[pr].reviews /\ poll.snap.head <= gh[pr].head
  /\ saved[pr] # Untracked => AgreesSaved(saved[pr], told[pr], gh[pr])
  /\ phase = "down" => records[pr] = Untracked /\ ~OnPoll(pr)

\* A message in the subscription is of a PR that is not yet followed.
Unfollowed(pr) ==
  opens[pr] = 0 \/ pending[pr] > 0 =>
    records[pr] = Untracked /\ ~OnPoll(pr) /\ FreshHistory(told[pr])

\* The status is looked at before the merge, so a PR whose merge is told is
\* closed in the record, too.
MergeEnds(pr) ==
  /\ told[pr].merged =>
       /\ saved[pr] = Untracked /\ records[pr] = Untracked
       /\ OnPoll(pr) => poll.at \notin {"status", "merged"} /\ poll.rec.status = "closed"
  /\ OnPoll(pr) /\ poll.at = "merged" => poll.rec.status = poll.snap.state

\* Types, and how far each counter may be.
PollerTypes ==
  /\ TypeOK
  /\ told \in [Prs -> History]
  /\ DOMAIN records = Prs /\ records = [pr \in Prs |-> records[pr]]
  /\ DOMAIN saved = Prs /\ saved = [pr \in Prs |-> saved[pr]]
  /\ \A pr \in Prs : /\ Sound(gh[pr]) /\ (OnPoll(pr) => Sound(poll.snap))
                     /\ opens[pr] = 0 => saved[pr] = Untracked
                     /\ pending[pr] <= opens[pr]
                     /\ phase # "up" => pending[pr] = 0

PollerInv ==
  /\ PollerTypes
  /\ \A pr \in Prs : OpenedOnce(pr) => Remembers(pr) /\ Unfollowed(pr) /\ MergeEnds(pr)
-------------------------------------------------------------------------------
LEMMA TrackedRecords ==
  /\ FromOpened \in Records /\ FromOpened # Untracked
  /\ \A rec \in Records : rec # Untracked
<1>1. FromOpened \in Records
  BY BoundsAssumption DEF FromOpened, Records, NoHead, NoCount
<1>2. ASSUME NEW rec \in Records PROVE rec # Untracked
  <2>1. rec.tracked = TRUE
    BY DEF Records
  <2>2. Untracked.tracked = FALSE
    BY DEF Untracked
  <2> QED BY <2>1, <2>2
<1> QED BY <1>1, <1>2

LEMMA PollIsRecord ==
  ASSUME NEW p \in Polls
  PROVE  p # NoPoll
<1>1. p.at # "idle"
  BY DEF Polls, PollPoints
<1>2. NoPoll.at = "idle"
  BY DEF NoPoll
<1> QED BY <1>1, <1>2

\* What a replay makes of each event that a poll publishes ...
LEMMA ReplayedEvents ==
  ASSUME NEW rec
  PROVE  /\ Replayed(rec, Event("pr.opened", 0)) = FromOpened
         /\ \A v : Replayed(rec, Event("pr.opened", v)) = FromOpened
         /\ \A v : Replayed(rec, Event("pr.merged", v)) = Untracked
         /\ \A v : /\ Replayed(rec, Event("pr.review-received", v)) = rec
                   /\ Replayed(rec, Event("pr.merge-conflict-detected", v)) = rec
         /\ \A v : Replayed(rec, Event("pr.status-changed", v)) =
                     IF rec = Untracked THEN rec ELSE [rec EXCEPT !.status = v]
         /\ \A v : Replayed(rec, Event("pr.ci.status-changed", v)) =
                     IF rec = Untracked THEN rec ELSE [rec EXCEPT !.ci = v]
         /\ \A v : Replayed(rec, Event("pr.branch-updated", v)) =
                     IF rec = Untracked THEN rec ELSE [rec EXCEPT !.updateHead = v]
BY DEF Replayed, Event, Removes, Rebuilt

\* ... and what the history makes of it.
LEMMA NotedEvents ==
  ASSUME NEW h
  PROVE  \A v :
    /\ Noted(h, Event("pr.status-changed", v)) = [h EXCEPT !.status = v]
    /\ Noted(h, Event("pr.ci.status-changed", v)) = [h EXCEPT !.ci = v]
    /\ Noted(h, Event("pr.review-received", v)) = [h EXCEPT !.seen = @ + v]
    /\ Noted(h, Event("pr.merged", v)) = [h EXCEPT !.merged = TRUE]
    /\ Noted(h, Event("pr.branch-updated", v)) = [h EXCEPT !.updates = @ \union {v}]
BY DEF Noted, Event

LEMMA NotedConflict ==
  ASSUME NEW h
  PROVE  \A v : Noted(h, Event("pr.merge-conflict-detected", v)) =
                  [h EXCEPT !.lately = @ \union {v}]
BY DEF Noted, Event

-------------------------------------------------------------------------------
\* A step of the poll that goes on: the record, what a replay gives and the
\* history agree again.
LEMMA ProceedKeeps ==
  ASSUME PollerInv, poll # NoPoll, NEW r \in Records, NEW at \in PollPoints,
         poll' = [poll EXCEPT !.rec = r, !.at = at], UNCHANGED records, UNCHANGED kept,
         NEW s, s = Untracked \/ s \in Records, NEW h \in History,
         saved' = [saved EXCEPT ![poll.pr] = s], told' = [told EXCEPT ![poll.pr] = h],
         saved[poll.pr] = Untracked => s = Untracked,
         OpenedOnce(poll.pr) =>
           /\ Agrees(r, h, poll.snap)
           /\ s # Untracked => AgreesSaved(s, h, gh[poll.pr])
           /\ h.merged => /\ s = Untracked /\ at \notin {"status", "merged"}
                          /\ r.status = "closed"
           /\ at = "merged" => r.status = poll.snap.state
  PROVE  PollerInv'
<1> DEFINE q == poll.pr
<1>1. /\ PollerTypes /\ poll \in Polls
      /\ \A pr \in Prs : OpenedOnce(pr) => Remembers(pr) /\ Unfollowed(pr) /\ MergeEnds(pr)
  BY DEF PollerInv, PollerTypes, TypeOK, Polls, PollPoints
<1>2. /\ q \in Prs /\ poll' \in Polls
      /\ poll'.pr = q /\ poll'.snap = poll.snap /\ poll'.rec = r /\ poll'.at = at
  BY <1>1 DEF Polls
<1>3. poll' # NoPoll
  BY <1>2, PollIsRecord
<1>4. \A pr \in Prs : (OnPoll(pr) <=> pr = q) /\ (OnPoll(pr)' <=> pr = q)
  BY <1>2, <1>3 DEF OnPoll
<1>5. /\ \A pr \in Prs : saved'[pr] = IF pr = q THEN s ELSE saved[pr]
      /\ \A pr \in Prs : told'[pr] = IF pr = q THEN h ELSE told[pr]
      /\ told' \in [Prs -> History] /\ saved' = [pr \in Prs |-> saved'[pr]]
  BY <1>1, <1>2 DEF PollerTypes
<1>6. UNCHANGED <<gh, opens, pending, phase, crashes, records>>
  BY DEF kept
<1>7. PollerTypes'
  <2>1. TypeOK'
    BY <1>1, <1>2, <1>5, <1>6 DEF PollerTypes, TypeOK, Polls, PollPoints
  <2>2. \A pr \in Prs : /\ Sound(gh'[pr]) /\ (OnPoll(pr)' => Sound(poll'.snap))
                        /\ opens'[pr] = 0 => saved'[pr] = Untracked
                        /\ pending'[pr] <= opens'[pr]
                        /\ phase' # "up" => pending'[pr] = 0
    BY <1>1, <1>2, <1>4, <1>5, <1>6 DEF PollerTypes, Sound
  <2>3. /\ told' \in [Prs -> History]
        /\ records' = [pr \in Prs |-> records'[pr]] /\ saved' = [pr \in Prs |-> saved'[pr]]
        /\ DOMAIN records' = Prs /\ DOMAIN saved' = Prs
    BY <1>1, <1>5, <1>6 DEF PollerTypes
  <2> QED BY <2>1, <2>2, <2>3 DEF PollerTypes
<1>8. ASSUME NEW pr \in Prs, OpenedOnce(pr)'
      PROVE  Remembers(pr)' /\ Unfollowed(pr)' /\ MergeEnds(pr)'
  <2>1. OpenedOnce(pr) /\ Remembers(pr) /\ Unfollowed(pr) /\ MergeEnds(pr)
    BY <1>1, <1>6, <1>8 DEF OpenedOnce
  <2>2. CASE pr = q
    BY <1>2, <1>4, <1>5, <1>6, <2>1, <2>2 DEF Remembers, Unfollowed, MergeEnds
  <2>3. CASE pr # q
    BY <1>2, <1>4, <1>5, <1>6, <2>1, <2>3 DEF Remembers, Unfollowed, MergeEnds
  <2> QED BY <2>2, <2>3
<1> QED BY <1>7, <1>8 DEF PollerInv

\* The end of a poll, good or bad: the record goes back to the map, unless it
\* is closed.
LEMMA FinishKeeps ==
  ASSUME PollerInv, poll # NoPoll, NEW r \in Records, Finish(poll.pr, r), Quietly,
         UNCHANGED kept,
         OpenedOnce(poll.pr) =>
           /\ Agrees(r, told[poll.pr], poll.snap)
           /\ told[poll.pr].merged => r.status = "closed"
  PROVE  PollerInv'
<1> DEFINE q == poll.pr
           m == IF IsClosed(r) THEN Untracked ELSE r
<1>1. /\ PollerTypes /\ poll \in Polls
      /\ \A pr \in Prs : OpenedOnce(pr) => Remembers(pr) /\ Unfollowed(pr) /\ MergeEnds(pr)
  BY DEF PollerInv, PollerTypes, TypeOK, Polls, PollPoints
<1>2. q \in Prs /\ poll' = NoPoll
  BY <1>1 DEF Polls, Finish
<1>3. m = Untracked \/ m \in Records
  OBVIOUS
<1>4. \A pr \in Prs : (OnPoll(pr) <=> pr = q) /\ ~OnPoll(pr)'
  BY <1>2 DEF OnPoll
<1>5. /\ \A pr \in Prs : records'[pr] = IF pr = q THEN m ELSE records[pr]
      /\ records' = [pr \in Prs |-> records'[pr]] /\ DOMAIN records' = Prs
  BY <1>1, <1>2 DEF PollerTypes, Finish
<1>6. UNCHANGED <<gh, opens, pending, phase, crashes, saved, told>>
  BY DEF kept, Quietly
<1>7. PollerTypes'
  <2>1. TypeOK'
    BY <1>1, <1>2, <1>3, <1>5, <1>6 DEF PollerTypes, TypeOK
  <2> QED BY <2>1, <1>1, <1>4, <1>5, <1>6 DEF PollerTypes, Sound
<1>8. ASSUME NEW pr \in Prs, OpenedOnce(pr)'
      PROVE  Remembers(pr)' /\ Unfollowed(pr)' /\ MergeEnds(pr)'
  <2>1. OpenedOnce(pr) /\ Remembers(pr) /\ Unfollowed(pr) /\ MergeEnds(pr)
    BY <1>1, <1>6, <1>8 DEF OpenedOnce
  <2>2. CASE pr = q
    <3>1. m = Untracked \/ (m = r /\ r.status # "closed")
      BY DEF IsClosed
    <3>2. poll.snap \in Pulls /\ gh[pr] \in Pulls
      BY <1>1, <2>2 DEF Polls, PollerTypes, TypeOK
    <3>3. Agrees(r, told[pr], gh[pr])
      BY <1>4, <2>1, <2>2, <3>2 DEF Agrees, Remembers, Pulls, Records, NoCount
    <3> HIDE DEF m
    <3> QED BY <1>4, <1>5, <1>6, <2>1, <2>2, <3>1, <3>3
            DEF Remembers, Unfollowed, MergeEnds
  <2>3. CASE pr # q
    BY <1>4, <1>5, <1>6, <2>1, <2>3 DEF Remembers, Unfollowed, MergeEnds
  <2> QED BY <2>2, <2>3
<1> QED BY <1>7, <1>8 DEF PollerInv

\* A publish: the event is out and the poll goes on, or it is not and the poll
\* ends with the record as it was.
LEMMA TellKeeps ==
  ASSUME PollerInv, poll # NoPoll, NEW ev, NEW before \in Records, NEW after \in Records,
         NEW next \in PollPoints, Tell(ev, before, after, next), UNCHANGED kept,
         NEW s, s = Replayed(saved[poll.pr], ev), s = Untracked \/ s \in Records,
         NEW h \in History, h = Noted(told[poll.pr], ev),
         saved[poll.pr] = Untracked => s = Untracked,
         OpenedOnce(poll.pr) =>
           /\ Agrees(before, told[poll.pr], poll.snap)
           /\ told[poll.pr].merged => before.status = "closed"
           /\ Agrees(after, h, poll.snap)
           /\ s # Untracked => AgreesSaved(s, h, gh[poll.pr])
           /\ h.merged => /\ s = Untracked /\ next \notin {"status", "merged"}
                          /\ after.status = "closed"
           /\ next = "merged" => after.status = poll.snap.state
  PROVE  PollerInv'
<1>1. CASE /\ saved' = [saved EXCEPT ![poll.pr] = Replayed(@, ev)]
           /\ told' = [told EXCEPT ![poll.pr] = Noted(@, ev)]
           /\ Proceed(after, next)
  <2>1. /\ saved' = [saved EXCEPT ![poll.pr] = s] /\ told' = [told EXCEPT ![poll.pr] = h]
        /\ poll' = [poll EXCEPT !.rec = after, !.at = next] /\ UNCHANGED records
    BY <1>1 DEF Proceed
  <2> QED BY <2>1, ProceedKeeps
<1>2. CASE Finish(poll.pr, before) /\ Quietly
  BY <1>2, FinishKeeps
<1> QED BY <1>1, <1>2 DEF Tell

\* A step that publishes nothing.
LEMMA QuietKeeps ==
  ASSUME PollerInv, poll # NoPoll, NEW r \in Records, NEW next \in PollPoints,
         Proceed(r, next), Quietly, UNCHANGED kept,
         OpenedOnce(poll.pr) =>
           /\ Agrees(r, told[poll.pr], poll.snap)
           /\ told[poll.pr].merged => next \notin {"status", "merged"} /\ r.status = "closed"
           /\ next = "merged" => r.status = poll.snap.state
  PROVE  PollerInv'
<1> DEFINE s == saved[poll.pr]
           h == told[poll.pr]
<1>1. /\ PollerTypes /\ poll.pr \in Prs /\ OnPoll(poll.pr)
      /\ OpenedOnce(poll.pr) => Remembers(poll.pr) /\ MergeEnds(poll.pr)
  BY DEF PollerInv, PollerTypes, TypeOK, OnPoll
<1>2. (s = Untracked \/ s \in Records) /\ h \in History
  BY <1>1 DEF PollerTypes, TypeOK
<1>3. /\ saved' = [saved EXCEPT ![poll.pr] = s] /\ told' = [told EXCEPT ![poll.pr] = h]
      /\ poll' = [poll EXCEPT !.rec = r, !.at = next] /\ UNCHANGED records
  BY <1>1 DEF Quietly, Proceed, PollerTypes
<1>4. OpenedOnce(poll.pr) =>
        /\ s # Untracked => AgreesSaved(s, h, gh[poll.pr])
        /\ h.merged => s = Untracked
  BY <1>1 DEF Remembers, MergeEnds
<1> HIDE DEF s, h
<1> QED BY <1>1, <1>2, <1>3, <1>4, ProceedKeeps DEF s, h

\* What is known of the poll in progress.
LEMMA PollKnown ==
  ASSUME PollerInv, poll.at \in PollPoints
  PROVE  /\ poll # NoPoll /\ poll.pr \in Prs /\ poll.rec \in Records /\ poll.snap \in Pulls
         /\ gh[poll.pr] \in Pulls /\ told[poll.pr] \in History
         /\ saved[poll.pr] = Untracked \/ saved[poll.pr] \in Records
         /\ Sound(poll.snap)
         /\ OpenedOnce(poll.pr) =>
              /\ Agrees(poll.rec, told[poll.pr], poll.snap)
              /\ poll.snap.reviews <= gh[poll.pr].reviews /\ poll.snap.head <= gh[poll.pr].head
              /\ saved[poll.pr] # Untracked => AgreesSaved(saved[poll.pr], told[poll.pr], gh[poll.pr])
              /\ told[poll.pr].merged =>
                   /\ saved[poll.pr] = Untracked
                   /\ poll.at \notin {"status", "merged"} /\ poll.rec.status = "closed"
              /\ poll.at = "merged" => poll.rec.status = poll.snap.state
<1>1. poll # NoPoll
  BY DEF NoPoll, PollPoints
<1>2. poll \in Polls /\ OnPoll(poll.pr)
  BY <1>1 DEF PollerInv, PollerTypes, TypeOK, Polls, PollPoints, OnPoll
<1>3. poll.pr \in Prs /\ poll.rec \in Records /\ poll.snap \in Pulls
  BY <1>2 DEF Polls
<1> QED BY <1>1, <1>2, <1>3 DEF PollerInv, PollerTypes, TypeOK, Remembers, MergeEnds

\* The records a poll makes of its own are records.
LEMMA PollRecords ==
  ASSUME NEW rec \in Records
  PROVE  /\ \A v \in States : [rec EXCEPT !.status = v] \in Records
         /\ \A v \in Ci : [rec EXCEPT !.ci = v] \in Records
         /\ \A v \in 0..MaxRev : /\ [rec EXCEPT !.reviews = v] \in Records
                                 /\ [rec EXCEPT !.updateHead = v] \in Records
                                 /\ [rec EXCEPT !.conflictHead = v] \in Records
                                 /\ [rec EXCEPT !.etag = v] \in Records
                                 /\ [rec EXCEPT !.head = v] \in Records
         /\ [rec EXCEPT !.ciUnavailable = TRUE] \in Records
BY DEF Records

\* The fields of a record, before and after an assignment to one of them.
LEMMA RecordFields ==
  ASSUME NEW rec \in Records, NEW v
  PROVE  /\ rec.updateHead \in Int /\ rec.conflictHead \in Int /\ rec.reviews \in Int
         /\ rec.reviews \in {NoCount} \union (0..MaxRev)
         /\ LET r == [rec EXCEPT !.updateHead = v]
            IN  /\ r.updateHead = v /\ r.status = rec.status /\ r.ci = rec.ci
                /\ r.reviews = rec.reviews /\ r.conflictHead = rec.conflictHead
         /\ LET r == [rec EXCEPT !.conflictHead = v]
            IN  /\ r.conflictHead = v /\ r.status = rec.status /\ r.ci = rec.ci
                /\ r.reviews = rec.reviews /\ r.updateHead = rec.updateHead
BY BoundsAssumption DEF Records, NoCount

LEMMA Histories ==
  ASSUME NEW h \in History
  PROVE  /\ \A v \in States : [h EXCEPT !.status = v] \in History
         /\ \A v \in Ci : [h EXCEPT !.ci = v] \in History
         /\ \A v \in Int : [h EXCEPT !.seen = v] \in History
         /\ \A v \in 1..MaxRev : /\ [h EXCEPT !.updates = @ \union {v}] \in History
                                 /\ [h EXCEPT !.lately = @ \union {v}] \in History
         /\ [h EXCEPT !.merged = TRUE] \in History
         /\ \A v \in BOOLEAN : [h EXCEPT !.sawMerge = v] \in History
BY DEF History

LEMMA HistoryFields ==
  ASSUME NEW h \in History, NEW v
  PROVE  /\ LET g == [h EXCEPT !.status = v]
            IN  /\ g.status = v /\ g.ci = h.ci /\ g.seen = h.seen /\ g.updates = h.updates
                /\ g.lately = h.lately /\ g.merged = h.merged
         /\ LET g == [h EXCEPT !.seen = @ + v]
            IN  /\ g.status = h.status /\ g.ci = h.ci /\ g.updates = h.updates
                /\ g.lately = h.lately /\ g.merged = h.merged
BY DEF History
-------------------------------------------------------------------------------
(* The steps of a poll.                                                        *)

LEMMA StatusKeeps == ASSUME PollerInv, ObserveStatus PROVE PollerInv'
<1> DEFINE v == poll.snap.state
           s == IF saved[poll.pr] = Untracked THEN Untracked
                ELSE [saved[poll.pr] EXCEPT !.status = v]
           h == [told[poll.pr] EXCEPT !.status = v]
           after == [poll.rec EXCEPT !.status = v]
           ev == Event("pr.status-changed", v)
<1>1. poll.at \in PollPoints /\ poll.at = "status" /\ UNCHANGED kept
      /\ "merged" \in PollPoints
  BY DEF ObserveStatus, PollPoints
<1>2. CASE poll.rec.status = v /\ Proceed(poll.rec, "merged") /\ Quietly
  BY <1>1, <1>2, PollKnown, QuietKeeps
<1>3. CASE Tell(ev, poll.rec, after, "merged")
  <2>1. v \in States
    BY <1>1, PollKnown DEF Pulls
  <2>2. /\ after \in Records /\ h \in History
        /\ s = Untracked \/ s \in Records
    BY <1>1, <2>1, PollKnown, PollRecords, Histories
  <2>3. s = Replayed(saved[poll.pr], ev)
    BY ReplayedEvents
  <2>5. h = Noted(told[poll.pr], ev)
    BY NotedEvents
  <2>4. OpenedOnce(poll.pr) =>
          /\ Agrees(poll.rec, told[poll.pr], poll.snap) /\ ~told[poll.pr].merged
          /\ Agrees(after, h, poll.snap) /\ ~h.merged /\ after.status = v
          /\ s # Untracked => AgreesSaved(s, h, gh[poll.pr])
    <3>1. /\ h.status = v /\ h.ci = told[poll.pr].ci /\ h.seen = told[poll.pr].seen
          /\ h.updates = told[poll.pr].updates /\ h.lately = told[poll.pr].lately
          /\ h.merged = told[poll.pr].merged
      BY HistoryFields, <1>1, PollKnown
    <3> HIDE DEF h
    <3> QED BY <1>1, <3>1, PollKnown DEF Agrees, AgreesSaved, Records
  <2> HIDE DEF s, h, after, ev
  <2> QED BY <1>1, <1>3, <2>2, <2>3, <2>4, <2>5, PollKnown, TellKeeps DEF s
<1> QED BY <1>2, <1>3 DEF ObserveStatus

LEMMA MergedKeeps == ASSUME PollerInv, ObserveMerged PROVE PollerInv'
<1> DEFINE s == Untracked
           h == [told[poll.pr] EXCEPT !.merged = TRUE]
           ev == Event("pr.merged", poll.pr)
<1>1. poll.at \in PollPoints /\ poll.at = "merged" /\ UNCHANGED kept
      /\ "reviews" \in PollPoints
  BY DEF ObserveMerged, PollPoints
<1>2. CASE Proceed(poll.rec, "reviews") /\ Quietly
  BY <1>1, <1>2, PollKnown, QuietKeeps
<1>3. CASE Finish(poll.pr, poll.rec) /\ Quietly
  BY <1>1, <1>3, PollKnown, FinishKeeps
<1>4. CASE poll.snap.merged /\ Tell(ev, poll.rec, poll.rec, "reviews")
  <2>1. h \in History
    BY <1>1, PollKnown, Histories
  <2>2. s = Replayed(saved[poll.pr], ev)
    BY ZenonT(60), ReplayedEvents
  <2>3. h = Noted(told[poll.pr], ev)
    BY NotedEvents
  <2>4. OpenedOnce(poll.pr) =>
          /\ Agrees(poll.rec, told[poll.pr], poll.snap)
          /\ Agrees(poll.rec, h, poll.snap) /\ poll.rec.status = "closed"
    BY <1>1, <1>4, PollKnown DEF Agrees, History, Sound
  <2>5. poll # NoPoll /\ poll.rec \in Records
    BY <1>1, PollKnown
  <2> HIDE DEF s, h, ev
  <2> QED BY <1>1, <1>4, <2>1, <2>2, <2>3, <2>4, <2>5, TellKeeps DEF s
<1> QED BY <1>2, <1>3, <1>4 DEF ObserveMerged

LEMMA ReviewsKeeps == ASSUME PollerInv, ObserveReviews PROVE PollerInv'
<1> DEFINE v == poll.snap.reviews
           rec == poll.rec
           n == v - rec.reviews
           s == saved[poll.pr]
           h0 == [told[poll.pr] EXCEPT !.seen = v]
           h == [told[poll.pr] EXCEPT !.seen = @ + n]
           after == Counted(rec)
           ev == Event("pr.review-received", n)
<1>1. poll.at \in PollPoints /\ poll.at = "reviews" /\ UNCHANGED kept
      /\ "behind" \in PollPoints
  BY DEF ObserveReviews, PollPoints
<1>2. v \in 0..MaxRev /\ v \in Int /\ rec.reviews \in {NoCount} \union (0..MaxRev)
      /\ told[poll.pr].seen \in Int
  <2>1. poll.snap \in Pulls /\ rec \in Records /\ told[poll.pr] \in History
    BY <1>1, PollKnown
  <2>2. v \in 0..MaxRev /\ v \in Int
    BY <2>1, BoundsAssumption DEF Pulls
  <2>3. told[poll.pr].seen \in Int
    BY <2>1 DEF History
  <2> QED BY <2>1, <2>2, <2>3, RecordFields
<1>3. after \in Records /\ after = [rec EXCEPT !.reviews = v]
  BY <1>1, <1>2, PollKnown, PollRecords DEF Counted
<1>4. CASE /\ rec.reviews = NoCount
           /\ told' = [told EXCEPT ![poll.pr].seen = v]
           /\ Proceed(after, "behind") /\ UNCHANGED saved
  <2>1. h0 \in History
    BY <1>1, <1>2, PollKnown, Histories
  <2>2. OpenedOnce(poll.pr) =>
          /\ Agrees(after, h0, poll.snap)
          /\ h0.merged => s = Untracked /\ after.status = "closed"
          /\ s # Untracked => AgreesSaved(s, h0, gh[poll.pr])
    BY <1>1, <1>2, <1>3, PollKnown DEF Agrees, AgreesSaved, History, Records
  <2>3. /\ told' = [told EXCEPT ![poll.pr] = h0]
        /\ saved' = [saved EXCEPT ![poll.pr] = s]
    BY <1>4 DEF PollerInv, PollerTypes
  <2>4. poll' = [poll EXCEPT !.rec = after, !.at = "behind"] /\ UNCHANGED records
    BY <1>4 DEF Proceed
  <2>5. poll # NoPoll /\ (s = Untracked \/ s \in Records)
    BY <1>1, PollKnown
  <2> HIDE DEF h0, s, after
  <2> QED BY <1>1, <1>3, <2>1, <2>2, <2>3, <2>4, <2>5, ProceedKeeps DEF s
<1>5. CASE /\ rec.reviews # NoCount /\ v <= rec.reviews
           /\ Proceed(after, "behind") /\ Quietly
  <2>1. OpenedOnce(poll.pr) => v = rec.reviews
    BY <1>1, <1>2, <1>5, PollKnown DEF Agrees, NoCount
  <2>2. OpenedOnce(poll.pr) =>
          /\ Agrees(after, told[poll.pr], poll.snap)
          /\ told[poll.pr].merged => after.status = "closed"
    BY <1>1, <1>3, <2>1, PollKnown DEF Agrees, Records
  <2> QED BY <1>1, <1>3, <1>5, <2>2, PollKnown, QuietKeeps
<1>6. CASE rec.reviews # NoCount /\ Tell(ev, rec, after, "behind")
  <2>1. n \in Int
    BY <1>2 DEF NoCount
  <2>2. h \in History
    <3>1. told[poll.pr].seen + n \in Int
      BY <1>2, <2>1
    <3> QED BY <1>1, <3>1, PollKnown, Histories
  <2>3. s = Replayed(saved[poll.pr], ev)
    BY ReplayedEvents
  <2>4. h = Noted(told[poll.pr], ev)
    BY NotedEvents
  <2>5. h.seen = told[poll.pr].seen + n
    BY <1>1, PollKnown DEF History
  <2>6. OpenedOnce(poll.pr) => h.seen = v
    BY <1>1, <1>2, <1>6, <2>5, PollKnown DEF Agrees, NoCount
  <2>7. OpenedOnce(poll.pr) =>
          /\ Agrees(rec, told[poll.pr], poll.snap)
          /\ told[poll.pr].merged => rec.status = "closed"
          /\ Agrees(after, h, poll.snap)
          /\ h.merged => s = Untracked /\ after.status = "closed"
          /\ s # Untracked => AgreesSaved(s, h, gh[poll.pr])
    <3>1. /\ h.status = told[poll.pr].status /\ h.ci = told[poll.pr].ci
          /\ h.updates = told[poll.pr].updates /\ h.lately = told[poll.pr].lately
          /\ h.merged = told[poll.pr].merged
      BY HistoryFields, <1>1, PollKnown
    <3> HIDE DEF h
    <3> QED BY <1>1, <1>2, <1>3, <2>6, <3>1, PollKnown DEF Agrees, AgreesSaved, Records
  <2>8. poll # NoPoll /\ rec \in Records /\ (s = Untracked \/ s \in Records)
    BY <1>1, PollKnown
  <2> HIDE DEF h, ev, s, after
  <2> QED BY <1>1, <1>3, <1>6, <2>2, <2>3, <2>4, <2>7, <2>8, TellKeeps, ZenonT(60) DEF s
<1> QED BY <1>4, <1>5, <1>6 DEF ObserveReviews

LEMMA BehindKeeps == ASSUME PollerInv, ObserveBehind PROVE PollerInv'
<1> DEFINE v == poll.snap.head
           s == IF saved[poll.pr] = Untracked THEN Untracked
                ELSE [saved[poll.pr] EXCEPT !.updateHead = v]
           h == [told[poll.pr] EXCEPT !.updates = @ \union {v}]
           tried == [poll.rec EXCEPT !.updateHead = v]
           ev == Event("pr.branch-updated", v)
<1>1. poll.at \in PollPoints /\ poll.at = "behind" /\ UNCHANGED kept
      /\ "conflict" \in PollPoints
  BY DEF ObserveBehind, PollPoints
<1>2. v \in 1..MaxRev /\ v \in 0..MaxRev
  BY <1>1, PollKnown DEF Pulls
<1>3. tried \in Records
  BY <1>1, <1>2, PollKnown, PollRecords
<1>4. /\ told[poll.pr].updates \in SUBSET (1..MaxRev)
      /\ \A n \in h.updates : n = v \/ n \in told[poll.pr].updates
  BY <1>1, PollKnown DEF History
<1>5. OpenedOnce(poll.pr) =>
        /\ Agrees(poll.rec, told[poll.pr], poll.snap)
        /\ told[poll.pr].merged => poll.rec.status = "closed" /\ tried.status = "closed"
        /\ Agrees(tried, told[poll.pr], poll.snap)
  <2>1. poll.rec \in Records /\ told[poll.pr].updates \subseteq Int
    BY <1>1, <1>4, PollKnown
  <2>2. OpenedOnce(poll.pr) =>
          /\ Agrees(poll.rec, told[poll.pr], poll.snap)
          /\ told[poll.pr].merged => poll.rec.status = "closed"
    BY <1>1, PollKnown
  <2>3. poll.rec.updateHead \in Int
        /\ tried.updateHead = v /\ tried.status = poll.rec.status /\ tried.ci = poll.rec.ci
        /\ tried.reviews = poll.rec.reviews /\ tried.conflictHead = poll.rec.conflictHead
    BY <2>1, RecordFields
  <2> HIDE DEF tried
  <2> QED BY <1>2, <2>1, <2>2, <2>3 DEF Agrees
<1>6. CASE \E rec \in {tried, poll.rec} : Proceed(rec, "conflict") /\ Quietly
  BY <1>1, <1>3, <1>5, <1>6, PollKnown, QuietKeeps
<1>7. CASE Tell(ev, tried, tried, "conflict")
  <2>1. /\ h \in History
        /\ s = Untracked \/ s \in Records
    BY <1>1, <1>2, PollKnown, Histories, PollRecords
  <2>2. s = Replayed(saved[poll.pr], ev)
    BY ReplayedEvents
  <2>3. h = Noted(told[poll.pr], ev)
    BY NotedEvents
  <2>4. OpenedOnce(poll.pr) =>
          /\ Agrees(tried, h, poll.snap)
          /\ h.merged => s = Untracked /\ tried.status = "closed"
    BY <1>1, <1>2, <1>4, <1>5, PollKnown DEF Agrees, Records, History
  <2>5. OpenedOnce(poll.pr) /\ s # Untracked => AgreesSaved(s, h, gh[poll.pr])
    <3>1. ASSUME OpenedOnce(poll.pr), saved[poll.pr] # Untracked
          PROVE  /\ saved[poll.pr] \in Records /\ told[poll.pr] \in History
                 /\ AgreesSaved(saved[poll.pr], told[poll.pr], gh[poll.pr])
                 /\ v <= gh[poll.pr].head /\ gh[poll.pr].head \in Int
                 /\ poll.rec.updateHead <= v /\ \A n \in told[poll.pr].updates : n <= v
      <4>1. gh[poll.pr] \in Pulls => gh[poll.pr].head \in Int
        BY BoundsAssumption DEF Pulls
      <4>2. poll.rec.updateHead <= v /\ \A n \in told[poll.pr].updates : n <= poll.rec.updateHead
        BY <1>5, <3>1 DEF Agrees
      <4>3. poll.rec.updateHead \in Int
        BY <1>1, PollKnown, RecordFields
      <4>4. \A n \in told[poll.pr].updates : n <= v
        BY <1>2, <1>4, <4>2, <4>3
      <4> QED BY <1>1, <3>1, <4>1, <4>2, <4>4, PollKnown
    <3>2. ASSUME saved[poll.pr] # Untracked, saved[poll.pr] \in Records
          PROVE  /\ s.updateHead = v /\ s.status = saved[poll.pr].status
                 /\ s.ci = saved[poll.pr].ci /\ s.reviews = saved[poll.pr].reviews
                 /\ s.conflictHead = saved[poll.pr].conflictHead
      BY <3>2 DEF Records
    <3>3. told[poll.pr] \in History =>
            /\ h.status = told[poll.pr].status /\ h.ci = told[poll.pr].ci
      BY DEF History
    <3>4. s # Untracked => saved[poll.pr] # Untracked
      OBVIOUS
    <3> HIDE DEF s, h
    <3> QED BY <1>2, <1>4, <3>1, <3>2, <3>3, <3>4 DEF AgreesSaved
  <2> HIDE DEF h, ev, s, tried
  <2> QED BY <1>1, <1>3, <1>5, <1>7, <2>1, <2>2, <2>3, <2>4, <2>5, PollKnown,
             TellKeeps DEF s
<1> QED BY <1>6, <1>7 DEF ObserveBehind

LEMMA ConflictKeeps == ASSUME PollerInv, ObserveConflict PROVE PollerInv'
<1> DEFINE v == poll.snap.head
           s == saved[poll.pr]
           h == [told[poll.pr] EXCEPT !.lately = @ \union {v}]
           noted == [poll.rec EXCEPT !.conflictHead = v]
           ev == Event("pr.merge-conflict-detected", v)
<1>1. poll.at \in PollPoints /\ poll.at = "conflict" /\ UNCHANGED kept
      /\ "ci" \in PollPoints
  BY DEF ObserveConflict, PollPoints
<1>2. v \in 1..MaxRev /\ v \in 0..MaxRev
  BY <1>1, PollKnown DEF Pulls
<1>3. noted \in Records
  BY <1>1, <1>2, PollKnown, PollRecords
<1>4. /\ told[poll.pr].lately \in SUBSET (1..MaxRev)
      /\ \A n \in h.lately : n = v \/ n \in told[poll.pr].lately
  BY <1>1, PollKnown DEF History
<1>5. OpenedOnce(poll.pr) =>
        /\ Agrees(poll.rec, told[poll.pr], poll.snap)
        /\ told[poll.pr].merged => poll.rec.status = "closed" /\ noted.status = "closed"
        /\ Agrees(noted, told[poll.pr], poll.snap)
  <2>1. poll.rec \in Records /\ told[poll.pr].lately \subseteq Int
    BY <1>1, <1>4, PollKnown
  <2>2. OpenedOnce(poll.pr) =>
          /\ Agrees(poll.rec, told[poll.pr], poll.snap)
          /\ told[poll.pr].merged => poll.rec.status = "closed"
    BY <1>1, PollKnown
  <2>3. poll.rec.conflictHead \in Int
        /\ noted.conflictHead = v /\ noted.status = poll.rec.status /\ noted.ci = poll.rec.ci
        /\ noted.reviews = poll.rec.reviews /\ noted.updateHead = poll.rec.updateHead
    BY <2>1, RecordFields
  <2> HIDE DEF noted
  <2> QED BY <1>2, <2>1, <2>2, <2>3 DEF Agrees
<1>6. CASE Proceed(poll.rec, "ci") /\ Quietly
  BY <1>1, <1>5, <1>6, PollKnown, QuietKeeps
<1>7. CASE Tell(ev, noted, noted, "ci")
  <2>1. h \in History
    BY <1>1, <1>2, PollKnown, Histories
  <2>2. s = Replayed(saved[poll.pr], ev)
    BY ReplayedEvents
  <2>3. h = Noted(told[poll.pr], ev)
    BY NotedConflict
  <2>4. OpenedOnce(poll.pr) =>
          /\ Agrees(noted, h, poll.snap)
          /\ h.merged => s = Untracked /\ noted.status = "closed"
          /\ s # Untracked => AgreesSaved(s, h, gh[poll.pr])
    BY <1>1, <1>2, <1>4, <1>5, PollKnown DEF Agrees, AgreesSaved, Records, History
  <2> HIDE DEF h, ev, s, noted
  <2> QED BY <1>1, <1>3, <1>5, <1>7, <2>1, <2>2, <2>3, <2>4, PollKnown,
             TellKeeps DEF s
<1> QED BY <1>6, <1>7 DEF ObserveConflict

LEMMA ReportKeeps ==
  ASSUME PollerInv, poll.at = "ci", NEW rec \in Records, NEW status \in Ci,
         ReportCi(rec, status), UNCHANGED kept,
         OpenedOnce(poll.pr) => /\ Agrees(rec, told[poll.pr], poll.snap)
                                /\ told[poll.pr].merged => rec.status = "closed"
  PROVE  PollerInv'
<1> DEFINE s == IF saved[poll.pr] = Untracked THEN Untracked
                ELSE [saved[poll.pr] EXCEPT !.ci = status]
           h == [told[poll.pr] EXCEPT !.ci = status]
           after == [rec EXCEPT !.ci = status]
           ev == Event("pr.ci.status-changed", status)
<1>1. poll.at \in PollPoints /\ "end" \in PollPoints
  BY DEF PollPoints
<1>2. CASE Proceed(rec, "end") /\ Quietly
  BY <1>1, <1>2, PollKnown, QuietKeeps
<1>3. CASE Tell(ev, rec, after, "end")
  <2>1. /\ after \in Records /\ h \in History
        /\ s = Untracked \/ s \in Records
    BY <1>1, PollKnown, PollRecords, Histories
  <2>2. s = Replayed(saved[poll.pr], ev)
    BY ReplayedEvents
  <2>3. h = Noted(told[poll.pr], ev)
    BY NotedEvents
  <2>4. OpenedOnce(poll.pr) =>
          /\ Agrees(after, h, poll.snap)
          /\ h.merged => s = Untracked /\ after.status = "closed"
          /\ s # Untracked => AgreesSaved(s, h, gh[poll.pr])
    BY <1>1, PollKnown DEF Agrees, AgreesSaved, Records, History
  <2> HIDE DEF h, ev, s, after
  <2> QED BY <1>1, <1>3, <2>1, <2>2, <2>3, <2>4, PollKnown, TellKeeps DEF s
<1> QED BY <1>2, <1>3 DEF ReportCi

LEMMA CiKeeps == ASSUME PollerInv, ObserveCi PROVE PollerInv'
<1> DEFINE denied == [poll.rec EXCEPT !.ciUnavailable = TRUE]
<1>1. poll.at \in PollPoints /\ poll.at = "ci" /\ UNCHANGED kept
      /\ "end" \in PollPoints
  BY DEF ObserveCi, PollPoints
<1>2. CASE Proceed(poll.rec, "end") /\ Quietly
  BY <1>1, <1>2, PollKnown, QuietKeeps
<1>3. CASE Finish(poll.pr, poll.rec) /\ Quietly
  BY <1>1, <1>3, PollKnown, FinishKeeps
<1>4. CASE ReportCi(poll.rec, gh[poll.pr].ci)
  <2>1. gh[poll.pr].ci \in Ci
    BY <1>1, PollKnown DEF Pulls
  <2> QED BY <1>1, <1>4, <2>1, PollKnown, ReportKeeps
<1>5. CASE ReportCi(denied, "unknown")
  <2>1. "unknown" \in Ci /\ denied \in Records
    BY <1>1, PollKnown, PollRecords DEF Ci
  <2>2. OpenedOnce(poll.pr) => /\ Agrees(denied, told[poll.pr], poll.snap)
                               /\ told[poll.pr].merged => denied.status = "closed"
    BY <1>1, PollKnown DEF Agrees, Records
  <2> HIDE DEF denied
  <2> QED BY <1>1, <1>5, <2>1, <2>2, ReportKeeps
<1> QED BY <1>2, <1>3, <1>4, <1>5 DEF ObserveCi

LEMMA EndKeeps == ASSUME PollerInv, EndPoll PROVE PollerInv'
<1>1. poll.at \in PollPoints
  BY DEF EndPoll, PollPoints
<1> QED BY <1>1, PollKnown, FinishKeeps DEF EndPoll
-------------------------------------------------------------------------------
(* The steps around a poll.                                                    *)

\* What the invariant says of one PR.
LEMMA PullKnown ==
  ASSUME PollerInv, NEW pr \in Prs
  PROVE  /\ gh[pr] \in Pulls /\ told[pr] \in History /\ Sound(gh[pr])
         /\ opens[pr] \in 0..MaxOpened /\ pending[pr] \in 0..MaxOpened /\ pending[pr] <= opens[pr]
         /\ opens[pr] \in Nat /\ pending[pr] \in Nat
         /\ phase # "up" => pending[pr] = 0
         /\ opens[pr] = 0 => saved[pr] = Untracked
         /\ records[pr] = Untracked \/ records[pr] \in Records
         /\ saved[pr] = Untracked \/ saved[pr] \in Records
         /\ OpenedOnce(pr) => Remembers(pr) /\ Unfollowed(pr) /\ MergeEnds(pr)
BY BoundsAssumption DEF PollerInv, PollerTypes, TypeOK

LEMMA FetchFailsKeeps ==
  ASSUME PollerInv, NEW pr \in Prs, FetchFails(pr) PROVE PollerInv'
<1> DEFINE m == IF IsClosed(records[pr]) THEN Untracked ELSE records[pr]
<1>1. UNCHANGED <<gh, opens, pending, phase, crashes, saved, told>> /\ poll = NoPoll /\ poll' = NoPoll
  BY DEF FetchFails, kept, Quietly, Finish, Pollable
<1>2. m = Untracked \/ m = records[pr]
  OBVIOUS
<1>3. /\ \A q \in Prs : records'[q] = IF q = pr THEN m ELSE records[q]
      /\ records' = [q \in Prs |-> records'[q]] /\ DOMAIN records' = Prs
  BY DEF FetchFails, Finish, PollerInv, PollerTypes
<1> HIDE DEF m
<1>4. PollerTypes'
  BY <1>1, <1>2, <1>3 DEF PollerInv, PollerTypes, TypeOK, Sound, OnPoll
<1>5. ASSUME NEW q \in Prs, OpenedOnce(q)'
      PROVE  Remembers(q)' /\ Unfollowed(q)' /\ MergeEnds(q)'
  <2>1. OpenedOnce(q) /\ Remembers(q) /\ Unfollowed(q) /\ MergeEnds(q)
    BY <1>1, <1>5 DEF OpenedOnce, PollerInv
  <2>2. records'[q] = Untracked \/ records'[q] = records[q]
    BY <1>2, <1>3
  <2> QED BY <1>1, <2>1, <2>2 DEF Remembers, Unfollowed, MergeEnds, OnPoll
<1> QED BY <1>4, <1>5 DEF PollerInv

\* An answer of GitHub: the record is taken out of the map.
LEMMA StartKeeps ==
  ASSUME PollerInv, NEW pr \in Prs, Pollable(pr), NEW at \in {"ci", "status"}, NEW r \in Records,
         poll' = [at |-> at, pr |-> pr, rec |-> r, snap |-> gh[pr]],
         records' = [records EXCEPT ![pr] = Untracked],
         \A n \in {"status", "ci", "reviews", "updateHead", "conflictHead"} : r[n] = records[pr][n],
         NEW b \in BOOLEAN, told' = [told EXCEPT ![pr].sawMerge = b],
         UNCHANGED saved, UNCHANGED kept
  PROVE  PollerInv'
<1>1. UNCHANGED <<gh, opens, pending, phase, crashes, saved>> /\ poll = NoPoll
      /\ records[pr] # Untracked /\ phase = "up"
  BY DEF kept, Pollable
<1>2. /\ \A q \in Prs : records'[q] = IF q = pr THEN Untracked ELSE records[q]
      /\ records' = [q \in Prs |-> records'[q]] /\ DOMAIN records' = Prs
  BY DEF PollerInv, PollerTypes
<1>3. /\ told' \in [Prs -> History]
      /\ \A q \in Prs : \A n \in {"status", "ci", "seen", "merged", "updates", "lately"} :
           told'[q][n] = told[q][n]
  <2>1. [told[pr] EXCEPT !.sawMerge = b] \in History
    BY PullKnown, Histories
  <2>2. told \in [Prs -> History]
    BY DEF PollerInv, PollerTypes
  <2>3. \A n \in {"status", "ci", "seen", "merged", "updates", "lately"} :
          [told[pr] EXCEPT !.sawMerge = b][n] = told[pr][n]
    BY <2>2 DEF History
  <2> QED BY <2>1, <2>2, <2>3
<1>4. /\ poll'.pr = pr /\ poll'.at = at /\ poll'.rec = r /\ poll'.snap = gh[pr]
      /\ poll' \in Polls /\ poll' # NoPoll
  <2>1. poll' \in Polls
    BY PullKnown DEF Polls, PollPoints
  <2> QED BY <2>1, PollIsRecord
<1>5. \A q \in Prs : ~OnPoll(q) /\ (OnPoll(q)' <=> q = pr)
  BY <1>1, <1>4 DEF OnPoll
<1>6. PollerTypes'
  <2>1. TypeOK'
    BY <1>1, <1>2, <1>4 DEF PollerInv, PollerTypes, TypeOK, Polls, PollPoints
  <2> QED BY <2>1, <1>1, <1>2, <1>3, <1>4, <1>5 DEF PollerInv, PollerTypes, Sound
<1>7. ASSUME NEW q \in Prs, OpenedOnce(q)'
      PROVE  Remembers(q)' /\ Unfollowed(q)' /\ MergeEnds(q)'
  <2>1. OpenedOnce(q) /\ Remembers(q) /\ Unfollowed(q) /\ MergeEnds(q)
    BY <1>1, <1>7 DEF OpenedOnce, PollerInv
  <2>2. /\ told'[q].status = told[q].status /\ told'[q].ci = told[q].ci
        /\ told'[q].seen = told[q].seen /\ told'[q].merged = told[q].merged
        /\ told'[q].updates = told[q].updates /\ told'[q].lately = told[q].lately
    BY <1>3
  <2>3. CASE q = pr
    <3>1. ~told[q].merged /\ opens[q] # 0 /\ ~(pending[q] > 0)
      BY <1>1, <2>1, <2>3 DEF Unfollowed, MergeEnds
    <3>2. Agrees(records[q], told[q], gh[q])
      BY <1>1, <2>1, <2>3 DEF Remembers
    <3>3. Agrees(r, told'[q], gh[q])
      BY <2>2, <2>3, <3>2 DEF Agrees
    <3>4. gh[q].reviews <= gh[q].reviews /\ gh[q].head <= gh[q].head
      BY PullKnown, BoundsAssumption DEF Pulls
    <3>5. saved[q] # Untracked => AgreesSaved(saved[q], told'[q], gh[q])
      BY <2>1, <2>2 DEF Remembers, AgreesSaved
    <3>6. Remembers(q)'
      BY <1>1, <1>2, <1>4, <2>3, <3>3, <3>4, <3>5 DEF Remembers
    <3>7. Unfollowed(q)' /\ MergeEnds(q)'
      BY <1>1, <1>4, <2>2, <3>1 DEF Unfollowed, MergeEnds
    <3> QED BY <3>6, <3>7
  <2>4. CASE q # pr
    BY <1>1, <1>2, <1>5, <2>1, <2>2, <2>4
    DEF Remembers, Unfollowed, MergeEnds, Agrees, AgreesSaved, FreshHistory
  <2> QED BY <2>3, <2>4
<1> QED BY <1>6, <1>7 DEF PollerInv

LEMMA FetchKeeps ==
  ASSUME PollerInv, NEW pr \in Prs, Fetch(pr) PROVE PollerInv'
<1>1. Pollable(pr) /\ records[pr] \in Records
  BY PullKnown DEF Fetch, FetchUnmodified, FetchModified, Pollable
<1>2. CASE FetchUnmodified(pr)
  <2>1. /\ poll' = [at |-> "ci", pr |-> pr, rec |-> records[pr], snap |-> gh[pr]]
        /\ records' = [records EXCEPT ![pr] = Untracked]
        /\ told' = told /\ UNCHANGED saved /\ UNCHANGED kept
    BY <1>2 DEF FetchUnmodified, Quietly
  <2>2. told[pr].sawMerge \in BOOLEAN
    BY PullKnown DEF History
  <2>3. told' = [told EXCEPT ![pr].sawMerge = told[pr].sawMerge]
    BY <2>1 DEF PollerInv, PollerTypes, History
  <2> QED BY <1>1, <2>1, <2>2, <2>3, StartKeeps
<1>3. CASE FetchModified(pr)
  <2> DEFINE r == [records[pr] EXCEPT !.etag = gh[pr].rev, !.head = gh[pr].head]
  <2>1. /\ poll' = [at |-> "status", pr |-> pr, snap |-> gh[pr], rec |-> r]
        /\ records' = [records EXCEPT ![pr] = Untracked]
        /\ told' = [told EXCEPT ![pr].sawMerge = gh[pr].merged]
        /\ UNCHANGED saved /\ UNCHANGED kept
    BY <1>3 DEF FetchModified
  <2>2. gh[pr].merged \in BOOLEAN /\ gh[pr].rev \in 0..MaxRev /\ gh[pr].head \in 0..MaxRev
    BY PullKnown, BoundsAssumption DEF Pulls
  <2>3. r \in Records
    BY <1>1, <2>2 DEF Records
  <2>4. \A n \in {"status", "ci", "reviews", "updateHead", "conflictHead"} : r[n] = records[pr][n]
    BY <1>1 DEF Records
  <2> HIDE DEF r
  <2> QED BY <1>1, <2>1, <2>2, <2>3, <2>4, StartKeeps
<1> QED BY <1>2, <1>3 DEF Fetch

\* GitHub: heads and counts only grow.
LEMMA ChangeKeeps ==
  ASSUME PollerInv, NEW pr \in Prs, NEW gitPr \in Pulls, Sound(gitPr),
         gh' = [gh EXCEPT ![pr] = gitPr], UNCHANGED pollerVars,
         gh[pr].head <= gitPr.head, gh[pr].reviews <= gitPr.reviews
  PROVE  PollerInv'
<1>1. UNCHANGED <<opens, pending, phase, records, poll, saved, told, crashes>>
  BY DEF pollerVars
<1>2. gh' \in [Prs -> Pulls] /\ \A q \in Prs : gh'[q] = IF q = pr THEN gitPr ELSE gh[q]
  BY DEF PollerInv, PollerTypes, TypeOK
<1>3. PollerTypes'
  BY <1>1, <1>2 DEF PollerInv, PollerTypes, TypeOK, OnPoll, Sound
<1>4. ASSUME NEW q \in Prs, OpenedOnce(q)'
      PROVE  Remembers(q)' /\ Unfollowed(q)' /\ MergeEnds(q)'
  <2>1. OpenedOnce(q) /\ Remembers(q) /\ Unfollowed(q) /\ MergeEnds(q)
    BY <1>1, <1>4 DEF OpenedOnce, PollerInv
  <2>2. Unfollowed(q)' /\ MergeEnds(q)'
    BY <1>1, <2>1 DEF Unfollowed, MergeEnds, OnPoll, FreshHistory
  <2>3. /\ gh[q].head <= gh'[q].head /\ gh[q].reviews <= gh'[q].reviews
        /\ gh[q].head \in Int /\ gh'[q].head \in Int
        /\ gh[q].reviews \in Int /\ gh'[q].reviews \in Int
    BY <1>2, PullKnown, BoundsAssumption DEF Pulls
  <2>4. ASSUME NEW rec \in Records, Agrees(rec, told[q], gh[q])
        PROVE  Agrees(rec, told[q], gh'[q])
    BY <2>3, <2>4, RecordFields DEF Agrees
  <2>5. ASSUME NEW rec \in Records, AgreesSaved(rec, told[q], gh[q])
        PROVE  AgreesSaved(rec, told[q], gh'[q])
    BY <2>3, <2>5, RecordFields DEF AgreesSaved
  <2>6. OnPoll(q) => poll.snap.head \in Int /\ poll.snap.reviews \in Int
    BY BoundsAssumption DEF PollerInv, PollerTypes, TypeOK, OnPoll, Pulls
  <2>7. Remembers(q)'
    BY <1>1, <2>1, <2>3, <2>4, <2>5, <2>6, PullKnown DEF Remembers, OnPoll
  <2> QED BY <2>2, <2>7
<1> QED BY <1>3, <1>4 DEF PollerInv

LEMMA GitHubKeeps ==
  ASSUME PollerInv, NEW pr \in Prs, GitHub(pr) PROVE PollerInv'
<1> DEFINE g == gh[pr]
<1>1. /\ g \in Pulls /\ Sound(g)
      /\ g.rev \in 1..MaxRev /\ g.head \in 1..MaxRev /\ g.reviews \in 0..MaxRev
      /\ g.rev \in Int /\ g.head \in Int /\ g.reviews \in Int /\ MaxRev \in Int
  BY PullKnown, BoundsAssumption DEF Pulls
<1>2. ASSUME NEW gitPr \in Pulls, Change(pr, gitPr),
             g.head <= gitPr.head, g.reviews <= gitPr.reviews, gitPr.rev = g.rev,
             gitPr.head <= g.rev + 1, gitPr.reviews < g.rev + 1, gitPr.merged => gitPr.state = "closed"
      PROVE  PollerInv'
  <2> DEFINE p == [gitPr EXCEPT !.rev = @ + 1]
  <2>1. g.rev + 1 \in 1..MaxRev
    BY <1>1, <1>2 DEF Change
  <2>2. /\ p \in Pulls /\ p.rev = g.rev + 1 /\ p.head = gitPr.head /\ p.reviews = gitPr.reviews
        /\ p.merged = gitPr.merged /\ p.state = gitPr.state
    BY <1>2, <2>1 DEF Pulls
  <2>3. Sound(p)
    BY <1>2, <2>2 DEF Sound
  <2>4. gh' = [gh EXCEPT ![pr] = p] /\ UNCHANGED pollerVars
    BY <1>2 DEF Change
  <2> HIDE DEF p
  <2> QED BY <1>2, <2>2, <2>3, <2>4, ChangeKeeps
<1>3. CASE Comment(pr)
  <2> DEFINE gitPr == [g EXCEPT !.reviews = @ + 1]
  <2>1. Change(pr, gitPr) /\ g.reviews + 1 \in 0..MaxRev
    BY <1>1, <1>3 DEF Comment, Change, Sound
  <2>2. /\ gitPr \in Pulls /\ gitPr.head = g.head /\ gitPr.reviews = g.reviews + 1 /\ gitPr.rev = g.rev
        /\ gitPr.merged = g.merged /\ gitPr.state = g.state
    BY <1>1, <2>1 DEF Pulls
  <2> HIDE DEF gitPr
  <2> QED BY <1>1, <1>2, <2>1, <2>2 DEF Sound
<1>4. CASE Push(pr)
  <2> DEFINE gitPr == [g EXCEPT !.head = @ + 1, !.mergeable = "clean"]
  <2>1. Change(pr, gitPr) /\ g.head + 1 \in 1..MaxRev /\ "clean" \in Mergeables
    BY <1>1, <1>4 DEF Push, Change, Sound, Mergeables
  <2>2. /\ gitPr \in Pulls /\ gitPr.head = g.head + 1 /\ gitPr.reviews = g.reviews /\ gitPr.rev = g.rev
        /\ gitPr.merged = g.merged /\ gitPr.state = g.state
    BY <1>1, <2>1 DEF Pulls
  <2> HIDE DEF gitPr
  <2> QED BY <1>1, <1>2, <2>1, <2>2 DEF Sound
<1>5. CASE BaseMoves(pr)
  <2>1. PICK m \in Mergeables : Change(pr, [g EXCEPT !.mergeable = m])
    BY <1>5 DEF BaseMoves
  <2> DEFINE gitPr == [g EXCEPT !.mergeable = m]
  <2>2. /\ gitPr \in Pulls /\ gitPr.head = g.head /\ gitPr.reviews = g.reviews /\ gitPr.rev = g.rev
        /\ gitPr.merged = g.merged /\ gitPr.state = g.state
    BY <1>1 DEF Pulls
  <2>3. Change(pr, gitPr)
    BY <2>1
  <2> HIDE DEF gitPr
  <2> QED BY <1>1, <1>2, <2>2, <2>3 DEF Sound
<1>6. CASE Close(pr)
  <2> DEFINE gitPr == [g EXCEPT !.state = "closed"]
  <2>1. Change(pr, gitPr) /\ "closed" \in States
    BY <1>6 DEF Close, States
  <2>2. /\ gitPr \in Pulls /\ gitPr.head = g.head /\ gitPr.reviews = g.reviews /\ gitPr.rev = g.rev
        /\ gitPr.state = "closed"
    BY <1>1, <2>1 DEF Pulls
  <2> HIDE DEF gitPr
  <2> QED BY <1>1, <1>2, <2>1, <2>2 DEF Sound
<1>7. CASE Reopen(pr)
  <2> DEFINE gitPr == [g EXCEPT !.state = "open"]
  <2>1. Change(pr, gitPr) /\ "open" \in States /\ ~g.merged
    BY <1>7 DEF Reopen, States, Change
  <2>2. /\ gitPr \in Pulls /\ gitPr.head = g.head /\ gitPr.reviews = g.reviews /\ gitPr.rev = g.rev
        /\ gitPr.merged = g.merged
    BY <1>1, <2>1 DEF Pulls
  <2> HIDE DEF gitPr
  <2> QED BY <1>1, <1>2, <2>1, <2>2 DEF Sound
<1>8. CASE Merge(pr)
  <2> DEFINE gitPr == [g EXCEPT !.state = "closed", !.merged = TRUE]
  <2>1. Change(pr, gitPr) /\ "closed" \in States
    BY <1>8 DEF Merge, States
  <2>2. /\ gitPr \in Pulls /\ gitPr.head = g.head /\ gitPr.reviews = g.reviews /\ gitPr.rev = g.rev
        /\ gitPr.state = "closed"
    BY <1>1, <2>1 DEF Pulls
  <2> HIDE DEF gitPr
  <2> QED BY <1>1, <1>2, <2>1, <2>2 DEF Sound
<1>9. CASE CiMoves(pr)
  <2>1. PICK c \in Ci : gh' = [gh EXCEPT ![pr].ci = c] /\ UNCHANGED pollerVars
    BY <1>9 DEF CiMoves
  <2> DEFINE gitPr == [g EXCEPT !.ci = c]
  <2>2. /\ gitPr \in Pulls /\ gitPr.head = g.head /\ gitPr.reviews = g.reviews /\ gitPr.rev = g.rev
        /\ gitPr.merged = g.merged /\ gitPr.state = g.state
    BY <1>1 DEF Pulls
  <2>3. gh' = [gh EXCEPT ![pr] = gitPr]
    BY <2>1
  <2> HIDE DEF gitPr
  <2>4. Sound(gitPr) /\ g.head <= gitPr.head /\ g.reviews <= gitPr.reviews
    BY <1>1, <2>2 DEF Sound
  <2> QED BY <2>1, <2>2, <2>3, <2>4, ChangeKeeps
<1> QED BY <1>3, <1>4, <1>5, <1>6, <1>7, <1>8, <1>9 DEF GitHub

\* A new record agrees with a history in which nothing was told.
LEMMA NewRecordAgrees ==
  ASSUME NEW h \in History, FreshHistory(h), NEW gitPr \in Pulls
  PROVE  Agrees(FromOpened, h, gitPr) /\ AgreesSaved(FromOpened, h, gitPr)
<1>1. gitPr.head \in Int /\ 0 <= gitPr.head
  BY BoundsAssumption DEF Pulls
<1> QED BY <1>1 DEF Agrees, AgreesSaved, FreshHistory, FromOpened, NoHead, NoCount

LEMMA OpenPrKeeps ==
  ASSUME PollerInv, NEW pr \in Prs, OpenPr(pr) PROVE PollerInv'
<1>1. UNCHANGED <<gh, phase, records, poll, told, crashes>>
  BY DEF OpenPr
<1>2. /\ \A q \in Prs : opens'[q] = IF q = pr THEN opens[q] + 1 ELSE opens[q]
      /\ \A q \in Prs : saved'[q] = IF q = pr THEN FromOpened ELSE saved[q]
      /\ saved' = [q \in Prs |-> saved'[q]] /\ DOMAIN saved' = Prs
      /\ opens' \in [Prs -> 0..MaxOpened]
  <2>3. Replayed(saved[pr], Event("pr.opened", pr)) = FromOpened
    BY ReplayedEvents, ZenonT(60)
  <2>1. saved' = [saved EXCEPT ![pr] = FromOpened]
    BY <2>3, Zenon DEF OpenPr
  <2>2. opens[pr] + 1 \in 0..MaxOpened
    BY PullKnown, BoundsAssumption DEF OpenPr
  <2> QED BY <2>1, <2>2 DEF OpenPr, PollerInv, PollerTypes, TypeOK
<1>3. /\ pending' \in [Prs -> 0..MaxOpened]
      /\ \A q \in Prs : pending'[q] = IF q = pr /\ phase = "up" THEN pending[q] + 1 ELSE pending[q]
  <2>1. pending[pr] + 1 \in 0..MaxOpened
    BY PullKnown, BoundsAssumption DEF OpenPr
  <2> QED BY <2>1 DEF OpenPr, PollerInv, PollerTypes, TypeOK
<1>4. PollerTypes'
  <2>1. TypeOK'
    BY <1>1, <1>2, <1>3, TrackedRecords DEF PollerInv, PollerTypes, TypeOK
  <2>2. ASSUME NEW q \in Prs
        PROVE  /\ opens'[q] = 0 => saved'[q] = Untracked
               /\ pending'[q] <= opens'[q]
               /\ phase' # "up" => pending'[q] = 0
    BY <1>1, <1>2, <1>3, PullKnown
  <2> QED BY <2>1, <2>2, <1>1, <1>2 DEF PollerInv, PollerTypes, Sound, OnPoll
<1>5. ASSUME NEW q \in Prs, OpenedOnce(q)'
      PROVE  Remembers(q)' /\ Unfollowed(q)' /\ MergeEnds(q)'
  <2>1. OpenedOnce(q) /\ Remembers(q) /\ Unfollowed(q) /\ MergeEnds(q)
    BY <1>2, <1>5, PullKnown DEF OpenedOnce
  <2>2. CASE q = pr
    <3>1. opens[q] = 0
      BY <1>2, <1>5, <2>2, PullKnown DEF OpenedOnce
    <3>2. records[q] = Untracked /\ ~OnPoll(q) /\ FreshHistory(told[q])
      BY <2>1, <3>1 DEF Unfollowed
    <3>3. AgreesSaved(FromOpened, told[q], gh[q])
      BY <3>2, PullKnown, NewRecordAgrees
    <3> QED BY <1>1, <1>2, <2>2, <3>2, <3>3
        DEF Remembers, Unfollowed, MergeEnds, OnPoll, FreshHistory
  <2>3. CASE q # pr
    BY <1>1, <1>2, <1>3, <2>1, <2>3 DEF Remembers, Unfollowed, MergeEnds, OnPoll
  <2> QED BY <2>2, <2>3
<1> QED BY <1>4, <1>5 DEF PollerInv

LEMMA HandleOpenedKeeps ==
  ASSUME PollerInv, NEW pr \in Prs, HandleOpened(pr) PROVE PollerInv'
<1>1. UNCHANGED <<gh, opens, phase, poll, saved, told, crashes>>
      /\ phase = "up" /\ poll = NoPoll /\ pending[pr] > 0
  BY DEF HandleOpened
<1>2. /\ \A q \in Prs : records'[q] = IF q = pr THEN FromOpened ELSE records[q]
      /\ records' = [q \in Prs |-> records'[q]] /\ DOMAIN records' = Prs
  BY DEF HandleOpened, PollerInv, PollerTypes
<1>3. /\ pending' \in [Prs -> 0..MaxOpened]
      /\ \A q \in Prs : pending'[q] = IF q = pr THEN pending[q] - 1 ELSE pending[q]
  <2>1. pending[pr] - 1 \in 0..MaxOpened
    BY <1>1, PullKnown, BoundsAssumption
  <2> QED BY <2>1 DEF HandleOpened, PollerInv, PollerTypes, TypeOK
<1>4. PollerTypes'
  <2>1. TypeOK'
    BY <1>1, <1>2, <1>3, TrackedRecords DEF PollerInv, PollerTypes, TypeOK
  <2>2. ASSUME NEW q \in Prs
        PROVE  /\ opens'[q] = 0 => saved'[q] = Untracked
               /\ pending'[q] <= opens'[q]
               /\ phase' # "up" => pending'[q] = 0
    BY <1>1, <1>2, <1>3, PullKnown
  <2> QED BY <2>1, <2>2, <1>1, <1>2 DEF PollerInv, PollerTypes, Sound, OnPoll
<1>5. ASSUME NEW q \in Prs, OpenedOnce(q)'
      PROVE  Remembers(q)' /\ Unfollowed(q)' /\ MergeEnds(q)'
  <2>1. OpenedOnce(q) /\ Remembers(q) /\ Unfollowed(q) /\ MergeEnds(q)
    BY <1>1, <1>5, PullKnown DEF OpenedOnce
  <2>2. CASE q = pr
    <3>1. FreshHistory(told[q])
      BY <1>1, <2>1, <2>2 DEF Unfollowed
    <3>2. Agrees(FromOpened, told[q], gh[q])
      BY <3>1, PullKnown, NewRecordAgrees
    <3>3. opens[q] # 0 /\ ~(pending'[q] > 0)
      BY <1>1, <1>3, <1>5, <2>2, PullKnown DEF OpenedOnce
    <3> QED BY <1>1, <1>2, <2>1, <2>2, <3>1, <3>2, <3>3
        DEF Remembers, Unfollowed, MergeEnds, OnPoll, FreshHistory
  <2>3. CASE q # pr
    BY <1>1, <1>2, <1>3, <2>1, <2>3 DEF Remembers, Unfollowed, MergeEnds, OnPoll
  <2> QED BY <2>2, <2>3
<1> QED BY <1>4, <1>5 DEF PollerInv

\* The start: what the replay rebuilds is what was told, and what it does not
\* rebuild is told afresh.
LEMMA LoadKeeps == ASSUME PollerInv, Load PROVE PollerInv'
<1>1. UNCHANGED <<gh, opens, pending, poll, saved, crashes>>
      /\ phase = "down" /\ phase' = "loaded" /\ records' = saved
  BY DEF Load
<1>2. ASSUME NEW q \in Prs
      PROVE  /\ told'[q] \in History
             /\ told'[q].status = told[q].status /\ told'[q].ci = told[q].ci
             /\ told'[q].seen = NoCount /\ told'[q].merged = told[q].merged
             /\ told'[q].updates = told[q].updates /\ told'[q].lately = {}
  <2>1. told'[q] = [told[q] EXCEPT !.seen = NoCount, !.lately = {}]
    BY DEF Load
  <2>2. told[q] \in History
    BY PullKnown
  <2> DEFINE h == told[q]
             h1 == [h EXCEPT !.seen = NoCount]
             h2 == [h1 EXCEPT !.lately = {}]
  <2>3. NoCount \in Int
    BY DEF NoCount
  <2>4. /\ h1 \in History /\ h1.status = h.status /\ h1.ci = h.ci /\ h1.seen = NoCount
        /\ h1.merged = h.merged /\ h1.updates = h.updates
    BY <2>2, <2>3 DEF History
  <2> HIDE DEF h1
  <2>5. /\ h2 \in History /\ h2.status = h1.status /\ h2.ci = h1.ci /\ h2.seen = h1.seen
        /\ h2.merged = h1.merged /\ h2.updates = h1.updates /\ h2.lately = {}
    BY <2>4 DEF History
  <2> QED BY <2>1, <2>4, <2>5 DEF h1
<1>3. told' \in [Prs -> History]
  <2>1. told' = [q \in Prs |-> told'[q]]
    BY DEF Load
  <2> QED BY <1>2, <2>1
<1>4. PollerTypes'
  <2>1. TypeOK'
    BY <1>1 DEF PollerInv, PollerTypes, TypeOK
  <2> QED BY <2>1, <1>1, <1>3 DEF PollerInv, PollerTypes, Sound, OnPoll
<1>5. ASSUME NEW q \in Prs, OpenedOnce(q)'
      PROVE  Remembers(q)' /\ Unfollowed(q)' /\ MergeEnds(q)'
  <2>1. OpenedOnce(q) /\ Remembers(q) /\ Unfollowed(q) /\ MergeEnds(q)
    BY <1>1, <1>5, PullKnown DEF OpenedOnce
  <2>2. ~OnPoll(q) /\ ~OnPoll(q)' /\ pending[q] = 0 /\ ~(pending[q] > 0)
    BY <1>1, <2>1, PullKnown DEF Remembers, OnPoll
  <2>3. saved[q] # Untracked =>
          Agrees(saved[q], told'[q], gh[q]) /\ AgreesSaved(saved[q], told'[q], gh[q])
    <3>1. gh[q].head \in Int /\ 0 <= gh[q].head
      BY PullKnown, BoundsAssumption DEF Pulls
    <3> QED BY <1>2, <2>1, <3>1 DEF Remembers, Agrees, AgreesSaved, NoHead
  <2>4. Remembers(q)'
    BY <1>1, <2>2, <2>3 DEF Remembers
  <2>5. Unfollowed(q)' /\ MergeEnds(q)'
    BY <1>1, <1>2, <2>1, <2>2, PullKnown DEF Unfollowed, MergeEnds, FreshHistory
  <2> QED BY <2>4, <2>5
<1> QED BY <1>4, <1>5 DEF PollerInv

LEMMA SubscribeKeeps == ASSUME PollerInv, Subscribe PROVE PollerInv'
<1>1. UNCHANGED <<gh, opens, pending, records, poll, saved, told, crashes>>
      /\ phase = "loaded" /\ phase' = "up"
  BY DEF Subscribe
<1>2. PollerTypes'
  BY <1>1 DEF PollerInv, PollerTypes, TypeOK, Sound, OnPoll
<1>3. ASSUME NEW q \in Prs, OpenedOnce(q)'
      PROVE  Remembers(q)' /\ Unfollowed(q)' /\ MergeEnds(q)'
  <2>1. OpenedOnce(q) /\ Remembers(q) /\ Unfollowed(q) /\ MergeEnds(q)
    BY <1>1, <1>3, PullKnown DEF OpenedOnce
  <2> QED BY <1>1, <2>1 DEF Remembers, Unfollowed, MergeEnds, OnPoll
<1> QED BY <1>2, <1>3 DEF PollerInv

LEMMA CrashKeeps == ASSUME PollerInv, Crash PROVE PollerInv'
<1>1. /\ UNCHANGED <<gh, opens, saved, told>> /\ phase' = "down" /\ poll' = NoPoll
      /\ records' = [q \in Prs |-> Untracked] /\ pending' = [q \in Prs |-> 0]
      /\ crashes' \in 0..MaxCrashes
  BY BoundsAssumption DEF Crash, PollerInv, PollerTypes, TypeOK
<1>2. PollerTypes'
  <2>1. TypeOK'
    BY <1>1, BoundsAssumption DEF PollerInv, PollerTypes, TypeOK
  <2>2. \A q \in Prs : pending'[q] <= opens'[q]
    BY <1>1, PullKnown
  <2> QED BY <2>1, <2>2, <1>1 DEF PollerInv, PollerTypes, Sound, OnPoll
<1>3. ASSUME NEW q \in Prs, OpenedOnce(q)'
      PROVE  Remembers(q)' /\ Unfollowed(q)' /\ MergeEnds(q)'
  <2>1. OpenedOnce(q) /\ Remembers(q) /\ Unfollowed(q) /\ MergeEnds(q)
    BY <1>1, <1>3, PullKnown DEF OpenedOnce
  <2> QED BY <1>1, <2>1 DEF Remembers, Unfollowed, MergeEnds, OnPoll
<1> QED BY <1>2, <1>3 DEF PollerInv
-------------------------------------------------------------------------------

LEMMA PollerInvInitially == ASSUME Init PROVE PollerInv
<1>1. NewPull \in Pulls /\ Sound(NewPull)
  BY BoundsAssumption DEF NewPull, Pulls, States, Mergeables, Ci, Sound
<1>2. NothingTold \in History /\ FreshHistory(NothingTold)
  BY DEF NothingTold, History, NoCount, FreshHistory
<1>3. PollerTypes
  BY <1>1, <1>2, BoundsAssumption DEF Init, PollerTypes, TypeOK, OnPoll
<1>4. ASSUME NEW pr \in Prs
      PROVE  Remembers(pr) /\ Unfollowed(pr) /\ MergeEnds(pr)
  BY <1>2 DEF Init, Remembers, Unfollowed, MergeEnds, OnPoll, FreshHistory
<1> QED BY <1>3, <1>4 DEF PollerInv

LEMMA PollerInvInductive == PollerInv /\ [Next]_vars => PollerInv'
<1> SUFFICES ASSUME PollerInv, [Next]_vars PROVE PollerInv'
  OBVIOUS
<1>1. ASSUME NEW pr \in Prs,
             OpenPr(pr) \/ GitHub(pr) \/ HandleOpened(pr) \/ Fetch(pr) \/ FetchFails(pr)
      PROVE  PollerInv'
  BY <1>1, OpenPrKeeps, GitHubKeeps, HandleOpenedKeeps, FetchKeeps, FetchFailsKeeps
<1>2. CASE Load \/ Subscribe \/ Crash
  BY <1>2, LoadKeeps, SubscribeKeeps, CrashKeeps
<1>3. CASE PollStep
  BY <1>3, StatusKeeps, MergedKeeps, ReviewsKeeps, BehindKeeps, ConflictKeeps,
     CiKeeps, EndKeeps
     DEF PollStep
<1>4. CASE UNCHANGED vars
  <2>1. UNCHANGED <<gh, opens, pending, phase, records, poll, saved, told, crashes>>
    BY <1>4 DEF vars
  <2>2. PollerTypes'
    BY <2>1 DEF PollerInv, PollerTypes, TypeOK, Sound, OnPoll
  <2>3. ASSUME NEW pr \in Prs, OpenedOnce(pr)'
        PROVE  Remembers(pr)' /\ Unfollowed(pr)' /\ MergeEnds(pr)'
    <3>1. OpenedOnce(pr) /\ Remembers(pr) /\ Unfollowed(pr) /\ MergeEnds(pr)
      BY <2>1, <2>3, PullKnown DEF OpenedOnce
    <3> QED BY <2>1, <3>1 DEF Remembers, Unfollowed, MergeEnds, OnPoll
  <2> QED BY <2>2, <2>3 DEF PollerInv
<1> QED BY <1>1, <1>2, <1>3, <1>4 DEF Next

LEMMA PollerInvariant == Spec => []PollerInv
<1>1. Init => PollerInv
  BY PollerInvInitially
<1> QED BY <1>1, PollerInvInductive, PTL DEF Spec

\* What a record is, wherever the poller holds it.
LEMMA MemoryAgrees ==
  ASSUME PollerInv, NEW pr \in Prs, NEW rec \in Memory(pr), OpenedOnce(pr)
  PROVE  /\ rec.status = told[pr].status /\ rec.ci = told[pr].ci
         /\ rec.reviews # NoCount => rec.reviews = told[pr].seen
<1>1. Remembers(pr)
  BY PullKnown
<1>2. \/ rec = records[pr] /\ records[pr] # Untracked
      \/ rec = poll.rec /\ OnPoll(pr)
  <2>1. CASE OnPoll(pr)
    <3>1. rec \in ({records[pr]} \ {Untracked}) \union {poll.rec}
      BY <2>1 DEF Memory, OnPoll
    <3> QED BY <2>1, <3>1
  <2>2. CASE ~OnPoll(pr)
    <3>1. rec \in {records[pr]} \ {Untracked}
      BY <2>2 DEF Memory, OnPoll
    <3> QED BY <3>1
  <2> QED BY <2>1, <2>2
<1> QED BY <1>1, <1>2 DEF Remembers, Agrees

\* Every reachable state is well typed.
THEOREM PollerTypeCorrect == Spec => []TypeOK
<1>1. PollerInv => TypeOK
  BY DEF PollerInv, PollerTypes
<1> QED BY <1>1, PollerInvariant, PTL

\* No status and no CI status is told twice, for any PRs, any faults and any
\* number of crashes (observe_pr_status, observe_ci).
THEOREM OnlyChangesToldHolds == Spec => []OnlyChangesTold
<1>1. PollerInv => OnlyChangesTold
  BY MemoryAgrees DEF OnlyChangesTold
<1> QED BY <1>1, PollerInvariant, PTL

\* The count of reviews in a record is the baseline and what was told since
\* (observe_reviews).
THEOREM ReviewsAccountedHolds == Spec => []ReviewsAccounted
<1>1. PollerInv => ReviewsAccounted
  BY MemoryAgrees DEF ReviewsAccounted
<1> QED BY <1>1, PollerInvariant, PTL

\* One update-branch for a head and one merge for a PR, over restarts too, and
\* one conflict for a head in each life of the poller.
THEOREM ActedOncePerCauseHolds == Spec => []ActedOncePerCause
<1>1. ASSUME PollerInv PROVE UpdateBranchOncePerHead
  <2> SUFFICES ASSUME poll.at = "behind", OpenedOnce(poll.pr), NeedsUpdate(poll.rec, poll.snap),
                      poll.snap.head \in told[poll.pr].updates
               PROVE  FALSE
    BY DEF UpdateBranchOncePerHead
  <2>1. poll.rec \in Records /\ poll.snap \in Pulls /\ Agrees(poll.rec, told[poll.pr], poll.snap)
    BY <1>1, PollKnown DEF PollPoints
  <2>2. poll.rec.updateHead \in Int /\ poll.snap.head \in Int
    BY <2>1, RecordFields, BoundsAssumption DEF Pulls
  <2> QED BY <2>1, <2>2 DEF Agrees, NeedsUpdate
<1>2. ASSUME PollerInv PROVE ConflictOncePerHead
  <2> SUFFICES ASSUME poll.at = "conflict", OpenedOnce(poll.pr), NewConflict(poll.rec, poll.snap),
                      poll.snap.head \in told[poll.pr].lately
               PROVE  FALSE
    BY DEF ConflictOncePerHead
  <2>1. poll.rec \in Records /\ poll.snap \in Pulls /\ Agrees(poll.rec, told[poll.pr], poll.snap)
    BY <1>2, PollKnown DEF PollPoints
  <2>2. poll.rec.conflictHead \in Int /\ poll.snap.head \in Int
    BY <2>1, RecordFields, BoundsAssumption DEF Pulls
  <2> QED BY <2>1, <2>2 DEF Agrees, NewConflict
<1>3. ASSUME PollerInv PROVE MergeToldOnce
  BY <1>3, PollKnown DEF MergeToldOnce, PollPoints
<1>4. PollerInv => ActedOncePerCause
  BY <1>1, <1>2, <1>3 DEF ActedOncePerCause
<1> QED BY <1>4, PollerInvariant, PTL
=============================================================================
