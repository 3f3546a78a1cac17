------------------------------ MODULE NtfyBridge ------------------------------
(***************************************************************************)
(* jam-ntfy-bridge: notify.human messages are handled one after another    *)
(* and posted with curl to the configured topic (JAM_NTFY_TOPIC, --topic)  *)
(* or to that of this installation, whose name is made once and kept in a  *)
(* file.  A message is lost while the bridge is down, and one that cannot  *)
(* be delivered is logged and forgotten.                                   *)
(***************************************************************************)
EXTENDS Integers, Sequences, FiniteSets, SequencesExt

CONSTANTS
  Bodies,       \* rendered bodies: the widths of their characters, in bytes
  MaxBody,      \* MAX_BODY_LEN
  InstallIds,   \* topics: names an installation may draw or be given
  MaxNotified,  \* messages published
  MaxTries,     \* attempts to start curl while it is busy
  NtfyFaults    \* what may fail: "curl", "busy", "file"

ASSUME NtfyAssumption ==
  /\ \A b \in Bodies : \A i \in DOMAIN b : b[i] \in 1..4
  /\ MaxBody \in Nat \ {0} /\ MaxNotified \in Nat /\ MaxTries \in Nat \ {0}
  /\ {"missing", "empty", "none"} \cap InstallIds = {}
  /\ NtfyFaults \subseteq {"curl", "busy", "file"}

VARIABLES
  ownTopic,    \* the configured topic, "none" without one
  installFile, \* install-id: "missing", "empty" or a name
  bridge,      \* the process: [at, topic, inbox, tries]
  notified,    \* messages published on notify.human so far
  phone        \* what ntfy has received: [n, topic], in order

ntfyVars == <<ownTopic, installFile, bridge, notified, phone>>

NtfyErr(kind) == kind \in NtfyFaults
Down == [at |-> "down"]
Idle(topic, inbox) == [at |-> "waiting", topic |-> topic, inbox |-> inbox, tries |-> 0]

NtfyInit ==
  /\ ownTopic \in InstallIds \union {"none"}
  /\ installFile = "missing" /\ bridge = Down /\ notified = 0 /\ phone = <<>>

\* Faulty variant: the name is drawn before the file is looked at.
StartNtfyFresh ==
  /\ bridge.at = "down" /\ ownTopic = "none" /\ installFile # "empty"
  /\ \E id \in InstallIds : installFile' = id /\ bridge' = Idle(id, <<>>)
  /\ UNCHANGED <<notified, phone>>

\* Config::from_env_and_cli: the configured topic leaves install-id alone.
\* Without one load_or_create_install_id reads the name, or draws one and
\* writes it; an empty file, which a crash between truncating and writing
\* leaves, refuses every later start.
StartNtfy ==
  /\ bridge.at = "down"
  /\ \/ /\ ownTopic # "none"
        /\ bridge' = Idle(ownTopic, <<>>) /\ UNCHANGED installFile
     \/ /\ ownTopic = "none" /\ installFile \in InstallIds
        /\ bridge' = Idle(installFile, <<>>) /\ UNCHANGED installFile
     \/ /\ ownTopic = "none" /\ installFile = "missing"
        /\ \/ \E id \in InstallIds : installFile' = id /\ bridge' = Idle(id, <<>>)
           \/ NtfyErr("file") /\ installFile' = "empty" /\ UNCHANGED bridge
  /\ UNCHANGED <<notified, phone>>

\* A service publishes: the bridge gets it when it is subscribed.
PublishNotify ==
  /\ notified < MaxNotified
  /\ notified' = notified + 1
  /\ bridge' = IF bridge.at = "down" THEN bridge
               ELSE [bridge EXCEPT !.inbox = Append(@, notified + 1)]
  /\ UNCHANGED <<installFile, phone>>

\* handle_notify_message up to the call.
TakeNotify ==
  /\ bridge.at = "waiting" /\ bridge.inbox # <<>>
  /\ bridge' = [bridge EXCEPT !.at = "sending"]
  /\ UNCHANGED <<installFile, notified, phone>>

\* validate_notification: a message without a trace, with an unknown urgency
\* or a summary that is empty or too long is only logged.
IgnoreNotify ==
  /\ bridge.at = "waiting" /\ bridge.inbox # <<>>
  /\ bridge' = [bridge EXCEPT !.inbox = Tail(@)]
  /\ UNCHANGED <<installFile, notified, phone>>

BytesOf(body, n) == FoldLeft(LAMBDA x, y : x + y, 0, SubSeq(body, 1, n))

\* render_body: String::truncate panics when the limit is inside a character.
Renders(body) ==
  \/ BytesOf(body, Len(body)) <= MaxBody
  \/ \E n \in 0..Len(body) : BytesOf(body, n) = MaxBody

\* The panic is one of main's own task and ends the process.
PanicOnBody ==
  /\ bridge.at = "sending" /\ \E body \in Bodies : ~Renders(body)
  /\ bridge' = Down
  /\ UNCHANGED <<installFile, notified, phone>>

Done(b) == Idle(b.topic, Tail(b.inbox))
Posted == [n |-> Head(bridge.inbox), topic |-> bridge.topic]

\* Faulty variant: a call that failed is made again.
SendNtfyAgain ==
  /\ bridge.at = "sending" /\ \E body \in Bodies : Renders(body)
  /\ \/ phone' = Append(phone, Posted) /\ bridge' = Done(bridge)
     \/ NtfyErr("curl") /\ bridge.tries < MaxTries /\ phone' = Append(phone, Posted)
        /\ bridge' = [bridge EXCEPT !.tries = @ + 1]
  /\ UNCHANGED <<installFile, notified>>

\* send_ntfy: curl that is busy being written is started again; once it ran,
\* its answer is final, also the one that came too late to be seen.
SendNtfy ==
  /\ bridge.at = "sending" /\ \E body \in Bodies : Renders(body)
  /\ \/ phone' = Append(phone, Posted) /\ bridge' = Done(bridge)
     \/ /\ NtfyErr("busy") /\ bridge.tries < MaxTries
        /\ bridge' = [bridge EXCEPT !.tries = @ + 1] /\ UNCHANGED phone
     \/ NtfyErr("curl") /\ bridge' = Done(bridge) /\ UNCHANGED phone
  /\ UNCHANGED <<installFile, notified>>

\* The process ends; what it had not handled is lost.
NtfyEnds ==
  /\ bridge.at # "down"
  /\ bridge' = Down
  /\ UNCHANGED <<installFile, notified, phone>>

NtfyNext ==
  /\ \/ StartNtfy \/ PublishNotify \/ TakeNotify \/ IgnoreNotify
     \/ PanicOnBody \/ SendNtfy \/ NtfyEnds
  /\ UNCHANGED ownTopic
-----------------------------------------------------------------------------

NtfyTypeOK ==
  /\ ownTopic \in InstallIds \union {"none"}
  /\ installFile \in InstallIds \union {"missing", "empty"}
  /\ bridge.at \in {"down", "waiting", "sending"}
  /\ notified \in 0..MaxNotified

\* The phone follows one topic for the life of the installation, unless another
\* one is configured, and gets each message at most once and in the order of
\* publication, over any restarts and attempts (main.rs:219-285, 435-450).
NotifiedOnce ==
  \A i, j \in DOMAIN phone :
    /\ phone[i].topic = phone[j].topic
    /\ i < j => phone[i].n < phone[j].n
=============================================================================
