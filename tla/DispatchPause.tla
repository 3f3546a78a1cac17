---------------------------- MODULE DispatchPause ----------------------------
(***************************************************************************)
(* The pause of dispatch, kept in the KV bucket dispatch-state.  The CLI   *)
(* (crates/jam-cli) and crates/jam-svc-supervise set and clear it under    *)
(* two keys, one put after the other; crates/jam-patch-agent sets it after *)
(* an incident; jam task spawn reads it before it publishes                *)
(* task.requested, and the web server (crates/jam-ui-server) does not.     *)
(***************************************************************************)
EXTENDS FiniteSets

CONSTANTS
  Toggles,       \* calls of pause-dispatch and resume-dispatch
  Spawns,        \* calls of jam task spawn, and of the web server's
  FromWeb,       \* the latter
  DispatchFaults \* what may fail: "put"

ASSUME DispatchAssumption == FromWeb \subseteq Spawns /\ DispatchFaults \subseteq {"put"}

VARIABLES
  bucket,  \* dispatch-state: the value of each key, or "absent"
  toggle,  \* [by, want, step] of each call, and whether a resume overlaps it
  spawn,   \* [step, bound]: bound are the pauses that held when it began
  holding  \* who paused, was told so, and has not been overruled by a resume

dispatchVars == <<bucket, toggle, spawn, holding>>

Bucket == {"dispatch-paused", "state", "paused", "state.json"}
FlagKey(by) == IF by = "agent" THEN "paused" ELSE "dispatch-paused"
RecordKey(by) == IF by = "agent" THEN "state.json" ELSE "state"

DispatchInit ==
  /\ bucket = [k \in Bucket |-> "absent"]
  /\ toggle \in [Toggles ->
       {r \in [by: {"operator", "agent"}, want: {"true", "false"}, step: {"idle"}, crossed: {FALSE}] :
          r.by = "agent" => r.want = "true"}]
  /\ spawn = [c \in Spawns |-> [step |-> "idle", bound |-> {}]]
  /\ holding = {}

MayPut(ok) == ok \/ "put" \in DispatchFaults
Put(key, value) == bucket' = [bucket EXCEPT ![key] = value]
Resuming == {t \in Toggles : toggle[t].want = "false" /\ toggle[t].step \in {"flag", "record"}}

\* A call arrives, is valid and opens the bucket; a resume may overrule every
\* pause from now on, also those that are being set.
BeginToggle(t) ==
  /\ toggle[t].step = "idle"
  /\ IF toggle[t].want = "true"
       THEN /\ toggle' = [toggle EXCEPT ![t].step = "flag", ![t].crossed = Resuming # {}]
            /\ UNCHANGED <<holding, spawn>>
       ELSE /\ toggle' = [u \in Toggles |->
                 IF u = t THEN [toggle[u] EXCEPT !.step = "flag"]
                 ELSE [toggle[u] EXCEPT !.crossed = @ \/ toggle[u].step \in {"flag", "record"}]]
            /\ holding' = {}
            /\ spawn' = [c \in Spawns |-> [spawn[c] EXCEPT !.bound = {}]]
  /\ UNCHANGED bucket

\* write_dispatch_pause_record: the flag.
PutFlag(t, ok) ==
  /\ toggle[t].step = "flag"
  /\ MayPut(ok)
  /\ IF ok THEN Put(FlagKey(toggle[t].by), toggle[t].want) ELSE UNCHANGED bucket
  /\ toggle' = [toggle EXCEPT ![t].step = IF ok THEN "record" ELSE "failed"]
  /\ UNCHANGED <<spawn, holding>>

\* Faulty variant: the record is put under the flag's key.
PutRecordAsFlag(t, ok) ==
  /\ toggle[t].step = "record" /\ ok
  /\ Put(FlagKey(toggle[t].by), toggle[t].want)
  /\ toggle' = [toggle EXCEPT ![t].step = "done"]
  /\ UNCHANGED <<spawn, holding>>

\* ... and the record, of which dispatch_paused matters here.
PutRecord(t, ok) ==
  LET call == toggle[t]
  IN /\ call.step = "record"
     /\ MayPut(ok)
     /\ IF ok THEN Put(RecordKey(call.by), call.want) ELSE UNCHANGED bucket
     /\ toggle' = [toggle EXCEPT ![t].step = IF ok THEN "done" ELSE "failed"]
     /\ holding' = IF ok /\ call.want = "true" /\ ~call.crossed
                     THEN holding \union {call.by} ELSE holding
     /\ UNCHANGED spawn

\* run_task_spawn, or the web server's task_spawn_handler, which goes straight
\* to the publish.
BeginSpawn(c) ==
  /\ spawn[c].step = "idle"
  /\ spawn' = [spawn EXCEPT ![c] =
                 [step |-> IF c \in FromWeb THEN "publish" ELSE "flag", bound |-> holding]]
  /\ UNCHANGED <<bucket, toggle, holding>>

Turn(c, step) ==
  /\ spawn' = [spawn EXCEPT ![c].step = step]
  /\ UNCHANGED <<bucket, toggle, holding>>

\* Faulty variant: the flag is read under the agent's name for it.
ReadAgentFlag(c) ==
  /\ spawn[c].step = "flag"
  /\ Turn(c, IF bucket["paused"] = "true" THEN "record" ELSE "publish")

\* dispatch_pause_status: the flag, and when it is set the record, which
\* decides, or stands for a pause when it is missing.
ReadFlag(c) ==
  /\ spawn[c].step = "flag"
  /\ Turn(c, IF bucket["dispatch-paused"] = "true" THEN "record" ELSE "publish")

ReadRecord(c) ==
  /\ spawn[c].step = "record"
  /\ Turn(c, IF bucket["state"] = "false" THEN "publish" ELSE "refused")

\* task.requested is published, or its publish fails.
RequestTask(c) ==
  /\ spawn[c].step = "publish"
  /\ \E step \in {"requested", "failed"} : Turn(c, step)

DispatchNext ==
  \/ \E t \in Toggles :
       \/ BeginToggle(t)
       \/ \E ok \in BOOLEAN : PutFlag(t, ok) \/ PutRecord(t, ok)
  \/ \E c \in Spawns : BeginSpawn(c) \/ ReadFlag(c) \/ ReadRecord(c) \/ RequestTask(c)

DispatchSpec == DispatchInit /\ [][DispatchNext]_dispatchVars
-----------------------------------------------------------------------------

DispatchTypeOK ==
  /\ bucket \in [Bucket -> {"absent", "true", "false"}]
  /\ \A t \in Toggles :
       /\ toggle[t].step \in {"idle", "flag", "record", "done", "failed"}
       /\ toggle[t].step = "done" => bucket[FlagKey(toggle[t].by)] # "absent"
                                     /\ bucket[RecordKey(toggle[t].by)] # "absent"
  /\ spawn \in [Spawns -> [step: {"idle", "flag", "record", "publish", "requested", "refused",
                                  "failed"},
                           bound: SUBSET {"operator", "agent"}]]
  /\ holding \subseteq {"operator", "agent"}

\* jam task spawn (dispatch_pause_status) is refused when it began after an
\* operator was told that dispatch is paused, if no resume has overlapped that
\* pause or come after it, whatever calls before it overlapped or failed half
\* way.
PauseHolds ==
  \A c \in Spawns \ FromWeb : "operator" \in spawn[c].bound =>
    spawn[c].step \notin {"publish", "requested"}

\* api-pause-dispatch.md: "Triggered automatically ... on patch-agent failure
\* escalation": the same of the pause after an incident.
IncidentPauses ==
  \A c \in Spawns \ FromWeb : "agent" \in spawn[c].bound => spawn[c].step # "requested"

\* api-pause-dispatch.md: "Temporarily stops new spawns": the same of a task
\* that the web asks for.
WebIsPaused ==
  \A c \in FromWeb : "operator" \in spawn[c].bound => spawn[c].step # "requested"
=============================================================================
