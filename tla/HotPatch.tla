------------------------------- MODULE HotPatch -------------------------------
(***************************************************************************)
(* The patch agent (crates/jam-patch-agent) and the routing manifest of    *)
(* crates/jam-nats: a staged version is started under a subject prefix of  *)
(* its own, checked, made the manifest's current route and the process it  *)
(* replaces drained; patch.applied comes back to the agent, which checks   *)
(* the service again and rolls the manifest back if it is not well.        *)
(*                                                                         *)
(* The agent takes one message at a time from its three subscriptions, in  *)
(* any order between them, and is the only writer of the manifest.         *)
(***************************************************************************)
EXTENDS Naturals, Sequences

CONSTANTS
  PatchServices,
  MaxVersion,    \* versions of a service: 1..MaxVersion
  MaxStaged,     \* bound: patches staged
  MaxAsked,      \* bound: rollbacks asked for
  MaxAgentDeaths, \* bound: deaths of the agent
  PatchFaults    \* what may fail: "install", "health", "swap", "drain", "publish"

ASSUME PatchServicesAssumption == PatchServices # {}
ASSUME PatchBoundsAssumption ==
  {MaxVersion, MaxStaged, MaxAsked, MaxAgentDeaths} \subseteq Nat /\ MaxVersion > 0
ASSUME PatchFaultsAssumption ==
  PatchFaults \subseteq {"install", "health", "swap", "drain", "publish"}

VARIABLES
  manifest,   \* revisions of routing-manifest/current: routes and predecessor
  patchLock,  \* patch-lock/current exists
  running,    \* processes of each service and version that answer
  staged,     \* patch.staged messages not yet taken
  applied,    \* patch.applied messages not yet taken
  asked,      \* patch.rollback-requested messages not yet taken
  agent,      \* what the agent is doing
  verdict,    \* of each service's latest patch: "none", "open", or how it ended
              \* ("lost": an incident of another service ended the agent)
  reverted,   \* services whose route a rollback moved to a drained process
  stagings, askings, agentDeaths

patchVars == <<manifest, patchLock, running, staged, applied, asked, agent, verdict,
               reverted, stagings, askings, agentDeaths>>
inboxes == <<staged, applied, asked>>
patchBounds == <<stagings, askings, agentDeaths>>
marks == <<verdict, reverted>>

Versions == 1..MaxVersion
NoVersion == 0
NoRoutes == [s \in PatchServices |-> NoVersion]
Patches == [s: PatchServices, v: Versions]
AgentPcs == {"idle", "installing", "verifying", "stopping", "swapping", "telling",
             "draining", "unlocking", "checking", "rolling", "relaunching",
             "rechecking", "diagnosing", "failing", "down"}
NoPatch == [s |-> CHOOSE s \in PatchServices : TRUE, v |-> 1]
AgentIdle == [pc |-> "idle", job |-> "none", p |-> NoPatch, llm |-> FALSE]

Routes == IF manifest = <<>> THEN NoRoutes ELSE manifest[Len(manifest)].route
Agent(pc) == agent.pc = pc
AgentGoes(pc) == agent' = [agent EXCEPT !.pc = pc]
Svc == agent.p.s
Ver == agent.p.v
MayFail(fault, ok) == ok \/ fault \in PatchFaults

PatchInit ==
  /\ manifest = <<>> /\ patchLock = FALSE
  /\ running = [s \in PatchServices |-> [v \in Versions |-> 0]]
  /\ staged = <<>> /\ applied = <<>> /\ asked = <<>>
  /\ agent = AgentIdle
  /\ verdict = [s \in PatchServices |-> "none"]
  /\ reverted = {}
  /\ stagings = 0 /\ askings = 0 /\ agentDeaths = 0

\* jam deploy publishes patch.staged, jam patch rollback its request; a
\* message published while the agent is down is lost.
Stage(p) ==
  /\ stagings < MaxStaged /\ stagings' = stagings + 1
  /\ staged' = IF Agent("down") THEN staged ELSE Append(staged, p)
  /\ UNCHANGED <<manifest, patchLock, running, applied, asked, agent, marks, askings, agentDeaths>>

AskRollback(s) ==
  /\ askings < MaxAsked /\ askings' = askings + 1
  /\ asked' = IF Agent("down") THEN asked ELSE Append(asked, s)
  /\ UNCHANGED <<manifest, patchLock, running, staged, applied, agent, marks, stagings,
                 agentDeaths>>
-------------------------------------------------------------------------------
(* apply_staged_patch *)

\* acquire_patch_lock: the key is created or the patch refused; when the event
\* after the key fails, the patch is refused and the key stays.
TakeStaged ==
  /\ Agent("idle") /\ staged # <<>>
  /\ staged' = Tail(staged)
  /\ patchLock' = TRUE
  /\ \/ (patchLock \/ "publish" \in PatchFaults) /\ UNCHANGED agent
     \/ /\ ~patchLock
        /\ agent' = [pc |-> "installing", job |-> "apply", p |-> Head(staged), llm |-> FALSE]
  /\ UNCHANGED <<manifest, running, applied, asked, marks, patchBounds>>

\* The binary is installed, the manifest loaded and the version started.  One
\* that is current already is confirmed and not started again; a checksum that
\* differs, and whatever else fails here, ends the patch.
Install ==
  /\ Agent("installing")
  /\ \/ /\ Routes[Svc] = Ver \/ "install" \in PatchFaults
        /\ AgentGoes("unlocking") /\ UNCHANGED running
     \/ /\ Routes[Svc] # Ver
        /\ AgentGoes("verifying") /\ running' = [running EXCEPT ![Svc][Ver] = @ + 1]
  /\ UNCHANGED <<manifest, patchLock, inboxes, marks, patchBounds>>

\* verify_patch_service_health: a ping under the new prefix.
Verify(ok) ==
  /\ Agent("verifying") /\ MayFail("health", ok)
  /\ AgentGoes(IF ok THEN "swapping" ELSE "stopping")
  /\ UNCHANGED <<manifest, patchLock, running, inboxes, marks, patchBounds>>

StopCandidate ==
  /\ Agent("stopping")
  /\ running' = [running EXCEPT ![Svc][Ver] = @ - 1]
  /\ AgentGoes("unlocking")
  /\ UNCHANGED <<manifest, patchLock, inboxes, marks, patchBounds>>

\* Faulty variant: the predecessor named is the revision being written.
SwapToItself ==
  /\ Agent("swapping")
  /\ manifest' = Append(manifest, [route |-> [Routes EXCEPT ![Svc] = Ver],
                                   prev |-> Len(manifest) + 1])
  /\ AgentGoes("telling")
  /\ UNCHANGED <<patchLock, running, inboxes, marks, patchBounds>>

\* The manifest loaded before is written back with the new route, by
\* compare-and-set.
Swap ==
  /\ Agent("swapping")
  /\ manifest' = Append(manifest, [route |-> [Routes EXCEPT ![Svc] = Ver],
                                   prev |-> Len(manifest)])
  /\ verdict' = [verdict EXCEPT ![Svc] = "open"]
  /\ reverted' = reverted \ {Svc}
  /\ AgentGoes("telling")
  /\ UNCHANGED <<patchLock, running, inboxes, patchBounds>>

\* The write is refused or fails: the candidate is stopped.
SwapFails ==
  /\ Agent("swapping") /\ "swap" \in PatchFaults
  /\ AgentGoes("stopping")
  /\ UNCHANGED <<manifest, patchLock, running, inboxes, marks, patchBounds>>

\* publish_apply_events; the agent is a subscriber of patch.applied itself.
TellApplied(ok) ==
  /\ Agent("telling") /\ MayFail("publish", ok)
  /\ applied' = IF ok THEN Append(applied, agent.p) ELSE applied
  /\ AgentGoes(IF ok THEN "draining" ELSE "unlocking")
  /\ UNCHANGED <<manifest, patchLock, running, staged, asked, marks, patchBounds>>

\* Faulty variant: the drain goes to the prefix that was just made current.
DrainCurrent(ok) ==
  /\ Agent("draining") /\ MayFail("drain", ok)
  /\ running' = IF ok THEN [running EXCEPT ![Svc][Ver] = 0] ELSE running
  /\ AgentGoes("unlocking")
  /\ UNCHANGED <<manifest, patchLock, inboxes, marks, patchBounds>>

\* drain_previous_patch_service: every process under the old prefix answers
\* and exits; the end of the apply is an error if none does.
DrainPrevious(ok) ==
  LET prev == manifest[Len(manifest)].prev
      old == IF prev = 0 THEN NoVersion ELSE manifest[prev].route[Svc]
  IN /\ Agent("draining") /\ MayFail("drain", ok)
     /\ running' = IF ok /\ old # NoVersion THEN [running EXCEPT ![Svc][old] = 0] ELSE running
     /\ AgentGoes("unlocking")
     /\ UNCHANGED <<manifest, patchLock, inboxes, marks, patchBounds>>

\* release_patch_lock, after success and failure.
Unlock ==
  /\ Agent("unlocking")
  /\ patchLock' = FALSE
  /\ IF agent.job = "verify" THEN AgentGoes("relaunching") ELSE agent' = AgentIdle
  /\ UNCHANGED <<manifest, running, inboxes, marks, patchBounds>>
-------------------------------------------------------------------------------
(* perform_rollback *)

\* rollback_locked: the revision before the current one is written again, the
\* routes of all services with it.
CanRollBack(s) ==
  /\ manifest # <<>>
  /\ LET prev == manifest[Len(manifest)].prev
     IN prev # 0 /\ manifest[prev].route[s] # NoVersion /\ Routes[s] # NoVersion

RollBack ==
  LET old == manifest[manifest[Len(manifest)].prev]
  IN /\ Agent("rolling") /\ CanRollBack(Svc)
     /\ manifest' = Append(manifest, old)
     /\ reverted' = {s \in PatchServices : old.route[s] # NoVersion /\ running[s][old.route[s]] = 0}
     /\ verdict' = [verdict EXCEPT ![Svc] = IF @ = "open" /\ agent.job = "ask" THEN "undone" ELSE @]
     /\ AgentGoes("unlocking")
     /\ UNCHANGED <<patchLock, running, inboxes, patchBounds>>

RollBackFails ==
  /\ Agent("rolling") /\ (~CanRollBack(Svc) \/ "swap" \in PatchFaults)
  /\ patchLock' = FALSE
  /\ IF agent.job = "verify"
     THEN AgentGoes(IF agent.llm THEN "failing" ELSE "diagnosing")
     ELSE agent' = AgentIdle
  /\ UNCHANGED <<manifest, running, inboxes, marks, patchBounds>>

\* process_patch_rollback_requested: the manifest only.
TakeAsked ==
  /\ Agent("idle") /\ asked # <<>>
  /\ asked' = Tail(asked)
  /\ patchLock' = TRUE
  /\ \/ (patchLock \/ "publish" \in PatchFaults) /\ UNCHANGED agent
     \/ /\ ~patchLock
        /\ agent' = [pc |-> "rolling", job |-> "ask",
                     p |-> [s |-> Head(asked), v |-> 1], llm |-> FALSE]
  /\ UNCHANGED <<manifest, running, staged, applied, marks, patchBounds>>
-------------------------------------------------------------------------------
(* process_patch_applied *)

TakeApplied ==
  /\ Agent("idle") /\ applied # <<>>
  /\ applied' = Tail(applied)
  /\ agent' = [pc |-> "checking", job |-> "verify", p |-> Head(applied), llm |-> FALSE]
  /\ UNCHANGED <<manifest, patchLock, running, staged, asked, marks, patchBounds>>

Ends(s, how) == verdict' = [verdict EXCEPT ![s] = how]

\* run_health_checks of a version: passed only if a process answers the ping.
MayBe(ok, v) ==
  LET answers == v # NoVersion /\ running[Svc][v] > 0
  IN IF ok THEN answers ELSE "health" \in PatchFaults \/ ~answers

\* Faulty variant: the rollback does not wait for the lock.
CheckAppliedUnlocked(ok) ==
  /\ Agent("checking") /\ MayBe(ok, Ver)
  /\ IF ok THEN Ends(Svc, "confirmed") /\ agent' = AgentIdle
     ELSE UNCHANGED verdict /\ AgentGoes("rolling")
  /\ UNCHANGED <<manifest, patchLock, running, inboxes, reverted, patchBounds>>

\* The first checks, under the prefix of the patch that was applied.
CheckApplied(ok) ==
  /\ Agent("checking") /\ MayBe(ok, Ver)
  /\ IF ok THEN Ends(Svc, "confirmed") /\ agent' = AgentIdle /\ UNCHANGED patchLock
     ELSE /\ UNCHANGED verdict
          \* run_rollback_with_retry: until the deadline for the lock.
          /\ patchLock' = TRUE
          /\ \/ (patchLock \/ "publish" \in PatchFaults) /\ AgentGoes("diagnosing")
             \/ ~patchLock /\ AgentGoes("rolling")
  /\ UNCHANGED <<manifest, running, inboxes, reverted, patchBounds>>

\* ensure_route_process_running: the binary of the current route is started
\* unless a process of its version answers.
Relaunch(ok) ==
  /\ Agent("relaunching") /\ MayFail("health", ok)
  /\ LET v == Routes[Svc]
     IN IF v = NoVersion \/ running[Svc][v] > 0 \/ ~ok THEN UNCHANGED <<running, reverted>>
        ELSE running' = [running EXCEPT ![Svc][v] = 1] /\ reverted' = reverted \ {Svc}
  /\ AgentGoes("rechecking")
  /\ UNCHANGED <<manifest, patchLock, inboxes, verdict, patchBounds>>

\* Faulty variant: a route that is not well after the rollback is let be.
RecheckGivesUp(ok) ==
  /\ Agent("rechecking") /\ MayBe(ok, Routes[Svc])
  /\ IF ok THEN Ends(Svc, "undone") ELSE UNCHANGED verdict
  /\ agent' = AgentIdle
  /\ UNCHANGED <<manifest, patchLock, running, inboxes, reverted, patchBounds>>

\* The checks of the route after a rollback or restart.
Recheck(ok) ==
  LET v == Routes[Svc]
  IN /\ Agent("rechecking")
     /\ MayBe(ok, v)
     /\ IF ok
        THEN Ends(Svc, IF v = Ver THEN "confirmed" ELSE "undone") /\ agent' = AgentIdle
        ELSE AgentGoes(IF agent.llm THEN "failing" ELSE "diagnosing") /\ UNCHANGED verdict
     /\ UNCHANGED <<manifest, patchLock, running, inboxes, reverted, patchBounds>>

\* run_llm_diagnosis and run_llm_recovery_action: restart, a second rollback,
\* or no cure; another lock holder defeats the rollback.
Diagnose(cure) ==
  /\ Agent("diagnosing")
  /\ agent' = [agent EXCEPT !.llm = TRUE,
       !.pc = CASE cure = "restart" -> "relaunching"
                [] cure = "rollback" /\ ~patchLock -> "rolling"
                [] OTHER -> "failing"]
  /\ patchLock' = (patchLock \/ cure = "rollback")
  /\ UNCHANGED <<manifest, running, inboxes, marks, patchBounds>>

\* fail_patch: patch.failed, the human told, dispatch paused, and the agent
\* ends; the messages about other services are lost with it.
FailPatch ==
  /\ Agent("failing")
  /\ verdict' = [s \in PatchServices |-> IF s = Svc THEN "failed"
                                         ELSE IF verdict[s] = "open" THEN "lost" ELSE verdict[s]]
  /\ agent' = [AgentIdle EXCEPT !.pc = "down"]
  /\ staged' = <<>> /\ applied' = <<>> /\ asked' = <<>>
  /\ UNCHANGED <<manifest, patchLock, running, reverted, patchBounds>>

AgentDies ==
  /\ ~Agent("down") /\ agentDeaths < MaxAgentDeaths
  /\ agentDeaths' = agentDeaths + 1
  /\ agent' = [AgentIdle EXCEPT !.pc = "down"]
  /\ staged' = <<>> /\ applied' = <<>> /\ asked' = <<>>
  /\ UNCHANGED <<manifest, patchLock, running, marks, stagings, askings>>

AgentStarts ==
  /\ Agent("down") /\ agent' = AgentIdle
  /\ UNCHANGED <<manifest, patchLock, running, inboxes, marks, patchBounds>>

AgentStep ==
  \/ TakeStaged \/ Install \/ StopCandidate \/ Swap \/ SwapFails \/ Unlock
  \/ \E ok \in BOOLEAN : Verify(ok) \/ TellApplied(ok) \/ DrainPrevious(ok)
  \/ TakeAsked \/ RollBack \/ RollBackFails
  \/ TakeApplied
  \/ \E ok \in BOOLEAN : CheckApplied(ok) \/ Relaunch(ok) \/ Recheck(ok)
  \/ \E cure \in {"restart", "rollback", "none"} : Diagnose(cure)
  \/ FailPatch

PatchNext ==
  \/ \E p \in Patches : Stage(p)
  \/ \E s \in PatchServices : AskRollback(s)
  \/ AgentStep \/ AgentDies \/ AgentStarts

PatchSpec == PatchInit /\ [][PatchNext]_patchVars

\* The agent goes on with what it has begun and with what is in its inboxes.
PatchFairness == WF_patchVars(AgentStep)

FairPatchSpec == PatchSpec /\ PatchFairness
-------------------------------------------------------------------------------

PatchTypeOK ==
  /\ \A i \in 1..Len(manifest) :
       /\ manifest[i].route \in [PatchServices -> {NoVersion} \union Versions]
       /\ manifest[i].prev \in 0..(i - 1)
  /\ patchLock \in BOOLEAN
  /\ running \in [PatchServices -> [Versions -> Nat]]
  /\ \A i \in 1..Len(staged) : staged[i] \in Patches
  /\ \A i \in 1..Len(applied) : applied[i] \in Patches
  /\ \A i \in 1..Len(asked) : asked[i] \in PatchServices
  /\ agent.pc \in AgentPcs /\ agent.p \in Patches /\ agent.llm \in BOOLEAN
  /\ reverted \subseteq PatchServices

\* The current route of a service has a process that answers, through every
\* swap, failure and death of the agent, but for routes a rollback took back
\* to a process that was drained (drain_previous_patch_service, rollback_locked).
RouteHasProcess ==
  \A s \in PatchServices : Routes[s] # NoVersion =>
    running[s][Routes[s]] > 0 \/ s \in reverted

\* Only the owner of the lock moves the manifest (acquire_patch_lock).
ManifestMovesLocked == [][manifest' # manifest => patchLock]_patchVars

\* Every patch made current is confirmed, undone or declared an incident
\* (process_patch_applied), unless an incident of another service ends the
\* agent first.
PatchSettles == \A s \in PatchServices : verdict[s] = "open" ~> verdict[s] # "open"
===============================================================================
