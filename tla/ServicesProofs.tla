--------------------------- MODULE ServicesProofs ----------------------------
(***************************************************************************)
(* What is proved of the services around a task: of the patch agent and    *)
(* its manifest (HotPatch) and of the calls that are routed meanwhile      *)
(* (RoutedCalls), for any number of services, versions, patches and deaths *)
(* of the agent; of the journal on its way to disk and into the session    *)
(* store (JournalPipeline), for any events, losses and restarts; and of    *)
(* three parts of maestro's tools, for any number of callers: the pause of *)
(* dispatch (DispatchPause), the world snapshots (SnapshotCache) and the   *)
(* quotas (QuotaLedger).  At the end, these and the theorems about Pickers *)
(* and the repository are put together as MCServices runs them.            *)
(***************************************************************************)
EXTENDS MCServices, PickerProofs, FiniteSetTheorems, WellFoundedInduction, TLAPS

-----------------------------------------------------------------------------
(* Patches: the manifest, the agent and the processes.                      *)

Revisions == [route: [PatchServices -> {NoVersion} \union Versions], prev: Nat]

\* PatchTypeOK with the sequences and the agent's record as members of sets.
ManifestTyped ==
  /\ manifest \in Seq(Revisions)
  /\ \A i \in 1..Len(manifest) : manifest[i].prev < i
InboxesTyped ==
  staged \in Seq(Patches) /\ applied \in Seq(Patches) /\ asked \in Seq(PatchServices)
RunningTyped == running \in [PatchServices -> [Versions -> Nat]]
AgentTyped ==
  agent \in [pc: AgentPcs, job: {"none", "apply", "ask", "verify"}, p: Patches, llm: BOOLEAN]
MarksTyped == patchLock \in BOOLEAN /\ reverted \subseteq PatchServices
PatchTypes == ManifestTyped /\ InboxesTyped /\ RunningTyped /\ AgentTyped /\ MarksTyped

\* The agent holds the lock wherever it may move the manifest or a process.
LockHeld ==
  agent.pc \in {"installing", "verifying", "stopping", "swapping", "telling", "draining",
                "unlocking", "rolling"} => patchLock

\* A candidate is not the route and has a process of its own ...
CandidateRuns ==
  agent.pc \in {"verifying", "stopping", "swapping"} =>
    Routes[Svc] # Ver /\ running[Svc][Ver] > 0

\* ... and, once it is the route, what the drain stops is another version.
DrainsAnother ==
  agent.pc \in {"telling", "draining"} =>
    LET prev == manifest[Len(manifest)].prev
    IN /\ manifest # <<>> /\ Routes[Svc] = Ver
       /\ prev # 0 => manifest[prev].route[Svc] # Ver

PatchInv == PatchTypes /\ LockHeld /\ CandidateRuns /\ DrainsAnother /\ RouteHasProcess
-------------------------------------------------------------------------------
LEMMA ServicesAndVersions ==
  ASSUME PatchTypes
  PROVE  /\ Svc \in PatchServices /\ Ver \in Versions
         /\ Routes \in [PatchServices -> {NoVersion} \union Versions]
         /\ manifest # <<>> => Routes = manifest[Len(manifest)].route
         /\ NoVersion \notin Versions
<1>1. Svc \in PatchServices /\ Ver \in Versions
  BY DEF PatchTypes, AgentTyped, Svc, Ver, Patches
<1>2. CASE manifest = <<>>
  BY <1>1, <1>2 DEF Routes, NoRoutes, NoVersion, Versions
<1>3. CASE manifest # <<>>
  <2>1. manifest[Len(manifest)] \in Revisions
    BY <1>3 DEF PatchTypes, ManifestTyped
  <2> QED BY <1>1, <1>3, <2>1 DEF Routes, Revisions, NoVersion, Versions
<1> QED BY <1>2, <1>3

\* One more revision, which becomes the current one.
LEMMA AppendRevision ==
  ASSUME ManifestTyped, NEW r \in Revisions, r.prev \in 0..Len(manifest),
         manifest' = Append(manifest, r)
  PROVE  /\ ManifestTyped' /\ manifest' # <<>>
         /\ Len(manifest) \in Nat /\ Len(manifest') = Len(manifest) + 1
         /\ manifest'[Len(manifest')] = r /\ Routes' = r.route
         /\ \A i \in 1..Len(manifest) : manifest'[i] = manifest[i]
<1>1. manifest \in Seq(Revisions)
  BY DEF ManifestTyped
<1>2. /\ manifest' \in Seq(Revisions) /\ manifest' # <<>>
      /\ Len(manifest) \in Nat /\ Len(manifest') = Len(manifest) + 1
      /\ manifest'[Len(manifest')] = r
      /\ \A i \in 1..Len(manifest) : manifest'[i] = manifest[i]
  BY <1>1
<1>3. Routes' = r.route
  BY <1>2 DEF Routes
<1>4. \A i \in 1..Len(manifest') : manifest'[i].prev < i
  BY <1>2 DEF ManifestTyped
<1> QED BY <1>2, <1>3, <1>4 DEF ManifestTyped

\* The revision a rollback writes again.
LEMMA OldRevision ==
  ASSUME PatchTypes, NEW s \in PatchServices, CanRollBack(s)
  PROVE  LET old == manifest[manifest[Len(manifest)].prev]
         IN old \in Revisions /\ old.prev \in 0..Len(manifest)
<1> DEFINE n == Len(manifest)
           k == manifest[n].prev
<1>1. manifest \in Seq(Revisions) /\ manifest # <<>> /\ k # 0
  BY DEF CanRollBack, PatchTypes, ManifestTyped
<1>2. n \in Nat /\ n \in 1..n /\ manifest[n] \in Revisions
  BY <1>1
<1>3. k \in Nat /\ k < n
  BY <1>2 DEF PatchTypes, ManifestTyped, Revisions
<1>4. k \in 1..n
  BY <1>1, <1>2, <1>3
<1>5. manifest[k] \in Revisions /\ manifest[k].prev < k
  BY <1>1, <1>4 DEF PatchTypes, ManifestTyped
<1>6. manifest[k].prev \in Nat
  BY <1>5 DEF Revisions
<1>7. manifest[k].prev \in 0..n
  BY <1>2, <1>3, <1>5, <1>6
<1> QED BY <1>5, <1>7

\* What a step may do to each part of the state: the manifest is moved by a
\* swap and a rollback only, processes by four steps, ...
LEMMA StepsMove ==
  ASSUME [PatchNext]_patchVars
  PROVE  /\ UNCHANGED manifest \/ Swap \/ RollBack
         /\ UNCHANGED reverted \/ Swap \/ RollBack \/ \E ok \in BOOLEAN : Relaunch(ok)
         /\ \/ UNCHANGED running \/ Install \/ StopCandidate
            \/ \E ok \in BOOLEAN : DrainPrevious(ok) \/ Relaunch(ok)
         /\ patchLock' = patchLock \/ patchLock' \in BOOLEAN
         /\ reverted' \subseteq reverted \/ reverted' \subseteq PatchServices
<1> USE DEF PatchNext, patchVars, inboxes, patchBounds, marks, AgentStep,
            Stage, AskRollback, TakeStaged, Install, StopCandidate, Swap, SwapFails, RollBack, Unlock,
            Verify, TellApplied, DrainPrevious, TakeAsked, RollBackFails, TakeApplied,
            CheckApplied, Relaunch, Recheck, Diagnose, FailPatch, AgentDies, AgentStarts
<1>1. UNCHANGED manifest \/ Swap \/ RollBack
  OBVIOUS
<1>2. \/ UNCHANGED running \/ Install \/ StopCandidate
      \/ \E ok \in BOOLEAN : DrainPrevious(ok) \/ Relaunch(ok)
  OBVIOUS
<1>3. patchLock' = patchLock \/ patchLock' \in BOOLEAN
  OBVIOUS
<1>4. reverted' \subseteq reverted \/ reverted' \subseteq PatchServices
  OBVIOUS
<1>5. UNCHANGED reverted \/ Swap \/ RollBack \/ \E ok \in BOOLEAN : Relaunch(ok)
  OBVIOUS
<1> QED BY <1>1, <1>2, <1>3, <1>4, <1>5

\* ... an inbox gets a message, gives its first one or is lost, and the agent
\* goes to another point, begins anew or takes a message.
TakesMessage(pc, job, p) == [pc |-> pc, job |-> job, p |-> p, llm |-> FALSE]

LEMMA MessagesMove ==
  ASSUME [PatchNext]_patchVars
  PROVE  /\ \/ staged' \in {staged, <<>>} \/ \E p \in Patches : staged' = Append(staged, p)
            \/ staged # <<>> /\ staged' = Tail(staged)
         /\ \/ applied' \in {applied, <<>>} \/ applied' = Append(applied, agent.p)
            \/ applied # <<>> /\ applied' = Tail(applied)
         /\ \/ asked' \in {asked, <<>>} \/ \E s \in PatchServices : asked' = Append(asked, s)
            \/ asked # <<>> /\ asked' = Tail(asked)
         /\ \/ agent' = agent
            \/ \E pc \in AgentPcs : \/ agent' = [agent EXCEPT !.pc = pc]
                                    \/ agent' = [agent EXCEPT !.llm = TRUE, !.pc = pc]
                                    \/ agent' = TakesMessage(pc, "none", NoPatch)
            \/ staged # <<>> /\ agent' = TakesMessage("installing", "apply", Head(staged))
            \/ asked # <<>> /\ agent' = TakesMessage("rolling", "ask", [s |-> Head(asked), v |-> 1])
            \/ applied # <<>> /\ agent' = TakesMessage("checking", "verify", Head(applied))
<1> USE DEF PatchNext, patchVars, inboxes, patchBounds, marks, AgentStep,
            Stage, AskRollback, TakeStaged, Install, StopCandidate, Swap, SwapFails, RollBack, Unlock,
            Verify, TellApplied, DrainPrevious, TakeAsked, RollBackFails, TakeApplied,
            CheckApplied, Relaunch, Recheck, Diagnose, FailPatch, AgentDies, AgentStarts
<1>1. \/ staged' \in {staged, <<>>} \/ \E p \in Patches : staged' = Append(staged, p)
      \/ staged # <<>> /\ staged' = Tail(staged)
  OBVIOUS
<1>2. \/ applied' \in {applied, <<>>} \/ applied' = Append(applied, agent.p)
      \/ applied # <<>> /\ applied' = Tail(applied)
  OBVIOUS
<1>3. \/ asked' \in {asked, <<>>} \/ \E s \in PatchServices : asked' = Append(asked, s)
      \/ asked # <<>> /\ asked' = Tail(asked)
  OBVIOUS
<1>4. \/ agent' = agent
      \/ \E pc \in AgentPcs : \/ agent' = [agent EXCEPT !.pc = pc]
                              \/ agent' = [agent EXCEPT !.llm = TRUE, !.pc = pc]
                              \/ agent' = TakesMessage(pc, "none", NoPatch)
      \/ staged # <<>> /\ agent' = TakesMessage("installing", "apply", Head(staged))
      \/ asked # <<>> /\ agent' = TakesMessage("rolling", "ask", [s |-> Head(asked), v |-> 1])
      \/ applied # <<>> /\ agent' = TakesMessage("checking", "verify", Head(applied))
  BY DEF AgentGoes, AgentIdle, AgentPcs, TakesMessage
<1> QED BY <1>1, <1>2, <1>3, <1>4

LEMMA InboxStays ==
  ASSUME NEW S, NEW q \in Seq(S)
  PROVE  /\ <<>> \in Seq(S) /\ \A x \in S : Append(q, x) \in Seq(S)
         /\ q # <<>> => Head(q) \in S /\ Tail(q) \in Seq(S)
  OBVIOUS

LEMMA PatchTypesKept ==
  ASSUME PatchTypes, CandidateRuns, [PatchNext]_patchVars
  PROVE  PatchTypes'
<1> USE DEF inboxes, patchBounds, marks, Agent, AgentGoes
<1>0. /\ Svc \in PatchServices /\ Ver \in Versions
      /\ Routes \in [PatchServices -> {NoVersion} \union Versions]
      /\ NoVersion \notin Versions
  BY ServicesAndVersions
<1>1. ManifestTyped'
  <2>1. CASE UNCHANGED manifest
    BY <2>1 DEF PatchTypes, ManifestTyped
  <2>2. CASE Swap
    <3> DEFINE r == [route |-> [Routes EXCEPT ![Svc] = Ver], prev |-> Len(manifest)]
    <3>1. r \in Revisions /\ r.prev \in 0..Len(manifest) /\ manifest' = Append(manifest, r)
      BY <1>0, <2>2 DEF Swap, Revisions, PatchTypes, ManifestTyped
    <3> HIDE DEF r
    <3> QED BY <3>1, AppendRevision DEF PatchTypes
  <2>3. CASE RollBack
    <3> DEFINE old == manifest[manifest[Len(manifest)].prev]
    <3>1. old \in Revisions /\ old.prev \in 0..Len(manifest) /\ manifest' = Append(manifest, old)
      BY <1>0, <2>3, OldRevision DEF RollBack
    <3> HIDE DEF old
    <3> QED BY <3>1, AppendRevision DEF PatchTypes
  <2> QED BY <2>1, <2>2, <2>3, StepsMove
<1>2. RunningTyped'
  <2>1. CASE UNCHANGED running
    BY <2>1 DEF PatchTypes, RunningTyped
  <2>2. \A s \in PatchServices, v \in Versions, n \in Nat :
          /\ running[s][v] \in Nat
          /\ [running EXCEPT ![s][v] = n] \in [PatchServices -> [Versions -> Nat]]
    BY DEF PatchTypes, RunningTyped
  <2>3. CASE Install
    <3>1. running' = running \/ running' = [running EXCEPT ![Svc][Ver] = running[Svc][Ver] + 1]
      BY <2>3 DEF Install
    <3> QED BY <1>0, <2>1, <2>2, <3>1 DEF RunningTyped
  <2>4. CASE StopCandidate
    <3>1. running' = [running EXCEPT ![Svc][Ver] = running[Svc][Ver] - 1]
      BY <2>4 DEF StopCandidate
    <3>2. running[Svc][Ver] \in Nat /\ running[Svc][Ver] > 0
      BY <1>0, <2>2, <2>4 DEF StopCandidate, CandidateRuns
    <3> QED BY <1>0, <2>2, <3>1, <3>2 DEF RunningTyped
  <2>5. ASSUME NEW ok \in BOOLEAN, DrainPrevious(ok) PROVE RunningTyped'
    <3>1. CASE running' = running
      BY <2>1, <3>1
    <3>2. CASE running' # running
      BY <2>5, <1>0, <3>2 DEF DrainPrevious, PatchTypes, RunningTyped
    <3> QED BY <3>1, <3>2
  <2>6. ASSUME NEW ok \in BOOLEAN, Relaunch(ok) PROVE RunningTyped'
    <3>1. \/ running' = running
          \/ Routes[Svc] # NoVersion /\ running' = [running EXCEPT ![Svc][Routes[Svc]] = 1]
      BY <2>6 DEF Relaunch
    <3> QED BY <1>0, <2>1, <2>2, <3>1 DEF RunningTyped
  <2> QED BY <2>1, <2>3, <2>4, <2>5, <2>6, StepsMove
<1>3. InboxesTyped'
  <2>1. /\ staged \in Seq(Patches) /\ applied \in Seq(Patches) /\ asked \in Seq(PatchServices)
        /\ agent.p \in Patches
    BY DEF PatchTypes, InboxesTyped, AgentTyped
  <2>2. staged' \in Seq(Patches)
    BY <2>1, MessagesMove, InboxStays
  <2>3. applied' \in Seq(Patches)
    BY <2>1, MessagesMove, InboxStays
  <2>4. asked' \in Seq(PatchServices)
    BY <2>1, MessagesMove, InboxStays
  <2> QED BY <2>2, <2>3, <2>4 DEF InboxesTyped
<1>4. AgentTyped'
  <2> DEFINE Jobs == {"none", "apply", "ask", "verify"}
             Agents == [pc: AgentPcs, job: Jobs, p: Patches, llm: BOOLEAN]
  <2>1. agent \in Agents
    BY DEF PatchTypes, AgentTyped
  <2>2. NoPatch \in Patches
    BY PatchServicesAssumption, PatchBoundsAssumption DEF NoPatch, Patches, Versions
  <2>3. /\ staged # <<>> => Head(staged) \in Patches
        /\ applied # <<>> => Head(applied) \in Patches
        /\ asked # <<>> => Head(asked) \in PatchServices
    BY InboxStays DEF PatchTypes, InboxesTyped
  <2>4. asked # <<>> => [s |-> Head(asked), v |-> 1] \in Patches
    BY <2>3, PatchBoundsAssumption DEF Patches, Versions
  <2>5. \A pc \in AgentPcs, job \in Jobs, p \in Patches : TakesMessage(pc, job, p) \in Agents
    BY DEF TakesMessage
  <2>6. \A pc \in AgentPcs : /\ [agent EXCEPT !.pc = pc] \in Agents
                             /\ [agent EXCEPT !.llm = TRUE, !.pc = pc] \in Agents
    BY <2>1
  <2>7. /\ {"installing", "rolling", "checking"} \subseteq AgentPcs
        /\ {"none", "apply", "ask", "verify"} \subseteq Jobs
    BY DEF AgentPcs
  <2> HIDE DEF Agents, Jobs
  <2>8. agent' \in Agents
    BY <2>1, <2>2, <2>3, <2>4, <2>5, <2>6, <2>7, MessagesMove
  <2> QED BY <2>8 DEF Agents, Jobs, AgentTyped
<1>5. MarksTyped'
  BY <1>0, StepsMove DEF PatchTypes, MarksTyped
<1> QED BY <1>1, <1>2, <1>3, <1>4, <1>5 DEF PatchTypes

LEMMA PatchInvInductive == PatchInv /\ [PatchNext]_patchVars => PatchInv'
<1> SUFFICES ASSUME PatchInv, [PatchNext]_patchVars
             PROVE  PatchInv'
  OBVIOUS
<1>0. /\ PatchTypes /\ LockHeld /\ CandidateRuns /\ DrainsAnother /\ RouteHasProcess
  BY DEF PatchInv
<1>a. /\ Svc \in PatchServices /\ Ver \in Versions
      /\ Routes \in [PatchServices -> {NoVersion} \union Versions]
      /\ manifest # <<>> => Routes = manifest[Len(manifest)].route
      /\ NoVersion \notin Versions
  BY <1>0, ServicesAndVersions
<1>b. manifest' = manifest => Routes' = Routes
  BY DEF Routes
<1>c. \A s \in PatchServices, v \in Versions :
        /\ running[s][v] \in Nat
        /\ \A n \in Nat : LET now == [running EXCEPT ![s][v] = n]
                          IN /\ now[s][v] = n
                             /\ \A r \in PatchServices, w \in Versions :
                                  <<r, w>> # <<s, v>> => now[r][w] = running[r][w]
  BY <1>0 DEF PatchTypes, RunningTyped
<1>d. \* A swap makes the candidate the route, and keeps the others.
      ASSUME Swap
      PROVE  /\ ManifestTyped' /\ manifest' # <<>>
             /\ manifest'[Len(manifest')].prev = Len(manifest) /\ Len(manifest) \in Nat
             /\ \A i \in 1..Len(manifest) : manifest'[i] = manifest[i]
             /\ Routes' = [Routes EXCEPT ![Svc] = Ver]
  <2> DEFINE r == [route |-> [Routes EXCEPT ![Svc] = Ver], prev |-> Len(manifest)]
  <2>1. /\ r \in Revisions /\ r.prev \in 0..Len(manifest) /\ manifest' = Append(manifest, r)
        /\ r.route = [Routes EXCEPT ![Svc] = Ver] /\ r.prev = Len(manifest)
    BY <1>0, <1>a, <1>d DEF Swap, Revisions, PatchTypes, ManifestTyped
  <2> HIDE DEF r
  <2> QED BY <1>0, <2>1, AppendRevision DEF PatchTypes
<1>e. ASSUME RollBack
      PROVE  LET old == manifest[manifest[Len(manifest)].prev]
             IN Routes' = old.route /\ old.route \in [PatchServices -> {NoVersion} \union Versions]
  <2> DEFINE old == manifest[manifest[Len(manifest)].prev]
  <2>1. old \in Revisions /\ old.prev \in 0..Len(manifest) /\ manifest' = Append(manifest, old)
    BY <1>0, <1>a, <1>e, OldRevision DEF RollBack
  <2> HIDE DEF old
  <2>2. Routes' = old.route /\ old.route \in [PatchServices -> {NoVersion} \union Versions]
    BY <1>0, <2>1, AppendRevision DEF PatchTypes, Revisions
  <2> QED BY <2>2 DEF old
<1>f. \A pc : AgentGoes(pc) => agent'.pc = pc /\ agent'.p = agent.p
  BY <1>0 DEF AgentGoes, PatchTypes, AgentTyped
<1>1. PatchTypes'
  BY <1>0, PatchTypesKept
<1>g. /\ agent' = AgentIdle => agent'.pc = "idle"
      /\ agent' = [AgentIdle EXCEPT !.pc = "down"] => agent'.pc = "down"
  BY DEF AgentIdle
<1>h. \A cure : Diagnose(cure) => /\ agent'.pc \in {"relaunching", "rolling", "failing"}
                                  /\ agent'.pc = "rolling" => patchLock'
  <2> SUFFICES ASSUME NEW cure, Diagnose(cure)
               PROVE  /\ agent'.pc \in {"relaunching", "rolling", "failing"}
                      /\ agent'.pc = "rolling" => patchLock'
    OBVIOUS
  <2>1. /\ agent'.pc \in {"relaunching", "rolling", "failing"}
        /\ agent'.pc = "rolling" => cure = "rollback"
    BY <1>0 DEF Diagnose, PatchTypes, AgentTyped
  <2>2. cure = "rollback" => patchLock'
    BY DEF Diagnose
  <2> QED BY <2>1, <2>2
<1>j. \/ Install \/ Swap \/ SwapFails \/ StopCandidate \/ RollBack \/ Unlock \/ RollBackFails \/ FailPatch
      \/ AgentDies \/ AgentStarts \/ TakeStaged \/ TakeAsked \/ TakeApplied
      \/ \E ok \in BOOLEAN : \/ Verify(ok) \/ TellApplied(ok) \/ DrainPrevious(ok)
                             \/ CheckApplied(ok) \/ Relaunch(ok) \/ Recheck(ok)
      \/ \E cure \in {"restart", "rollback", "none"} : Diagnose(cure)
      \/ UNCHANGED <<manifest, running, agent, patchLock>>
  <2>1. ASSUME \/ UNCHANGED patchVars \/ \E p \in Patches : Stage(p)
               \/ \E s \in PatchServices : AskRollback(s)
        PROVE  UNCHANGED <<manifest, running, agent, patchLock>>
    BY <2>1 DEF patchVars, Stage, AskRollback
  <2> QED BY <2>1 DEF PatchNext, AgentStep
<1>i. \* Where the candidate is handled.
      \/ UNCHANGED <<manifest, running, agent>>
      \/ Install \/ Swap
      \/ agent'.pc \notin {"verifying", "stopping", "swapping", "telling", "draining"}
      \/ /\ UNCHANGED <<manifest, running>> /\ agent'.p = agent.p
         /\ \/ agent.pc = "verifying" /\ agent'.pc \in {"swapping", "stopping"}
            \/ agent.pc = "telling" /\ agent'.pc = "draining"
            \/ agent.pc = "swapping" /\ agent'.pc = "stopping"
  <2>1. CASE RollBack
    <3>1. AgentGoes("unlocking")
      BY <2>1, Zenon DEF RollBack
    <3> QED BY <1>f, <3>1
  <2>d. CASE Unlock
    BY <1>f, <1>g, <2>d DEF Unlock
  <2>e. CASE SwapFails
    BY <1>f, <2>e DEF SwapFails, Agent
  <2>c. CASE StopCandidate \/ RollBackFails
    BY <1>f, <1>g, <2>c DEF StopCandidate, RollBackFails
  <2>a. CASE FailPatch \/ AgentDies \/ AgentStarts
    BY <1>f, <1>g, <2>a DEF FailPatch, AgentDies, AgentStarts
  <2>b. CASE \E ok \in BOOLEAN : DrainPrevious(ok)
    BY <1>f, <1>g, <2>b DEF DrainPrevious
  <2>2. CASE \E ok \in BOOLEAN : Verify(ok) \/ TellApplied(ok)
    BY <1>f, <2>2 DEF Verify, TellApplied, Agent
  <2>3. CASE TakeStaged \/ TakeAsked \/ TakeApplied
    BY <2>3 DEF TakeStaged, TakeAsked, TakeApplied
  <2>4. CASE \E ok \in BOOLEAN : CheckApplied(ok) \/ Relaunch(ok) \/ Recheck(ok)
    BY <1>f, <1>g, <2>4 DEF CheckApplied, Relaunch, Recheck
  <2>5. CASE \E cure \in {"restart", "rollback", "none"} : Diagnose(cure)
    BY <1>h, <2>5
  <2>6. CASE UNCHANGED <<manifest, running, agent>>
    BY <2>6
  <2> QED BY <1>j, <2>1, <2>a, <2>b, <2>c, <2>d, <2>e, <2>2, <2>3, <2>4, <2>5, <2>6
<1>2. LockHeld'
  <2>1. CASE \/ Install \/ StopCandidate \/ Swap \/ SwapFails \/ RollBack
             \/ \E ok \in BOOLEAN : Verify(ok) \/ TellApplied(ok) \/ DrainPrevious(ok)
    BY <1>0, <1>f, <2>1
       DEF LockHeld, Agent, marks, patchBounds, Install, StopCandidate, Swap,
           SwapFails, RollBack, Verify, TellApplied, DrainPrevious
  <2>2. CASE Unlock \/ RollBackFails \/ FailPatch \/ AgentDies \/ AgentStarts
    BY <1>f, <1>g, <2>2
       DEF LockHeld, Unlock, RollBackFails, FailPatch, AgentDies, AgentStarts
  <2>3. CASE TakeStaged \/ TakeAsked \/ TakeApplied
    BY <1>0, <2>3 DEF LockHeld, TakeStaged, TakeAsked, TakeApplied
  <2>4. CASE \E ok \in BOOLEAN : CheckApplied(ok) \/ Relaunch(ok) \/ Recheck(ok)
    BY <1>0, <1>f, <1>g, <2>4 DEF LockHeld, CheckApplied, Relaunch, Recheck
  <2>5. CASE \E cure \in {"restart", "rollback", "none"} : Diagnose(cure)
    BY <1>h, <2>5 DEF LockHeld
  <2>6. CASE UNCHANGED <<agent, patchLock>>
    BY <1>0, <2>6 DEF LockHeld
  <2> QED BY <1>j, <2>1, <2>2, <2>3, <2>4, <2>5, <2>6
<1>3. CandidateRuns'
  <2>1. CASE Install
    <3>1. /\ Routes' = Routes
          /\ \/ agent' = [agent EXCEPT !.pc = "unlocking"]
             \/ /\ Routes[Svc] # Ver /\ agent' = [agent EXCEPT !.pc = "verifying"]
                /\ running' = [running EXCEPT ![Svc][Ver] = running[Svc][Ver] + 1]
      BY <1>b, <2>1 DEF Install, AgentGoes
    <3>2. /\ Svc' = Svc /\ Ver' = Ver
          /\ agent'.pc \in {"unlocking", "verifying"}
          /\ agent'.pc = "verifying" =>
               /\ Routes[Svc] # Ver
               /\ running' = [running EXCEPT ![Svc][Ver] = running[Svc][Ver] + 1]
      BY <1>0, <3>1 DEF Svc, Ver, PatchTypes, AgentTyped
    <3>3. agent'.pc = "verifying" => running'[Svc][Ver] > 0
      <4>1. running[Svc][Ver] + 1 \in Nat /\ running[Svc][Ver] + 1 > 0
        BY <1>a, <1>c
      <4> QED BY <1>a, <1>c, <3>2, <4>1
    <3> QED BY <3>1, <3>2, <3>3 DEF CandidateRuns
  <2>2. CASE Swap
    BY <1>0, <1>f, <2>2 DEF Swap, CandidateRuns
  <2>3. CASE ~Install /\ ~Swap
    BY <1>0, <1>b, <1>i, <2>3 DEF CandidateRuns, Svc, Ver
  <2> QED BY <2>1, <2>2, <2>3
<1>4. DrainsAnother'
  <2>1. CASE Swap
    <3>1. agent.pc = "swapping" /\ Svc' = Svc /\ Ver' = Ver
      BY <1>0, <2>1 DEF Swap, Agent, AgentGoes, Svc, Ver, PatchTypes, AgentTyped
    <3>2. Routes'[Svc] = Ver /\ Routes[Svc] # Ver
      BY <1>0, <1>a, <1>d, <2>1, <3>1 DEF CandidateRuns
    <3>3. ASSUME Len(manifest) # 0 PROVE manifest'[Len(manifest)].route[Svc] = Routes[Svc]
      BY <1>0, <1>a, <1>d, <2>1, <3>3 DEF PatchTypes, ManifestTyped
    <3> QED BY <1>d, <2>1, <3>1, <3>2, <3>3 DEF DrainsAnother
  <2>2. CASE Install
    BY <1>0, <1>f, <2>2 DEF Install, DrainsAnother
  <2>3. CASE ~Install /\ ~Swap
    BY <1>0, <1>b, <1>i, <2>3 DEF DrainsAnother, Svc, Ver
  <2> QED BY <2>1, <2>2, <2>3
<1>5. RouteHasProcess'
  <2>1. CASE UNCHANGED <<manifest, running, reverted>>
    BY <1>0, <1>b, <2>1 DEF RouteHasProcess
  <2>2. CASE Install
    <3>1. /\ Routes' = Routes /\ reverted' = reverted
          /\ \/ running' = running
             \/ running' = [running EXCEPT ![Svc][Ver] = running[Svc][Ver] + 1]
      BY <1>b, <2>2 DEF Install, marks
    <3>2. \A s \in PatchServices, v \in Versions :
            running[s][v] > 0 => running'[s][v] > 0
      <4>1. running[Svc][Ver] + 1 \in Nat /\ running[Svc][Ver] + 1 > 0
        BY <1>a, <1>c
      <4> QED BY <1>a, <1>c, <3>1, <4>1
    <3> QED BY <1>0, <1>a, <3>1, <3>2 DEF RouteHasProcess
  <2>3. CASE StopCandidate
    <3>1. /\ Routes' = Routes /\ reverted' = reverted /\ Routes[Svc] # Ver
          /\ running' = [running EXCEPT ![Svc][Ver] = running[Svc][Ver] - 1]
          /\ running[Svc][Ver] > 0
      BY <1>0, <1>b, <2>3 DEF StopCandidate, marks, CandidateRuns, Agent
    <3>2. \A s \in PatchServices : Routes[s] # NoVersion =>
            running'[s][Routes[s]] = running[s][Routes[s]]
      BY <1>a, <1>c, <3>1
    <3> QED BY <1>0, <3>1, <3>2 DEF RouteHasProcess
  <2>4. ASSUME NEW ok \in BOOLEAN, DrainPrevious(ok) PROVE RouteHasProcess'
    <3> DEFINE prev == manifest[Len(manifest)].prev
               was == IF prev = 0 THEN NoVersion ELSE manifest[prev].route[Svc]
    <3>1. /\ Routes' = Routes /\ reverted' = reverted
          /\ \/ running' = running
             \/ was # NoVersion /\ running' = [running EXCEPT ![Svc][was] = 0]
      BY <1>b, <2>4 DEF DrainPrevious, marks
    <3>2. Routes[Svc] = Ver /\ (was # NoVersion => was # Ver)
      BY <1>0, <2>4 DEF DrainPrevious, DrainsAnother, Agent
    <3>3. was # NoVersion => was \in Versions
      <4> SUFFICES ASSUME prev # 0 PROVE manifest[prev] \in Revisions
        BY <1>a DEF Revisions
      <4>1. manifest # <<>> /\ manifest \in Seq(Revisions)
        BY <1>0, <2>4
        DEF DrainPrevious, DrainsAnother, Agent, PatchTypes, ManifestTyped
      <4>2. Len(manifest) \in Nat /\ Len(manifest) \in 1..Len(manifest)
            /\ manifest[Len(manifest)] \in Revisions
        BY <4>1
      <4>3. prev \in Nat /\ prev < Len(manifest)
        BY <1>0, <4>2 DEF PatchTypes, ManifestTyped, Revisions
      <4> QED BY <4>1, <4>2, <4>3
    <3> HIDE DEF was
    <3>4. \A s \in PatchServices : Routes[s] # NoVersion =>
            running'[s][Routes[s]] = running[s][Routes[s]]
      BY SMTT(40), <1>a, <1>c, <3>1, <3>2, <3>3
    <3> QED BY <1>0, <3>1, <3>4 DEF RouteHasProcess
  <2>5. ASSUME NEW ok \in BOOLEAN, Relaunch(ok) PROVE RouteHasProcess'
    <3>1. /\ Routes' = Routes
          /\ \/ UNCHANGED <<running, reverted>>
             \/ /\ Routes[Svc] # NoVersion /\ running' = [running EXCEPT ![Svc][Routes[Svc]] = 1]
                /\ reverted' = reverted \ {Svc}
      BY <1>b, <2>5 DEF Relaunch
    <3>2. CASE UNCHANGED <<running, reverted>>
      BY <1>0, <3>1, <3>2 DEF RouteHasProcess
    <3>3. CASE /\ Routes[Svc] # NoVersion /\ running' = [running EXCEPT ![Svc][Routes[Svc]] = 1]
               /\ reverted' = reverted \ {Svc}
      BY <1>0, <1>a, <1>c, <3>1, <3>3 DEF RouteHasProcess
    <3> QED BY <3>1, <3>2, <3>3
  <2>6. CASE Swap
    <3>1. /\ Routes' = [Routes EXCEPT ![Svc] = Ver] /\ running' = running
          /\ reverted' = reverted \ {Svc} /\ running[Svc][Ver] > 0
      BY <1>0, <1>d, <2>6 DEF Swap, CandidateRuns, Agent
    <3> QED BY <1>0, <1>a, <3>1 DEF RouteHasProcess
  <2>7. CASE RollBack
    <3> DEFINE old == manifest[manifest[Len(manifest)].prev]
    <3>1. /\ reverted' = {s \in PatchServices :
                            old.route[s] # NoVersion /\ running[s][old.route[s]] = 0}
          /\ running' = running
      BY <2>7 DEF RollBack
    <3>2. Routes' = old.route /\ old.route \in [PatchServices -> {NoVersion} \union Versions]
      BY <1>e, <2>7
    <3> HIDE DEF old
    <3> QED BY <1>c, <3>1, <3>2 DEF RouteHasProcess
  <2> QED BY <2>1, <2>2, <2>3, <2>4, <2>5, <2>6, <2>7, StepsMove
<1> QED BY <1>1, <1>2, <1>3, <1>4, <1>5 DEF PatchInv

LEMMA PatchInvariant == PatchSpec => []PatchInv
<1>1. PatchInit => PatchInv
  <2> SUFFICES ASSUME PatchInit PROVE PatchInv
    OBVIOUS
  <2>1. NoPatch \in Patches
    BY PatchServicesAssumption, PatchBoundsAssumption DEF NoPatch, Patches, Versions
  <2>2. AgentTyped /\ agent.pc = "idle"
    BY <2>1 DEF PatchInit, AgentIdle, AgentTyped, AgentPcs
  <2>3. ManifestTyped /\ InboxesTyped
    BY DEF PatchInit, ManifestTyped, InboxesTyped
  <2>4. RunningTyped
    BY DEF PatchInit, RunningTyped
  <2>5. MarksTyped
    BY DEF PatchInit, MarksTyped
  <2>6. RouteHasProcess
    BY DEF PatchInit, RouteHasProcess, Routes, NoRoutes
  <2> QED BY <2>2, <2>3, <2>4, <2>5, <2>6
          DEF PatchInv, PatchTypes, LockHeld, CandidateRuns, DrainsAnother
<1> QED BY <1>1, PatchInvInductive, PTL DEF PatchSpec

\* The state of the patch agent and of the manifest keeps its type.
THEOREM PatchTypeCorrect == PatchSpec => []PatchTypeOK
<1>1. PatchInv => PatchTypeOK
  <2> SUFFICES ASSUME PatchInv PROVE PatchTypeOK
    OBVIOUS
  <2>1. PatchTypes
    BY DEF PatchInv
  <2>2. \A i \in 1..Len(manifest) : /\ manifest[i].route \in [PatchServices -> {NoVersion} \union Versions]
                                   /\ manifest[i].prev \in 0..(i - 1)
    <3> SUFFICES ASSUME NEW i \in 1..Len(manifest)
                 PROVE  /\ manifest[i].route \in [PatchServices -> {NoVersion} \union Versions]
                        /\ manifest[i].prev \in 0..(i - 1)
      OBVIOUS
    <3>1. manifest[i] \in Revisions /\ manifest[i].prev < i /\ i \in Nat
      BY <2>1 DEF PatchTypes, ManifestTyped
    <3> QED BY <3>1 DEF Revisions
  <2>3. /\ \A i \in 1..Len(staged) : staged[i] \in Patches
        /\ \A i \in 1..Len(applied) : applied[i] \in Patches
        /\ \A i \in 1..Len(asked) : asked[i] \in PatchServices
    BY <2>1 DEF PatchTypes, InboxesTyped
  <2>4. agent.pc \in AgentPcs /\ agent.p \in Patches /\ agent.llm \in BOOLEAN
    BY <2>1 DEF PatchTypes, AgentTyped
  <2> QED BY <2>1, <2>2, <2>3, <2>4
          DEF PatchTypeOK, PatchTypes, RunningTyped, MarksTyped
<1> QED BY <1>1, PatchInvariant, PTL

\* Through every swap, drain, rollback, failure and death of the agent, the
\* route of a service has a process, unless a rollback went back to a process
\* that was drained.
THEOREM RouteHasProcessHolds == PatchSpec => []RouteHasProcess
<1>1. PatchInv => RouteHasProcess
  BY DEF PatchInv
<1> QED BY <1>1, PatchInvariant, PTL

\* Whoever moves the manifest holds the patch lock: no staged patch, rollback
\* or diagnosis writes a revision while another holds it.
THEOREM ManifestMovesLockedHolds == PatchSpec => ManifestMovesLocked
<1>1. PatchInv /\ [PatchNext]_patchVars => [manifest' # manifest => patchLock]_patchVars
  <2> SUFFICES ASSUME PatchInv, [PatchNext]_patchVars, manifest' # manifest
               PROVE  patchLock
    OBVIOUS
  <2>1. Swap \/ RollBack
    BY StepsMove
  <2> QED BY <2>1 DEF PatchInv, LockHeld, Swap, RollBack, Agent
<1> QED BY <1>1, PatchInvariant, PTL DEF PatchSpec, ManifestMovesLocked
-----------------------------------------------------------------------------
(* Calls to a service whose route is swapped.                              *)


\* Nothing of the callers is ahead of the manifest.
BehindRoute ==
  /\ updates <= route /\ cached <= route
  /\ \A l \in Loaders : loading[l] # NotRead => loading[l] <= route
  /\ \A c \in ToolCalls : /\ toolCall[c].to <= route
                          /\ toolCall[c].pc = "loading" => loading[c] # NotRead

\* What the loop has read is current when no message tells of a newer route ...
LoopIsCurrent == loading[Loop] # NotRead /\ updates = 0 => loading[Loop] = route

\* ... and so is what it has stored.
CacheIsCurrent ==
  updates = 0 /\ loading[Loop] = NotRead /\ ~failing /\ ~backwards => cached = route

\* Processes up to the route were started, and only replaced ones drain.
ServersFollow ==
  \A v \in Routed : /\ server[v] = "off" => v > route
                    /\ server[v] \in {"draining", "gone"} => v < route

\* A request that waits or is worked on has its process.
RequestsHaveServer ==
  \A c \in ToolCalls : toolCall[c].pc \in {"buffered", "active"} =>
    server[toolCall[c].to] \in {"up", "draining"}

RoutedInv ==
  /\ RoutedTypeOK /\ BehindRoute /\ LoopIsCurrent /\ CacheIsCurrent /\ ServersFollow
  /\ RequestsHaveServer /\ FailedWasReplaced

LEMMA RoutedInvInductive == RoutedInv /\ [RoutedNext]_routedVars => RoutedInv'
<1> SUFFICES ASSUME RoutedInv, [RoutedNext]_routedVars
             PROVE  RoutedInv'
  OBVIOUS
<1> USE SwapsAssumption, ToolCallsAssumption DEF Routed, NotRead, Loop, Loaders
<1>1. CASE SwapRoute
  <2>1. RoutedTypeOK'
    BY <1>1
    DEF SwapRoute, RoutedInv, RoutedTypeOK, BehindRoute, ToolPcs, ServersFollow
  <2>2. BehindRoute'
    BY <1>1 DEF SwapRoute, RoutedInv, BehindRoute, RoutedTypeOK
  <2>3. (LoopIsCurrent /\ CacheIsCurrent)'
    BY <1>1
    DEF SwapRoute, RoutedInv, LoopIsCurrent, CacheIsCurrent, BehindRoute,
        RoutedTypeOK
  <2>4. ServersFollow'
    BY <1>1 DEF SwapRoute, RoutedInv, ServersFollow, RoutedTypeOK
  <2>5. RequestsHaveServer'
    BY <1>1
    DEF SwapRoute, RoutedInv, RequestsHaveServer, ServersFollow, BehindRoute,
        RoutedTypeOK
  <2>6. FailedWasReplaced'
    BY <1>1
    DEF SwapRoute, RoutedInv, FailedWasReplaced, RequestsHaveServer, ServersFollow,
        BehindRoute, RoutedTypeOK, ToolAt
  <2> QED BY <2>1, <2>2, <2>3, <2>4, <2>5, <2>6 DEF RoutedInv
<1>2. ASSUME NEW v \in Routed, NEW ok \in BOOLEAN, DrainReplaced(v, ok)
     PROVE  RoutedInv'
  <2>1. RoutedTypeOK'
    BY <1>2
    DEF DrainReplaced, RoutedInv, RoutedTypeOK, BehindRoute, ToolPcs, ServersFollow
  <2>2. BehindRoute'
    BY <1>2 DEF DrainReplaced, RoutedInv, BehindRoute, RoutedTypeOK
  <2>3. (LoopIsCurrent /\ CacheIsCurrent)'
    BY <1>2
    DEF DrainReplaced, RoutedInv, LoopIsCurrent, CacheIsCurrent, BehindRoute,
        RoutedTypeOK
  <2>4. ServersFollow'
    BY <1>2 DEF DrainReplaced, RoutedInv, ServersFollow, RoutedTypeOK
  <2>5. RequestsHaveServer'
    BY <1>2
    DEF DrainReplaced, RoutedInv, RequestsHaveServer, ServersFollow, BehindRoute,
        RoutedTypeOK
  <2>6. FailedWasReplaced'
    BY <1>2
    DEF DrainReplaced, RoutedInv, FailedWasReplaced, RequestsHaveServer,
        ServersFollow, BehindRoute, RoutedTypeOK, ToolAt
  <2> QED BY <2>1, <2>2, <2>3, <2>4, <2>5, <2>6 DEF RoutedInv
<1>3. CASE TakeUpdate
  <2>1. RoutedTypeOK'
    BY <1>3
    DEF TakeUpdate, Read, RoutedInv, RoutedTypeOK, BehindRoute, ToolPcs,
        ServersFollow
  <2>2. BehindRoute'
    BY <1>3 DEF TakeUpdate, Read, RoutedInv, BehindRoute, RoutedTypeOK
  <2>3. (LoopIsCurrent /\ CacheIsCurrent)'
    BY <1>3
    DEF TakeUpdate, Read, RoutedInv, LoopIsCurrent, CacheIsCurrent, BehindRoute,
        RoutedTypeOK
  <2>4. ServersFollow'
    BY <1>3 DEF TakeUpdate, Read, RoutedInv, ServersFollow, RoutedTypeOK
  <2>5. RequestsHaveServer'
    BY <1>3
    DEF TakeUpdate, Read, RoutedInv, RequestsHaveServer, ServersFollow,
        BehindRoute, RoutedTypeOK
  <2>6. FailedWasReplaced'
    BY <1>3
    DEF TakeUpdate, Read, RoutedInv, FailedWasReplaced, RequestsHaveServer,
        ServersFollow, BehindRoute, RoutedTypeOK, ToolAt
  <2> QED BY <2>1, <2>2, <2>3, <2>4, <2>5, <2>6 DEF RoutedInv
<1>4. ASSUME NEW ok \in BOOLEAN, StoreUpdate(ok)
     PROVE  RoutedInv'
  <2>1. RoutedTypeOK'
    BY <1>4
    DEF StoreUpdate, Store, RoutedInv, RoutedTypeOK, BehindRoute, ToolPcs,
        ServersFollow
  <2>2. BehindRoute'
    BY <1>4 DEF StoreUpdate, Store, RoutedInv, BehindRoute, RoutedTypeOK
  <2>3. (LoopIsCurrent /\ CacheIsCurrent)'
    BY <1>4
    DEF StoreUpdate, Store, RoutedInv, LoopIsCurrent, CacheIsCurrent, BehindRoute,
        RoutedTypeOK
  <2>4. ServersFollow'
    BY <1>4 DEF StoreUpdate, Store, RoutedInv, ServersFollow, RoutedTypeOK
  <2>5. RequestsHaveServer'
    BY <1>4
    DEF StoreUpdate, Store, RoutedInv, RequestsHaveServer, ServersFollow,
        BehindRoute, RoutedTypeOK
  <2>6. FailedWasReplaced'
    BY <1>4
    DEF StoreUpdate, Store, RoutedInv, FailedWasReplaced, RequestsHaveServer,
        ServersFollow, BehindRoute, RoutedTypeOK, ToolAt
  <2> QED BY <2>1, <2>2, <2>3, <2>4, <2>5, <2>6 DEF RoutedInv
<1>5. ASSUME NEW c \in ToolCalls, Resolve(c)
     PROVE  RoutedInv'
  <2> USE DEF Resolve, ToolAt, ToolGoes, Read, RoutedInv, RoutedTypeOK
  <2>1. RoutedTypeOK'
    BY <1>5, SMTT(40) DEF BehindRoute, ToolPcs
  <2>2. \A d \in ToolCalls : \/ toolCall'[d] = toolCall[d]
                             \/ d = c /\ toolCall'[d] = [pc |-> "sent", to |-> cached]
                             \/ d = c /\ toolCall'[d] = [pc |-> "loading", to |-> toolCall[d].to]
    BY <1>5
  <2>3. \A l \in Loaders : loading'[l] \in {loading[l], route}
    BY <1>5
  <2>4. BehindRoute'
    BY <1>5, <2>2, <2>3, SMTT(40) DEF BehindRoute
  <2>5. (LoopIsCurrent /\ CacheIsCurrent)'
    BY <1>5 DEF LoopIsCurrent, CacheIsCurrent
  <2>6. ServersFollow'
    BY <1>5 DEF ServersFollow
  <2>7. RequestsHaveServer' /\ FailedWasReplaced'
    BY <1>5, <2>2 DEF RequestsHaveServer, FailedWasReplaced
  <2> QED BY <2>1, <2>4, <2>5, <2>6, <2>7
<1>6. ASSUME NEW c \in ToolCalls, NEW ok \in BOOLEAN, ResolveSlowly(c, ok)
     PROVE  RoutedInv'
  <2>1. /\ toolCall[c].pc = "loading" /\ UNCHANGED <<route, updates, server, replaced, failing>>
        /\ toolCall' = [toolCall EXCEPT ![c] = [pc |-> "sent", to |-> cached']]
        /\ loading' = [loading EXCEPT ![c] = NotRead]
        /\ \/ cached' = cached /\ backwards' = backwards
           \/ cached' = loading[c] /\ backwards' = (backwards \/ loading[c] < cached)
    BY <1>6 DEF ResolveSlowly, ToolAt, Store
  <2>2. /\ route \in Routed /\ updates \in Routed /\ cached \in Routed
        /\ loading \in [Loaders -> Routed \union {NotRead}] /\ c \in Loaders
        /\ toolCall \in [ToolCalls -> [pc: ToolPcs, to: Routed]]
    BY DEF RoutedInv, RoutedTypeOK
  <2>3. loading[c] \in Routed /\ loading[c] <= route
    BY <2>1, <2>2 DEF RoutedInv, BehindRoute
  <2>4. cached' \in Routed /\ cached' <= route
    BY <2>1, <2>2, <2>3 DEF RoutedInv, BehindRoute
  <2>5. \A d \in ToolCalls : \/ d # c /\ toolCall'[d] = toolCall[d]
                             \/ d = c /\ toolCall'[d] = [pc |-> "sent", to |-> cached']
    BY <2>1, <2>2
  <2>6. /\ \A l \in Loaders : l # c => loading'[l] = loading[l]
        /\ loading'[c] = NotRead /\ Loop # c
    BY <2>2, <2>1
  <2>7. backwards' \in BOOLEAN
    <3>1. backwards \in BOOLEAN
      BY DEF RoutedInv, RoutedTypeOK
    <3> QED BY <2>1, <3>1
  <2>8. RoutedTypeOK'
    <3>1. toolCall' \in [ToolCalls -> [pc: ToolPcs, to: Routed]]
      BY <2>1, <2>2, <2>4 DEF ToolPcs
    <3>2. loading' \in [Loaders -> Routed \union {NotRead}]
      BY <2>1, <2>2
    <3> QED BY <2>1, <2>4, <2>7, <3>1, <3>2 DEF RoutedInv, RoutedTypeOK
  <2>9. BehindRoute'
    BY <2>1, <2>4, <2>5, <2>6 DEF RoutedInv, BehindRoute
  <2>10. LoopIsCurrent'
    BY <2>1, <2>6 DEF RoutedInv, LoopIsCurrent
  <2>11. CacheIsCurrent'
    <3>1. SUFFICES ASSUME updates = 0, loading[Loop] = NotRead, ~failing, ~backwards'
                   PROVE  cached' = route
      BY <2>1, <2>6 DEF CacheIsCurrent
    <3>2. /\ ~backwards
          /\ \/ cached' = cached
             \/ cached' = loading[c] /\ ~(loading[c] < cached)
      <4>1. CASE cached' = cached /\ backwards' = backwards
        BY <3>1, <4>1
      <4>2. CASE cached' = loading[c] /\ backwards' = (backwards \/ loading[c] < cached)
        <5>1. ~(backwards \/ loading[c] < cached)
          BY <3>1, <4>2
        <5> QED BY <4>2, <5>1
      <4> QED BY <2>1, <4>1, <4>2
    <3>3. cached = route
      BY <3>1, <3>2 DEF RoutedInv, CacheIsCurrent
    <3> QED BY <2>2, <2>3, <3>2, <3>3
  <2>12. ServersFollow'
    BY <2>1 DEF RoutedInv, ServersFollow
  <2>13. RequestsHaveServer' /\ FailedWasReplaced'
    BY <2>1, <2>5 DEF RoutedInv, RequestsHaveServer, FailedWasReplaced, ToolAt
  <2> QED BY <2>8, <2>9, <2>10, <2>11, <2>12, <2>13 DEF RoutedInv
<1>7. ASSUME NEW c \in ToolCalls, Send(c)
     PROVE  RoutedInv'
  <2>1. RoutedTypeOK'
    BY <1>7
    DEF Send, ToolAt, ToolGoes, RoutedInv, RoutedTypeOK, BehindRoute, ToolPcs,
        ServersFollow
  <2>2. BehindRoute'
    BY <1>7 DEF Send, ToolAt, ToolGoes, RoutedInv, BehindRoute, RoutedTypeOK
  <2>3. (LoopIsCurrent /\ CacheIsCurrent)'
    BY <1>7
    DEF Send, ToolAt, ToolGoes, RoutedInv, LoopIsCurrent, CacheIsCurrent,
        BehindRoute, RoutedTypeOK
  <2>4. ServersFollow'
    BY <1>7 DEF Send, ToolAt, ToolGoes, RoutedInv, ServersFollow, RoutedTypeOK
  <2>5. RequestsHaveServer'
    BY <1>7
    DEF Send, ToolAt, ToolGoes, RoutedInv, RequestsHaveServer, ServersFollow,
        BehindRoute, RoutedTypeOK
  <2>6. FailedWasReplaced'
    BY <1>7
    DEF Send, ToolAt, ToolGoes, RoutedInv, FailedWasReplaced, RequestsHaveServer,
        ServersFollow, BehindRoute, RoutedTypeOK
  <2> QED BY <2>1, <2>2, <2>3, <2>4, <2>5, <2>6 DEF RoutedInv
<1>8. ASSUME NEW c \in ToolCalls, Take(c)
     PROVE  RoutedInv'
  <2>1. RoutedTypeOK'
    BY <1>8
    DEF Take, ToolAt, ToolGoes, RoutedInv, RoutedTypeOK, BehindRoute, ToolPcs,
        ServersFollow
  <2>2. BehindRoute'
    BY <1>8 DEF Take, ToolAt, ToolGoes, RoutedInv, BehindRoute, RoutedTypeOK
  <2>3. (LoopIsCurrent /\ CacheIsCurrent)'
    BY <1>8
    DEF Take, ToolAt, ToolGoes, RoutedInv, LoopIsCurrent, CacheIsCurrent,
        BehindRoute, RoutedTypeOK
  <2>4. ServersFollow'
    BY <1>8 DEF Take, ToolAt, ToolGoes, RoutedInv, ServersFollow, RoutedTypeOK
  <2>5. RequestsHaveServer'
    BY <1>8
    DEF Take, ToolAt, ToolGoes, RoutedInv, RequestsHaveServer, ServersFollow,
        BehindRoute, RoutedTypeOK
  <2>6. FailedWasReplaced'
    BY <1>8
    DEF Take, ToolAt, ToolGoes, RoutedInv, FailedWasReplaced, RequestsHaveServer,
        ServersFollow, BehindRoute, RoutedTypeOK
  <2> QED BY <2>1, <2>2, <2>3, <2>4, <2>5, <2>6 DEF RoutedInv
<1>9. ASSUME NEW c \in ToolCalls, Reply(c)
     PROVE  RoutedInv'
  <2>1. RoutedTypeOK'
    BY <1>9
    DEF Reply, ToolAt, ToolGoes, RoutedInv, RoutedTypeOK, BehindRoute, ToolPcs,
        ServersFollow
  <2>2. BehindRoute'
    BY <1>9 DEF Reply, ToolAt, ToolGoes, RoutedInv, BehindRoute, RoutedTypeOK
  <2>3. (LoopIsCurrent /\ CacheIsCurrent)'
    BY <1>9
    DEF Reply, ToolAt, ToolGoes, RoutedInv, LoopIsCurrent, CacheIsCurrent,
        BehindRoute, RoutedTypeOK
  <2>4. ServersFollow'
    BY <1>9 DEF Reply, ToolAt, ToolGoes, RoutedInv, ServersFollow, RoutedTypeOK
  <2>5. RequestsHaveServer'
    BY <1>9
    DEF Reply, ToolAt, ToolGoes, RoutedInv, RequestsHaveServer, ServersFollow,
        BehindRoute, RoutedTypeOK
  <2>6. FailedWasReplaced'
    BY <1>9
    DEF Reply, ToolAt, ToolGoes, RoutedInv, FailedWasReplaced, RequestsHaveServer,
        ServersFollow, BehindRoute, RoutedTypeOK
  <2> QED BY <2>1, <2>2, <2>3, <2>4, <2>5, <2>6 DEF RoutedInv
<1>10. ASSUME NEW v \in Routed, ExitDrained(v)
     PROVE  RoutedInv'
  <2>1. RoutedTypeOK'
    BY <1>10
    DEF ExitDrained, Gone, Served, ToolAt, RoutedInv, RoutedTypeOK, BehindRoute,
        ToolPcs, ServersFollow
  <2>2. BehindRoute'
    BY <1>10
    DEF ExitDrained, Gone, Served, ToolAt, RoutedInv, BehindRoute, RoutedTypeOK
  <2>3. (LoopIsCurrent /\ CacheIsCurrent)'
    BY <1>10
    DEF ExitDrained, Gone, Served, ToolAt, RoutedInv, LoopIsCurrent,
        CacheIsCurrent, BehindRoute, RoutedTypeOK
  <2>4. ServersFollow'
    BY <1>10
    DEF ExitDrained, Gone, Served, ToolAt, RoutedInv, ServersFollow, RoutedTypeOK
  <2>5. RequestsHaveServer'
    BY <1>10
    DEF ExitDrained, Gone, Served, ToolAt, RoutedInv, RequestsHaveServer,
        ServersFollow, BehindRoute, RoutedTypeOK
  <2>6. FailedWasReplaced'
    BY <1>10
    DEF ExitDrained, Gone, Served, ToolAt, RoutedInv, FailedWasReplaced,
        RequestsHaveServer, ServersFollow, BehindRoute, RoutedTypeOK
  <2> QED BY <2>1, <2>2, <2>3, <2>4, <2>5, <2>6 DEF RoutedInv
<1>11. CASE UNCHANGED routedVars
  BY <1>11
  DEF routedVars, RoutedInv, RoutedTypeOK, BehindRoute, LoopIsCurrent,
      CacheIsCurrent,
               ServersFollow, RequestsHaveServer, FailedWasReplaced, ToolAt
<1> QED
  BY <1>1, <1>2, <1>3, <1>4, <1>5, <1>6, <1>7, <1>8, <1>9, <1>10, <1>11
  DEF RoutedNext

LEMMA RoutedInvariant == RoutedSpec => []RoutedInv
<1>1. RoutedInit => RoutedInv
  <2> SUFFICES ASSUME RoutedInit PROVE RoutedInv
    OBVIOUS
  <2>1. /\ toolCall \in [ToolCalls -> [pc: ToolPcs, to: Routed]]
        /\ \A c \in ToolCalls : toolCall[c] = [pc |-> "new", to |-> 0]
    BY SwapsAssumption DEF RoutedInit, ToolPcs, Routed
  <2>2. loading \in [Loaders -> Routed \union {NotRead}] /\ \A l \in Loaders : loading[l] = NotRead
    BY DEF RoutedInit
  <2>3. /\ route = 0 /\ updates = 0 /\ cached = 0 /\ replaced = {}
        /\ server = [v \in Routed |-> IF v = 0 THEN "up" ELSE "off"]
    BY DEF RoutedInit
  <2>4. {backwards, failing} \subseteq BOOLEAN
    BY DEF RoutedInit
  <2>5. RoutedTypeOK
    BY <2>1, <2>2, <2>3, <2>4, SwapsAssumption DEF RoutedTypeOK, Routed
  <2>6. BehindRoute /\ LoopIsCurrent /\ CacheIsCurrent
    BY <2>1, <2>2, <2>3 DEF BehindRoute, LoopIsCurrent, CacheIsCurrent, Loaders
  <2>7. ServersFollow
    BY <2>3, SwapsAssumption DEF ServersFollow, Routed
  <2>8. RequestsHaveServer /\ FailedWasReplaced
    BY <2>1 DEF RequestsHaveServer, FailedWasReplaced, ToolAt
  <2> QED BY <2>5, <2>6, <2>7, <2>8 DEF RoutedInv
<1> QED BY <1>1, RoutedInvInductive, PTL DEF RoutedSpec

\* The routes, caches, processes and calls keep their types.
THEOREM RoutedTypeCorrect == RoutedSpec => []RoutedTypeOK
<1>1. RoutedInv => RoutedTypeOK
  BY DEF RoutedInv
<1> QED BY <1>1, RoutedInvariant, PTL

\* Under any number of callers, patches and failed refreshes and drains: the
\* cached route follows the manifest, a request that was taken is answered
\* before its process ends, and only calls to a replaced version fail.
THEOREM RoutedSafetyHolds == RoutedSpec => []RoutedSafety
<1>1. RoutedInv => RoutedSafety
  <2> SUFFICES ASSUME RoutedInv PROVE RoutedSafety
    OBVIOUS
  <2>1. CacheFollows
    BY DEF RoutedInv, CacheIsCurrent, CacheFollows
  <2>2. TakenIsAnswered
    BY DEF RoutedInv, RequestsHaveServer, TakenIsAnswered, Served, ToolAt
  <2> QED BY <2>1, <2>2 DEF RoutedInv, RoutedSafety
<1> QED BY <1>1, RoutedInvariant, PTL

-----------------------------------------------------------------------------
(* The journal's way to disk and into the session store.                   *)

BridgeTyped ==
  /\ issued \subseteq Events /\ acked \subseteq issued
  /\ taken \in [event: Events \union {NoEvent}, step: {"none", "write", "newline", "ack"}]
  /\ taken = Nothing \/ (taken.event \in issued \ acked /\ taken.step # "none")
  /\ unwritten \subseteq issued

FilesTyped ==
  /\ lines \in [Groups -> Seq(Seq(Events))]
  /\ \A g \in Groups : \A i \in DOMAIN lines[g] :
       lines[g][i] # << >> /\ \A e \in SetOf(lines[g][i]) : GroupOf[e] = g
  /\ broken \subseteq {g \in Groups : lines[g] # << >>}

StoreTyped ==
  store \in [keys: SUBSET Events, messages: [Events -> Nat],
             sessions: [JournalSessions -> {"none", "open", "ended"}]]

ReaderTyped ==
  /\ heard \in Seq(Events)
  /\ mode \in {"down", "live", "replaying"}
  /\ ingest \in [event: Events \union {NoEvent}, step: {"none", "key", "session", "message"}]
  /\ ingest = Nothing \/ (ingest.event \in Events /\ ingest.step # "none")
  /\ cursor \in (Nat \ {0}) \X (Nat \ {0})
  /\ atStart \subseteq Events

PipelineTyped == BridgeTyped /\ FilesTyped /\ StoreTyped /\ ReaderTyped

LEMMA NothingIsNoEvent == Nothing.event = NoEvent /\ Nothing.step = "none" /\ NoEvent \notin Events
BY JournalAssumption DEF Nothing

LEMMA WrittenIsInALine ==
  ASSUME NEW e
  PROVE  e \in Written <=> \E g \in Groups : \E i \in DOMAIN lines[g] : e \in SetOf(lines[g][i])
BY DEF Written

LEMMA AppendToLine ==
  ASSUME NEW S, NEW s \in Seq(S), NEW e \in S
  PROVE  /\ Append(s, e) \in Seq(S) /\ Append(s, e) # << >>
         /\ Len(Append(s, e)) = Len(s) + 1
         /\ DOMAIN s \subseteq DOMAIN Append(s, e)
         /\ DOMAIN Append(s, e) = DOMAIN s \union {Len(s) + 1}
         /\ \A i \in DOMAIN s : Append(s, e)[i] = s[i]
         /\ Append(s, e)[Len(s) + 1] = e
         /\ SetOf(Append(s, e)) = SetOf(s) \union {e}
<1>1. /\ Append(s, e) \in Seq(S) /\ Append(s, e) # << >>
      /\ Len(Append(s, e)) = Len(s) + 1
      /\ DOMAIN s = 1..Len(s) /\ Len(s) \in Nat
      /\ DOMAIN Append(s, e) = 1..(Len(s) + 1)
      /\ \A i \in DOMAIN s : Append(s, e)[i] = s[i]
      /\ Append(s, e)[Len(s) + 1] = e
  OBVIOUS
<1>2. DOMAIN Append(s, e) = DOMAIN s \union {Len(s) + 1}
  BY <1>1
<1>3. SetOf(Append(s, e)) = SetOf(s) \union {e}
  BY <1>1, <1>2 DEF SetOf
<1> QED BY <1>1, <1>2, <1>3

\* What the first write of append_line does to the files: no line loses an
\* event, and the event is in a line of its group.
LEMMA WriteTextFacts ==
  ASSUME PipelineTyped, WriteText(TRUE)
  PROVE  /\ FilesTyped'
         /\ \A g \in Groups : \A i \in DOMAIN lines[g] :
              i \in DOMAIN lines'[g] /\ SetOf(lines[g][i]) \subseteq SetOf(lines'[g][i])
         /\ taken.event \in Written'
<1> DEFINE e == taken.event
           g == GroupOf[e]
           n == Len(lines[g])
<1>1. e \in Events /\ g \in Groups
  BY NothingIsNoEvent, JournalAssumption
  DEF PipelineTyped, BridgeTyped, WriteText
<1>2. /\ lines[g] \in Seq(Seq(Events)) /\ n \in Nat /\ DOMAIN lines[g] = 1..n
      /\ g \in broken => n > 0
  BY <1>1 DEF PipelineTyped, FilesTyped
<1>3. /\ lines' = [lines EXCEPT ![g] = IF g \in broken THEN Glued(lines[g], e) ELSE Append(lines[g], <<e>>)]
      /\ broken' = broken \union {g}
  BY DEF WriteText
<1>4. \A h \in Groups : h # g => lines'[h] = lines[h]
  BY <1>3 DEF PipelineTyped, FilesTyped
<1>5. \* The group's own file, line by line.
      /\ lines'[g] \in Seq(Seq(Events)) /\ lines'[g] # << >>
      /\ \A i \in DOMAIN lines[g] :
           i \in DOMAIN lines'[g] /\ SetOf(lines[g][i]) \subseteq SetOf(lines'[g][i])
      /\ \A i \in DOMAIN lines'[g] :
           /\ lines'[g][i] # << >>
           /\ SetOf(lines'[g][i]) \subseteq
                {e} \union (IF i \in DOMAIN lines[g] THEN SetOf(lines[g][i]) ELSE {})
      /\ \E i \in DOMAIN lines'[g] : e \in SetOf(lines'[g][i])
  <2>1. CASE g \in broken
    <3> DEFINE new == Append(lines[g][n], e)
    <3>1. n \in DOMAIN lines[g] /\ lines[g][n] \in Seq(Events)
      BY <1>2, <2>1
    <3>2. /\ new \in Seq(Events) /\ new # << >>
          /\ SetOf(new) = SetOf(lines[g][n]) \union {e}
      BY <1>1, <3>1, AppendToLine
    <3>3. lines'[g] = [lines[g] EXCEPT ![n] = new]
      BY <1>1, <1>3, <2>1 DEF PipelineTyped, FilesTyped, Glued
    <3> HIDE DEF new
    <3>4. /\ lines'[g] \in Seq(Seq(Events)) /\ DOMAIN lines'[g] = DOMAIN lines[g]
          /\ lines'[g][n] = new
          /\ \A i \in DOMAIN lines[g] : i # n => lines'[g][i] = lines[g][i]
      BY <1>2, <3>1, <3>2, <3>3
    <3>5. lines'[g] # << >>
      BY <3>1, <3>4
    <3>6. \A i \in DOMAIN lines[g] : lines[g][i] # << >>
      BY <1>1 DEF PipelineTyped, FilesTyped
    <3> HIDE DEF e, g, n
    <3> QED BY <3>1, <3>2, <3>4, <3>5, <3>6
  <2>2. CASE g \notin broken
    <3>1. <<e>> \in Seq(Events) /\ <<e>> # << >> /\ SetOf(<<e>>) = {e}
      BY <1>1 DEF SetOf
    <3>2. lines'[g] = Append(lines[g], <<e>>)
      BY <1>1, <1>3, <2>2 DEF PipelineTyped, FilesTyped
    <3>3. /\ lines'[g] \in Seq(Seq(Events)) /\ lines'[g] # << >>
          /\ DOMAIN lines'[g] = DOMAIN lines[g] \union {n + 1}
          /\ \A i \in DOMAIN lines[g] : lines'[g][i] = lines[g][i]
          /\ lines'[g][n + 1] = <<e>>
      <4> DEFINE L == Append(lines[g], <<e>>)
      <4>1. lines[g] \in Seq(Seq(Events)) /\ Len(lines[g]) = n
        BY <1>2
      <4> HIDE DEF e, g, n
      <4>2. /\ L \in Seq(Seq(Events)) /\ L # << >>
            /\ DOMAIN L = DOMAIN lines[g] \union {Len(lines[g]) + 1}
            /\ \A i \in DOMAIN lines[g] : L[i] = lines[g][i]
            /\ L[Len(lines[g]) + 1] = <<e>>
        BY <3>1, <4>1, AppendToLine
      <4> HIDE DEF L
      <4> QED BY <3>2, <4>1, <4>2 DEF L
    <3>4. \A i \in DOMAIN lines[g] : lines[g][i] # << >>
      BY <1>1 DEF PipelineTyped, FilesTyped
    <3> HIDE DEF e, g
    <3>5. \A i \in DOMAIN lines[g] : i # n + 1
      BY <1>2
    <3>6. \A i \in DOMAIN lines'[g] :
            i \in DOMAIN lines[g] \/ (i = n + 1 /\ i \notin DOMAIN lines[g])
      <4>1. DOMAIN lines'[g] = DOMAIN lines[g] \union {n + 1}
        BY <3>3
      <4> HIDE DEF n
      <4> QED BY <3>5, <4>1
    <3> HIDE DEF n
    <3>7. \A i \in DOMAIN lines[g] :
            i \in DOMAIN lines'[g] /\ SetOf(lines[g][i]) \subseteq SetOf(lines'[g][i])
      BY <3>3
    <3>8. \A i \in DOMAIN lines'[g] :
            /\ lines'[g][i] # << >>
            /\ SetOf(lines'[g][i]) \subseteq
                 {e} \union (IF i \in DOMAIN lines[g] THEN SetOf(lines[g][i]) ELSE {})
      <4> SUFFICES ASSUME NEW i \in DOMAIN lines'[g]
                   PROVE  /\ lines'[g][i] # << >>
                          /\ SetOf(lines'[g][i]) \subseteq
                               {e} \union (IF i \in DOMAIN lines[g] THEN SetOf(lines[g][i]) ELSE {})
        OBVIOUS
      <4>1. CASE i \in DOMAIN lines[g]
        BY <3>3, <3>4, <4>1
      <4>2. CASE i = n + 1
        BY <3>1, <3>3, <4>2
      <4> QED BY <3>6, <4>1, <4>2
    <3>9. \E i \in DOMAIN lines'[g] : e \in SetOf(lines'[g][i])
      BY <3>1, <3>3
    <3> QED BY <3>3, <3>7, <3>8, <3>9
  <2> QED BY <2>1, <2>2
<1>6. lines' \in [Groups -> Seq(Seq(Events))]
  <2>1. lines' = [h \in Groups |-> lines'[h]]
    BY <1>3 DEF PipelineTyped, FilesTyped
  <2>2. \A h \in Groups : lines'[h] \in Seq(Seq(Events))
    BY <1>4, <1>5 DEF PipelineTyped, FilesTyped
  <2> QED BY <2>1, <2>2
<1>7. \A h \in Groups : \A i \in DOMAIN lines'[h] :
        lines'[h][i] # << >> /\ \A x \in SetOf(lines'[h][i]) : GroupOf[x] = h
  <2> SUFFICES ASSUME NEW h \in Groups, NEW i \in DOMAIN lines'[h]
               PROVE  lines'[h][i] # << >> /\ \A x \in SetOf(lines'[h][i]) : GroupOf[x] = h
    OBVIOUS
  <2>1. CASE h # g
    BY <1>4, <2>1 DEF PipelineTyped, FilesTyped
  <2>2. CASE h = g
    <3>1. /\ lines'[g][i] # << >>
          /\ SetOf(lines'[g][i]) \subseteq
               {e} \union (IF i \in DOMAIN lines[g] THEN SetOf(lines[g][i]) ELSE {})
      BY <1>5, <2>2
    <3>2. i \in DOMAIN lines[g] => \A x \in SetOf(lines[g][i]) : GroupOf[x] = g
      BY <1>1 DEF PipelineTyped, FilesTyped
    <3>3. GroupOf[e] = g
      OBVIOUS
    <3> HIDE DEF e, g
    <3> QED BY <2>2, <3>1, <3>2, <3>3
  <2> QED BY <2>1, <2>2
<1>8. broken' \subseteq {h \in Groups : lines'[h] # << >>}
  BY <1>1, <1>3, <1>4, <1>5 DEF PipelineTyped, FilesTyped
<1>9. e \in Written'
  BY <1>1, <1>5 DEF Written
<1> HIDE DEF e, g, n
<1>10. \A h \in Groups : \A i \in DOMAIN lines[h] :
         i \in DOMAIN lines'[h] /\ SetOf(lines[h][i]) \subseteq SetOf(lines'[h][i])
  BY <1>4, <1>5
<1> QED BY <1>6, <1>7, <1>8, <1>9, <1>10 DEF FilesTyped, e

LEMMA PipelineInitially == JournalInit => PipelineTyped
<1> SUFFICES ASSUME JournalInit PROVE PipelineTyped
  OBVIOUS
<1>1. BridgeTyped
  BY DEF JournalInit, BridgeTyped, Nothing
<1>2. FilesTyped
  BY DEF JournalInit, FilesTyped
<1>3. StoreTyped
  BY DEF JournalInit, StoreTyped, EmptyStore
<1>4. ReaderTyped
  BY DEF JournalInit, ReaderTyped, Nothing
<1> QED BY <1>1, <1>2, <1>3, <1>4 DEF PipelineTyped

LEMMA FilesTypedKept == PipelineTyped /\ [JournalNext]_journalVars => FilesTyped'
<1> SUFFICES ASSUME PipelineTyped, [JournalNext]_journalVars
             PROVE  FilesTyped'
  OBVIOUS
<1>1. ASSUME UNCHANGED <<lines, broken>>
      PROVE  FilesTyped'
  BY <1>1 DEF PipelineTyped, FilesTyped, SetOf
<1>2. CASE WriteText(TRUE)
  BY <1>2, WriteTextFacts
<1>3. CASE WriteText(FALSE)
  BY <1>1, <1>3 DEF WriteText
<1>4. ASSUME NEW ok \in BOOLEAN, WriteNewline(ok)
      PROVE  FilesTyped'
  BY <1>4 DEF WriteNewline, PipelineTyped, FilesTyped, SetOf
<1>5. ASSUME NEW e \in Events, Issue(e) \/ Deliver(e)
      PROVE  FilesTyped'
  BY <1>1, <1>5 DEF Issue, Deliver
<1>6. ASSUME NEW ok \in BOOLEAN, Ack(ok)
      PROVE  FilesTyped'
  BY <1>1, <1>6 DEF Ack
<1>7. CASE BridgeFalls
  BY <1>1, <1>7 DEF BridgeFalls
<1>8. CASE Hear \/ Ingest \/ Replay \/ ReconcilerFalls
  BY <1>1, <1>8
  DEF Hear, Ingest, InsertKey, InsertSession, InsertMessage, Replay, ReplayLine,
     NextFile,
      ReplayEnds, ReconcilerFalls, bridgeVars
<1>9. ASSUME NEW rebuild \in BOOLEAN, NEW o \in BOOLEAN, ReconcilerStarts(rebuild, o)
      PROVE  FilesTyped'
  BY <1>1, <1>9 DEF ReconcilerStarts, bridgeVars
<1>10. CASE UNCHANGED journalVars
  BY <1>1, <1>10 DEF journalVars, bridgeVars
<1>11. ASSUME NEW ok \in BOOLEAN, WriteText(ok)
       PROVE  FilesTyped'
  <2>1. ok = TRUE \/ ok = FALSE
    OBVIOUS
  <2> QED BY <1>2, <1>3, <1>11, <2>1
<1> QED BY <1>4, <1>5, <1>6, <1>7, <1>8, <1>9, <1>10, <1>11 DEF JournalNext, Bridge

LEMMA BridgeTypedKept == PipelineTyped /\ [JournalNext]_journalVars => BridgeTyped'
<1> SUFFICES ASSUME PipelineTyped, [JournalNext]_journalVars
             PROVE  BridgeTyped'
  OBVIOUS
<1> USE NothingIsNoEvent DEF PipelineTyped, BridgeTyped
<1>1. ASSUME UNCHANGED <<issued, acked, taken, unwritten>>
      PROVE  BridgeTyped'
  BY <1>1
<1>2. ASSUME NEW e \in Events, Issue(e)
      PROVE  BridgeTyped'
  BY <1>2 DEF Issue
<1>3. ASSUME NEW e \in Events, Deliver(e)
      PROVE  BridgeTyped'
  BY <1>3 DEF Deliver
<1>4. ASSUME NEW ok \in BOOLEAN, WriteText(ok)
      PROVE  BridgeTyped'
  <2>1. /\ taken.event \in issued \ acked
        /\ UNCHANGED <<issued, acked>>
        /\ \E s \in {"newline", "ack"} : taken' = [taken EXCEPT !.step = s]
        /\ unwritten' \subseteq unwritten \union {taken.event}
    BY <1>4 DEF WriteText
  <2> QED BY <2>1
<1>5. ASSUME NEW ok \in BOOLEAN, WriteNewline(ok)
      PROVE  BridgeTyped'
  BY <1>5 DEF WriteNewline
<1>6. ASSUME NEW ok \in BOOLEAN, Ack(ok)
      PROVE  BridgeTyped'
  BY <1>6 DEF Ack, Nothing
<1>7. CASE BridgeFalls
  BY <1>7 DEF BridgeFalls, Nothing
<1>8. CASE Hear \/ Ingest \/ Replay \/ ReconcilerFalls
  BY <1>1, <1>8
  DEF Hear, Ingest, InsertKey, InsertSession, InsertMessage, Replay, ReplayLine,
     NextFile,
      ReplayEnds, ReconcilerFalls, bridgeVars
<1>9. ASSUME NEW rebuild \in BOOLEAN, NEW o \in BOOLEAN, ReconcilerStarts(rebuild, o)
      PROVE  BridgeTyped'
  BY <1>1, <1>9 DEF ReconcilerStarts, bridgeVars
<1>10. CASE UNCHANGED journalVars
  BY <1>1, <1>10 DEF journalVars, bridgeVars
<1> QED
  BY <1>2, <1>3, <1>4, <1>5, <1>6, <1>7, <1>8, <1>9, <1>10 DEF JournalNext, Bridge

LEMMA WrittenEvents == PipelineTyped => Written \subseteq Events
<1> SUFFICES ASSUME PipelineTyped, NEW g \in Groups, NEW i \in DOMAIN lines[g]
             PROVE  SetOf(lines[g][i]) \subseteq Events
  BY DEF Written
<1>1. lines[g] \in Seq(Seq(Events))
  BY DEF PipelineTyped, FilesTyped
<1>2. lines[g][i] \in Seq(Events)
  BY <1>1
<1> QED BY <1>2 DEF SetOf

\* What a replay reads at its cursor.
LEMMA LineAtCursor ==
  ASSUME PipelineTyped, cursor[1] <= Len(GroupOrder),
         cursor[2] \in DOMAIN lines[GroupOrder[cursor[1]]],
         Len(lines[GroupOrder[cursor[1]]][cursor[2]]) = 1
  PROVE  LET line == lines[GroupOrder[cursor[1]]][cursor[2]]
         IN line[1] \in Events /\ SetOf(line) = {line[1]}
<1> DEFINE g == GroupOrder[cursor[1]]
           line == lines[g][cursor[2]]
<1>1. g \in Groups
  BY JournalAssumption DEF Groups, PipelineTyped, ReaderTyped
<1>2. lines[g] \in Seq(Seq(Events))
  BY <1>1 DEF PipelineTyped, FilesTyped
<1>3. line \in Seq(Events)
  BY <1>2
<1> QED BY <1>3 DEF SetOf

LEMMA ReaderTypedKept == PipelineTyped /\ [JournalNext]_journalVars => (StoreTyped /\ ReaderTyped)'
<1> SUFFICES ASSUME PipelineTyped, [JournalNext]_journalVars
             PROVE  (StoreTyped /\ ReaderTyped)'
  OBVIOUS
<1> DEFINE Goal == StoreTyped /\ ReaderTyped
<1> USE NothingIsNoEvent DEF PipelineTyped, StoreTyped, ReaderTyped
<1>1. ASSUME UNCHANGED storeVars
      PROVE  Goal'
  BY <1>1 DEF storeVars
<1>2. ASSUME NEW e \in Events, Issue(e)
      PROVE  Goal'
  BY <1>2 DEF Issue
<1>3. ASSUME NEW e \in Events, Deliver(e)
      PROVE  Goal'
  BY <1>1, <1>3 DEF Deliver
<1>4. ASSUME NEW ok \in BOOLEAN, WriteText(ok) \/ WriteNewline(ok) \/ Ack(ok)
      PROVE  Goal'
  BY <1>1, <1>4 DEF WriteText, WriteNewline, Ack
<1>5. CASE BridgeFalls
  BY <1>1, <1>5 DEF BridgeFalls
<1>6. CASE Hear
  BY <1>6 DEF Hear
<1>7. CASE InsertKey
  BY <1>7 DEF InsertKey, Nothing
<1>8. CASE InsertSession
  <2>1. ingest.event \in Events /\ SessionOf[ingest.event] \in JournalSessions
    BY <1>8 DEF InsertSession, JournalSessions
  <2>2. \E s \in {"none", "open", "ended"} :
          store' = [store EXCEPT !.sessions[SessionOf[ingest.event]] = s]
    BY <1>8, <2>1 DEF InsertSession
  <2> QED BY <1>8, <2>1, <2>2, SMTT(40) DEF InsertSession
<1>9. CASE InsertMessage
  <2>1. ingest.event \in Events
    BY <1>9 DEF InsertMessage
  <2> DEFINE e == ingest.event
             n == store.messages[e] + 1
  <2>2. store' = [store EXCEPT !.messages[e] = n] /\ n \in Nat
    BY <1>9, <2>1 DEF InsertMessage
  <2> HIDE DEF n, e
  <2>3. StoreTyped'
    BY <2>2
  <2>4. ReaderTyped'
    BY <1>9 DEF InsertMessage, Nothing
  <2> QED BY <2>3, <2>4
<1>10. CASE ReplayLine
  <2> DEFINE line == lines[GroupOrder[cursor[1]]][cursor[2]]
  <2>1. CASE Len(line) = 1
    <3>1. /\ ingest' = [event |-> line[1], step |-> "key"]
          /\ cursor' = [cursor EXCEPT ![2] = @ + 1]
          /\ UNCHANGED <<mode, atStart, heard, store>>
      BY <1>10, <2>1 DEF ReplayLine
    <3>2. line[1] \in Events
      BY <1>10, <2>1, LineAtCursor DEF ReplayLine
    <3>3. cursor' \in (Nat \ {0}) \X (Nat \ {0})
      <4>1. PICK k \in Nat \ {0}, i \in Nat \ {0} : cursor = <<k, i>>
        OBVIOUS
      <4>2. cursor' = <<k, i + 1>>
        BY <3>1, <4>1
      <4> QED BY <4>2
    <3> HIDE DEF line
    <3> QED BY <3>1, <3>2, <3>3
  <2>2. CASE Len(line) # 1
    BY <1>10, <2>2 DEF ReplayLine
  <2> QED BY <2>1, <2>2
<1>11. CASE NextFile
  BY <1>11 DEF NextFile
<1>12. CASE ReplayEnds
  BY <1>12 DEF ReplayEnds
<1>13. CASE ReconcilerFalls
  BY <1>13 DEF ReconcilerFalls, Nothing
<1>14. ASSUME NEW rebuild \in BOOLEAN, NEW o \in BOOLEAN, ReconcilerStarts(rebuild, o)
       PROVE  Goal'
  <2>1. EmptyStore \in [keys: SUBSET Events, messages: [Events -> Nat],
                        sessions: [JournalSessions -> {"none", "open", "ended"}]]
    BY DEF EmptyStore
  <2> QED BY <1>14, <2>1, WrittenEvents DEF ReconcilerStarts
<1>15. CASE UNCHANGED journalVars
  BY <1>1, <1>15 DEF journalVars
<1> QED
  BY <1>2, <1>3, <1>4, <1>5, <1>6, <1>7, <1>8, <1>9, <1>10, <1>11, <1>12, <1>13,
     <1>14, <1>15
  DEF JournalNext, Bridge, Ingest, Replay

LEMMA PipelineInductive == PipelineTyped /\ [JournalNext]_journalVars => PipelineTyped'
BY FilesTypedKept, BridgeTypedKept, ReaderTypedKept DEF PipelineTyped

\* Events, files, the two programs and the session store stay well typed, for
\* any events, groups, faults, deaths and rebuilds.
THEOREM JournalTypeCorrect == JournalSpec => []JournalTypeOK
<1>1. PipelineTyped => JournalTypeOK
  BY NothingIsNoEvent
  DEF PipelineTyped, BridgeTyped, FilesTyped, StoreTyped, ReaderTyped,
     JournalTypeOK, Nothing
<1> QED BY <1>1, PipelineInitially, PipelineInductive, PTL DEF JournalSpec

-----------------------------------------------------------------------------
(* What the steps of the pipeline leave behind them.                       *)

\* What is acknowledged, or about to be, is on disk or was refused.
TakenIsWritten ==
  taken.step \in {"newline", "ack"} => taken.event \in Written \union unwritten
BridgeInv == AckedIsWritten /\ TakenIsWritten

\* A message is inserted by whoever inserted its key, after its session.
KeyBeforeMessage ==
  /\ \A e \in Events : e \notin store.keys => store.messages[e] = 0
  /\ ingest.step \in {"session", "message"} =>
       ingest.event \in store.keys /\ store.messages[ingest.event] = 0
EndBeforeMessage ==
  ingest.step = "message" /\ ingest.event \in EndEvents =>
    store.sessions[SessionOf[ingest.event]] = "ended"
StoreInv == MessageOnce /\ KeyBeforeMessage /\ EndsStay /\ EndBeforeMessage

\* Event e is in a line that the replay has yet to read.
Ahead(e) ==
  \E k \in 1..Len(GroupOrder) : \E i \in DOMAIN lines[GroupOrder[k]] :
    /\ e \in SetOf(lines[GroupOrder[k]][i])
    /\ k > cursor[1] \/ (k = cursor[1] /\ i >= cursor[2])

ReplayInv ==
  /\ mode = "down" => ingest = Nothing
  /\ mode # "replaying" => cursor = <<1, 1>>
  /\ mode = "replaying" =>
       /\ \A e \in store.keys :
            \/ store.messages[e] > 0
            \/ ingest.event = e /\ ingest.step \in {"session", "message"}
       /\ \A e \in atStart : store.messages[e] > 0 \/ ingest.event = e \/ Ahead(e)

PipelineInv == PipelineTyped /\ BridgeInv /\ StoreInv /\ ReplayInv

LEMMA WrittenGrows ==
  PipelineTyped /\ [JournalNext]_journalVars => Written \subseteq Written'
<1> SUFFICES ASSUME PipelineTyped, [JournalNext]_journalVars, NEW e \in Written
             PROVE  e \in Written'
  OBVIOUS
<1>1. ASSUME UNCHANGED lines
      PROVE  e \in Written'
  BY <1>1 DEF Written, SetOf
<1>2. CASE WriteText(TRUE)
  <2>1. PICK g \in Groups : \E i \in DOMAIN lines[g] : e \in SetOf(lines[g][i])
    BY WrittenIsInALine
  <2>2. \E i \in DOMAIN lines'[g] : e \in SetOf(lines'[g][i])
    BY <1>2, <2>1, WriteTextFacts
  <2> QED BY <2>1, <2>2 DEF Written
<1>3. CASE UNCHANGED journalVars
  BY <1>1, <1>3 DEF journalVars, bridgeVars
<1>4. CASE JournalNext /\ ~WriteText(TRUE)
  <2>1. UNCHANGED lines
    <3>1. ASSUME NEW ok \in BOOLEAN, WriteText(ok)
          PROVE  UNCHANGED lines
      <4>1. ok = FALSE
        BY <1>4, <3>1
      <4> QED BY <3>1, <4>1 DEF WriteText
    <3>2. ASSUME NEW ok \in BOOLEAN, WriteNewline(ok) \/ Ack(ok)
          PROVE  UNCHANGED lines
      BY <3>2 DEF WriteNewline, Ack
    <3>3. ASSUME NEW x \in Events, Issue(x) \/ Deliver(x)
          PROVE  UNCHANGED lines
      BY <3>3 DEF Issue, Deliver
    <3>4. CASE BridgeFalls \/ Hear \/ Ingest \/ Replay \/ ReconcilerFalls
      BY <3>4
      DEF BridgeFalls, Hear, Ingest, InsertKey, InsertSession, InsertMessage,
         Replay,
          ReplayLine, NextFile, ReplayEnds, ReconcilerFalls, bridgeVars
    <3>5. ASSUME NEW rebuild \in BOOLEAN, NEW o \in BOOLEAN, ReconcilerStarts(rebuild, o)
          PROVE  UNCHANGED lines
      BY <3>5 DEF ReconcilerStarts, bridgeVars
    <3> QED BY <1>4, <3>1, <3>2, <3>3, <3>4, <3>5 DEF JournalNext, Bridge
  <2> QED BY <1>1, <2>1
<1> QED BY <1>2, <1>3, <1>4

LEMMA BridgeInductive ==
  PipelineTyped /\ BridgeInv /\ [JournalNext]_journalVars => BridgeInv'
<1> SUFFICES ASSUME PipelineTyped, BridgeInv, [JournalNext]_journalVars
             PROVE  BridgeInv'
  OBVIOUS
<1>1. Written \subseteq Written'
  BY WrittenGrows
<1> USE NothingIsNoEvent DEF BridgeInv, AckedIsWritten, TakenIsWritten
<1>2. ASSUME UNCHANGED <<acked, taken, unwritten>>
      PROVE  BridgeInv'
  BY <1>1, <1>2
<1>3. ASSUME NEW e \in Events, Issue(e)
      PROVE  BridgeInv'
  BY <1>2, <1>3 DEF Issue
<1>4. ASSUME NEW e \in Events, Deliver(e)
      PROVE  BridgeInv'
  BY <1>1, <1>4 DEF Deliver
<1>5. ASSUME NEW ok \in BOOLEAN, WriteText(ok)
      PROVE  BridgeInv'
  <2>1. taken'.event = taken.event
    BY <1>5 DEF WriteText, PipelineTyped, BridgeTyped
  <2>2. CASE ok
    <3>1. WriteText(TRUE)
      BY <1>5, <2>2
    <3>2. taken.event \in Written'
      BY <3>1, WriteTextFacts
    <3>3. UNCHANGED <<acked, unwritten>>
      BY <3>1 DEF WriteText
    <3> QED BY <1>1, <2>1, <3>2, <3>3
  <2>3. CASE ~ok
    <3>1. acked' = acked /\ unwritten' = unwritten \union {taken.event}
      BY <1>5, <2>3 DEF WriteText
    <3> QED BY <1>1, <2>1, <3>1
  <2> QED BY <2>2, <2>3
<1>6. ASSUME NEW ok \in BOOLEAN, WriteNewline(ok)
      PROVE  BridgeInv'
  <2>1. taken'.event = taken.event /\ UNCHANGED <<acked, unwritten>>
    BY <1>6 DEF WriteNewline, PipelineTyped, BridgeTyped
  <2> QED BY <1>1, <1>6, <2>1 DEF WriteNewline
<1>7. ASSUME NEW ok \in BOOLEAN, Ack(ok)
      PROVE  BridgeInv'
  BY <1>1, <1>7 DEF Ack
<1>8. CASE BridgeFalls
  BY <1>1, <1>8 DEF BridgeFalls
<1>9. CASE Hear \/ Ingest \/ Replay \/ ReconcilerFalls
  BY <1>2, <1>9
  DEF Hear, Ingest, InsertKey, InsertSession, InsertMessage, Replay, ReplayLine,
     NextFile,
      ReplayEnds, ReconcilerFalls, bridgeVars
<1>10. ASSUME NEW rebuild \in BOOLEAN, NEW o \in BOOLEAN, ReconcilerStarts(rebuild, o)
       PROVE  BridgeInv'
  BY <1>2, <1>10 DEF ReconcilerStarts, bridgeVars
<1>11. CASE UNCHANGED journalVars
  BY <1>2, <1>11 DEF journalVars, bridgeVars
<1> QED
  BY <1>3, <1>4, <1>5, <1>6, <1>7, <1>8, <1>9, <1>10, <1>11 DEF JournalNext, Bridge

LEMMA StoreInductive ==
  PipelineTyped /\ StoreInv /\ ReplayInv /\ [JournalNext]_journalVars => StoreInv'
<1> SUFFICES ASSUME PipelineTyped, StoreInv, ReplayInv, [JournalNext]_journalVars
             PROVE  StoreInv'
  OBVIOUS
<1> USE NothingIsNoEvent
    DEF StoreInv, MessageOnce, KeyBeforeMessage, EndsStay, EndBeforeMessage
<1>1. ASSUME UNCHANGED <<store, ingest>>
      PROVE  StoreInv'
  BY <1>1
<1>2. ASSUME NEW e \in Events, Issue(e) \/ Deliver(e)
      PROVE  StoreInv'
  BY <1>1, <1>2 DEF Issue, Deliver, storeVars
<1>3. ASSUME NEW ok \in BOOLEAN, WriteText(ok) \/ WriteNewline(ok) \/ Ack(ok)
      PROVE  StoreInv'
  BY <1>1, <1>3 DEF WriteText, WriteNewline, Ack, storeVars
<1>4. CASE BridgeFalls \/ NextFile \/ ReplayEnds
  BY <1>1, <1>4 DEF BridgeFalls, NextFile, ReplayEnds, storeVars
<1>5. ASSUME store' = store, ingest'.step \notin {"session", "message"}
      PROVE  StoreInv'
  BY <1>5
<1>6. CASE Hear \/ ReplayLine
  BY <1>1, <1>5, <1>6 DEF Hear, ReplayLine
<1>7. CASE ReconcilerFalls
  BY <1>5, <1>7 DEF ReconcilerFalls
<1>8. CASE InsertKey
  <2>1. ingest.event \in Events
    BY <1>8 DEF InsertKey, PipelineTyped, ReaderTyped
  <2>2. /\ store'.keys = store.keys \union {ingest.event}
        /\ store'.messages = store.messages /\ store'.sessions = store.sessions
    BY <1>8 DEF InsertKey, PipelineTyped, StoreTyped
  <2>3. CASE ingest.event \in store.keys
    BY <1>8, <2>2, <2>3 DEF InsertKey
  <2>4. CASE ingest.event \notin store.keys
    <3>1. ingest'.event = ingest.event /\ ingest'.step = "session"
      BY <1>8, <2>4 DEF InsertKey, PipelineTyped, ReaderTyped
    <3> QED BY <2>1, <2>2, <2>4, <3>1
  <2> QED BY <2>3, <2>4
<1>9. CASE InsertSession
  <2> DEFINE e == ingest.event
             s == SessionOf[e]
  <2>1. e \in Events /\ s \in JournalSessions
    BY <1>9 DEF InsertSession, PipelineTyped, ReaderTyped, JournalSessions
  <2>2. \A x \in EndEvents : x \in Events /\ SessionOf[x] \in JournalSessions
    BY JournalAssumption DEF JournalSessions
  <2>3. CASE store.sessions[s] = "none"
    <3>1. /\ store'.keys = store.keys /\ store'.messages = store.messages
          /\ store'.sessions = [store.sessions EXCEPT ![s] = "open"]
          /\ ingest' = ingest
      BY <1>9, <2>3 DEF InsertSession, PipelineTyped, StoreTyped
    <3>2. \A r \in JournalSessions :
            store.sessions[r] = "ended" => store'.sessions[r] = "ended"
      BY <2>3, <3>1 DEF PipelineTyped, StoreTyped
    <3>3. ingest.step = "session"
      BY <1>9 DEF InsertSession
    <3> HIDE DEF s
    <3> QED BY <2>2, <3>1, <3>2, <3>3
  <2>4. CASE store.sessions[s] # "none"
    <3> DEFINE next == IF e \in EndEvents THEN "ended" ELSE store.sessions[s]
    <3>1. /\ store'.keys = store.keys /\ store'.messages = store.messages
          /\ store'.sessions = [store.sessions EXCEPT ![s] = next]
          /\ ingest'.event = ingest.event
      BY <1>9, <2>4 DEF InsertSession, PipelineTyped, StoreTyped, ReaderTyped
    <3>2. \A r \in JournalSessions :
            store.sessions[r] = "ended" => store'.sessions[r] = "ended"
      BY <3>1 DEF PipelineTyped, StoreTyped
    <3>3. e \in EndEvents => store'.sessions[s] = "ended"
      BY <2>1, <3>1 DEF PipelineTyped, StoreTyped
    <3>4. ingest.step = "session"
      BY <1>9 DEF InsertSession
    <3>5. (MessageOnce /\ KeyBeforeMessage)'
      BY <3>1, <3>4
    <3>6. EndsStay'
      BY <2>2, <3>1, <3>2
    <3>7. EndBeforeMessage'
      BY <3>1, <3>3
    <3> QED BY <3>5, <3>6, <3>7
  <2> QED BY <2>3, <2>4
<1>10. CASE InsertMessage
  <2> DEFINE e == ingest.event
  <2>1. e \in Events /\ store.messages[e] = 0 /\ e \in store.keys
    BY <1>10 DEF InsertMessage, PipelineTyped, ReaderTyped
  <2>2. /\ store'.keys = store.keys /\ store'.sessions = store.sessions
        /\ store'.messages = [store.messages EXCEPT ![e] = 1]
        /\ ingest' = Nothing
    BY <1>10, <2>1 DEF InsertMessage, PipelineTyped, StoreTyped
  <2>3. \A x \in Events : store'.messages[x] = IF x = e THEN 1 ELSE store.messages[x]
    BY <2>2 DEF PipelineTyped, StoreTyped
  <2>4. e \in EndEvents => store.sessions[SessionOf[e]] = "ended"
    BY <1>10 DEF InsertMessage
  <2>5. EndEvents \subseteq Events
    BY JournalAssumption
  <2> HIDE DEF e
  <2> QED BY <2>1, <2>2, <2>3, <2>4, <2>5
<1>11. ASSUME NEW rebuild \in BOOLEAN, NEW o \in BOOLEAN, ReconcilerStarts(rebuild, o)
       PROVE  StoreInv'
  <2>1. CASE rebuild
    <3>1. store' = EmptyStore /\ ingest' = Nothing
      BY <1>11, <2>1 DEF ReconcilerStarts, ReplayInv
    <3>2. \A e \in Events : store'.messages[e] = 0
      BY <3>1 DEF EmptyStore
    <3>3. EndEvents \subseteq Events
      BY JournalAssumption
    <3> QED BY <3>1, <3>2, <3>3
  <2>2. CASE ~rebuild
    BY <1>1, <1>11, <2>2 DEF ReconcilerStarts
  <2> QED BY <2>1, <2>2
<1>12. CASE UNCHANGED journalVars
  BY <1>1, <1>12 DEF journalVars, storeVars
<1> QED
  BY <1>2, <1>3, <1>4, <1>6, <1>7, <1>8, <1>9, <1>10, <1>11, <1>12
  DEF JournalNext, Bridge, Ingest, Replay

\* What is still ahead stays ahead when files grow and the cursor rests.
LEMMA AheadGrows ==
  ASSUME PipelineTyped, [JournalNext]_journalVars, UNCHANGED cursor, NEW e, Ahead(e),
         UNCHANGED lines \/ WriteText(TRUE)
  PROVE  Ahead(e)'
<1>1. CASE UNCHANGED lines
  BY <1>1 DEF Ahead, SetOf
<1>2. CASE WriteText(TRUE)
  <2>1. PICK k \in 1..Len(GroupOrder) : \E i \in DOMAIN lines[GroupOrder[k]] :
          /\ e \in SetOf(lines[GroupOrder[k]][i])
          /\ k > cursor[1] \/ (k = cursor[1] /\ i >= cursor[2])
    BY DEF Ahead
  <2>2. PICK i \in DOMAIN lines[GroupOrder[k]] :
          /\ e \in SetOf(lines[GroupOrder[k]][i])
          /\ k > cursor[1] \/ (k = cursor[1] /\ i >= cursor[2])
    BY <2>1
  <2> DEFINE g == GroupOrder[k]
  <2>3. g \in Groups
    BY DEF Groups
  <2>4. i \in DOMAIN lines'[g] /\ e \in SetOf(lines'[g][i])
    BY <1>2, <2>2, <2>3, WriteTextFacts
  <2> QED BY <2>2, <2>4 DEF Ahead
<1> QED BY <1>1, <1>2

LEMMA ReplayInductive ==
  PipelineTyped /\ StoreInv /\ ReplayInv /\ [JournalNext]_journalVars => ReplayInv'
<1> SUFFICES ASSUME PipelineTyped, StoreInv, ReplayInv, [JournalNext]_journalVars
             PROVE  ReplayInv'
  OBVIOUS
<1> USE NothingIsNoEvent
<1>1. ASSUME UNCHANGED <<mode, ingest, cursor, atStart, store>>,
             UNCHANGED lines \/ WriteText(TRUE)
      PROVE  ReplayInv'
  <2>1. \A e : Ahead(e) => Ahead(e)'
    BY <1>1, AheadGrows
  <2> QED BY <1>1, <2>1 DEF ReplayInv
<1>2. ASSUME NEW e \in Events, Issue(e) \/ Deliver(e)
      PROVE  ReplayInv'
  BY <1>1, <1>2 DEF Issue, Deliver, storeVars
<1>3. ASSUME NEW ok \in BOOLEAN, WriteText(ok)
      PROVE  ReplayInv'
  <2>1. UNCHANGED lines \/ WriteText(TRUE)
    <3>1. CASE ok
      BY <1>3, <3>1
    <3>2. CASE ~ok
      BY <1>3, <3>2 DEF WriteText
    <3> QED BY <3>1, <3>2
  <2> QED BY <1>1, <1>3, <2>1 DEF WriteText, storeVars
<1>4. ASSUME NEW ok \in BOOLEAN, WriteNewline(ok) \/ Ack(ok)
      PROVE  ReplayInv'
  BY <1>1, <1>4 DEF WriteNewline, Ack, storeVars
<1>5. CASE BridgeFalls
  BY <1>1, <1>5 DEF BridgeFalls, storeVars
<1>6. CASE Hear
  BY <1>6 DEF Hear, ReplayInv
<1>7. CASE InsertKey
  <2>1. /\ ingest.event \in Events
        /\ store'.keys = store.keys \union {ingest.event}
        /\ store'.messages = store.messages
        /\ UNCHANGED <<lines, mode, cursor, atStart>>
        /\ mode # "down"
    BY <1>7
    DEF InsertKey, PipelineTyped, StoreTyped, ReaderTyped, bridgeVars, ReplayInv
  <2>2. \A e : Ahead(e) => Ahead(e)'
    BY <2>1, AheadGrows
  <2>3. CASE ingest.event \in store.keys
    <3>1. ingest' = Nothing /\ store'.keys = store.keys
      BY <1>7, <2>1, <2>3 DEF InsertKey
    <3>2. mode = "replaying" => store.messages[ingest.event] > 0
      BY <1>7, <2>3 DEF InsertKey, ReplayInv
    <3> QED BY <1>7, <2>1, <2>2, <3>1, <3>2 DEF InsertKey, ReplayInv
  <2>4. CASE ingest.event \notin store.keys
    <3>1. ingest'.event = ingest.event /\ ingest'.step = "session"
      BY <1>7, <2>4 DEF InsertKey, PipelineTyped, ReaderTyped
    <3>2. ingest.step = "key"
      BY <1>7 DEF InsertKey
    <3> QED BY <2>1, <2>2, <3>1, <3>2 DEF ReplayInv
  <2> QED BY <2>3, <2>4
<1>8. CASE InsertSession
  <2>1. /\ store'.keys = store.keys /\ store'.messages = store.messages
        /\ UNCHANGED <<lines, mode, cursor, atStart>>
        /\ ingest'.event = ingest.event /\ ingest'.step \in {"session", "message"}
        /\ ingest.step = "session" /\ mode # "down"
    <3>1. CASE store.sessions[SessionOf[ingest.event]] = "none"
      BY <1>8, <3>1
      DEF InsertSession, PipelineTyped, StoreTyped, ReaderTyped, bridgeVars,
         ReplayInv
    <3>2. CASE store.sessions[SessionOf[ingest.event]] # "none"
      BY <1>8, <3>2
      DEF InsertSession, PipelineTyped, StoreTyped, ReaderTyped, bridgeVars,
         ReplayInv
    <3> QED BY <3>1, <3>2
  <2>2. \A e : Ahead(e) => Ahead(e)'
    BY <2>1, AheadGrows
  <2> QED BY <2>1, <2>2 DEF ReplayInv
<1>9. CASE InsertMessage
  <2> DEFINE x == ingest.event
             n == store.messages[x] + 1
  <2>1. /\ x \in Events /\ n > 0
        /\ store'.keys = store.keys
        /\ store'.messages = [store.messages EXCEPT ![x] = n]
        /\ UNCHANGED <<lines, mode, cursor, atStart>>
        /\ ingest' = Nothing /\ mode # "down"
    BY <1>9
    DEF InsertMessage, PipelineTyped, StoreTyped, ReaderTyped, bridgeVars, ReplayInv
  <2>2. \A e \in Events : store'.messages[e] = IF e = x THEN n ELSE store.messages[e]
    BY <2>1 DEF PipelineTyped, StoreTyped
  <2>3. \A e : Ahead(e) => Ahead(e)'
    BY <2>1, AheadGrows
  <2>4. store.keys \subseteq Events /\ atStart \subseteq Events
    BY DEF PipelineTyped, StoreTyped, ReaderTyped
  <2> HIDE DEF n
  <2>5. \A e \in Events : store.messages[e] > 0 => store'.messages[e] > 0
    BY <2>1, <2>2
  <2> QED BY <2>1, <2>2, <2>3, <2>4, <2>5 DEF ReplayInv
<1>10. CASE ReplayLine
  <2> DEFINE g == GroupOrder[cursor[1]]
             line == lines[g][cursor[2]]
  <2>1. CASE Len(line) = 1
    <3>1. /\ ingest = Nothing /\ mode = "replaying"
          /\ ingest' = [event |-> line[1], step |-> "key"]
          /\ cursor' = [cursor EXCEPT ![2] = @ + 1]
          /\ UNCHANGED <<lines, mode, atStart, store>>
      BY <1>10, <2>1 DEF ReplayLine, bridgeVars
    <3>2. cursor'[1] = cursor[1] /\ cursor'[2] = cursor[2] + 1
      BY <3>1 DEF PipelineTyped, ReaderTyped
    <3>3. SetOf(line) = {line[1]}
      BY <1>10, <2>1, LineAtCursor DEF ReplayLine
    <3>4. \A k \in 1..Len(GroupOrder) : \A i \in DOMAIN lines[GroupOrder[k]] : i \in Nat
      BY DEF PipelineTyped, FilesTyped, Groups
    <3>5. ASSUME NEW e, Ahead(e), e # line[1]
          PROVE  Ahead(e)'
      <4>1. PICK k \in 1..Len(GroupOrder) : \E i \in DOMAIN lines[GroupOrder[k]] :
              /\ e \in SetOf(lines[GroupOrder[k]][i])
              /\ k > cursor[1] \/ (k = cursor[1] /\ i >= cursor[2])
        BY <3>5 DEF Ahead
      <4>2. PICK i \in DOMAIN lines[GroupOrder[k]] :
              /\ e \in SetOf(lines[GroupOrder[k]][i])
              /\ k > cursor[1] \/ (k = cursor[1] /\ i >= cursor[2])
        BY <4>1
      <4>3. ~(k = cursor[1] /\ i = cursor[2])
        BY <3>3, <3>5, <4>2
      <4>4. k > cursor'[1] \/ (k = cursor'[1] /\ i >= cursor'[2])
        BY <3>2, <3>4, <4>2, <4>3 DEF PipelineTyped, ReaderTyped
      <4>5. i \in DOMAIN lines'[GroupOrder[k]] /\ e \in SetOf(lines'[GroupOrder[k]][i])
        BY <3>1, <4>2
      <4> QED BY <4>4, <4>5 DEF Ahead
    <3> HIDE DEF line, g
    <3>6. \A e \in atStart : store.messages[e] > 0 \/ Ahead(e)
      <4>1. atStart \subseteq Events
        BY DEF PipelineTyped, ReaderTyped
      <4> QED BY <3>1, <4>1 DEF ReplayInv
    <3>7. \A e \in store.keys : store.messages[e] > 0
      BY <3>1 DEF ReplayInv
    <3> QED BY <3>1, <3>5, <3>6, <3>7 DEF ReplayInv
  <2>2. CASE Len(line) # 1
    BY <1>10, <2>2 DEF ReplayLine, ReplayInv
  <2> QED BY <2>1, <2>2
<1>11. CASE NextFile
  <2>1. /\ ingest = Nothing /\ mode = "replaying"
        /\ cursor[2] \notin DOMAIN lines[GroupOrder[cursor[1]]]
        /\ cursor' = <<cursor[1] + 1, 1>>
        /\ UNCHANGED <<lines, mode, ingest, atStart, store>>
    BY <1>11 DEF NextFile, bridgeVars
  <2>2. cursor'[1] = cursor[1] + 1 /\ cursor'[2] = 1
    BY <2>1
  <2>3. ASSUME NEW e, Ahead(e)
        PROVE  Ahead(e)'
    <3>1. PICK k \in 1..Len(GroupOrder) : \E i \in DOMAIN lines[GroupOrder[k]] :
            /\ e \in SetOf(lines[GroupOrder[k]][i])
            /\ k > cursor[1] \/ (k = cursor[1] /\ i >= cursor[2])
      BY <2>3 DEF Ahead
    <3>2. PICK i \in DOMAIN lines[GroupOrder[k]] :
            /\ e \in SetOf(lines[GroupOrder[k]][i])
            /\ k > cursor[1] \/ (k = cursor[1] /\ i >= cursor[2])
      BY <3>1
    <3>3. lines[GroupOrder[k]] \in Seq(Seq(Events))
      BY DEF PipelineTyped, FilesTyped, Groups
    <3>4. i \in 1..Len(lines[GroupOrder[k]]) /\ DOMAIN lines[GroupOrder[k]] = 1..Len(lines[GroupOrder[k]])
          /\ Len(lines[GroupOrder[k]]) \in Nat
      BY <3>3
    <3>5. k # cursor[1]
      BY <2>1, <3>2, <3>4 DEF PipelineTyped, ReaderTyped
    <3>6. k > cursor'[1] \/ (k = cursor'[1] /\ i >= cursor'[2])
      BY <2>2, <3>2, <3>4, <3>5 DEF PipelineTyped, ReaderTyped
    <3>7. i \in DOMAIN lines'[GroupOrder[k]] /\ e \in SetOf(lines'[GroupOrder[k]][i])
      BY <2>1, <3>2
    <3> QED BY <3>6, <3>7 DEF Ahead
  <2> QED BY <2>1, <2>3 DEF ReplayInv
<1>12. CASE ReplayEnds
  BY <1>12 DEF ReplayEnds, ReplayInv
<1>13. CASE ReconcilerFalls
  BY <1>13 DEF ReconcilerFalls, ReplayInv
<1>14. ASSUME NEW rebuild \in BOOLEAN, NEW o \in BOOLEAN, ReconcilerStarts(rebuild, o)
       PROVE  ReplayInv'
  <2>1. mode = "down" /\ ingest' = Nothing /\ cursor' = <<1, 1>> /\ UNCHANGED lines
    BY <1>14 DEF ReconcilerStarts, ReplayInv, bridgeVars
  <2>2. CASE rebuild
    <3>1. mode' = "replaying" /\ store' = EmptyStore /\ atStart' = Written
      BY <1>14, <2>2 DEF ReconcilerStarts
    <3>2. ASSUME NEW e \in Written
          PROVE  Ahead(e)'
      <4>1. PICK g \in Groups : \E i \in DOMAIN lines[g] : e \in SetOf(lines[g][i])
        BY WrittenIsInALine
      <4>2. PICK i \in DOMAIN lines[g] : e \in SetOf(lines[g][i])
        BY <4>1
      <4>3. PICK k \in 1..Len(GroupOrder) : g = GroupOrder[k]
        BY DEF Groups
      <4>4. lines[g] \in Seq(Seq(Events))
        BY DEF PipelineTyped, FilesTyped
      <4>5. i \in Nat /\ i >= 1 /\ k >= 1
        BY <4>4
      <4>6. cursor'[1] = 1 /\ cursor'[2] = 1
        BY <2>1
      <4>7. k > cursor'[1] \/ (k = cursor'[1] /\ i >= cursor'[2])
        BY <4>5, <4>6
      <4>8. i \in DOMAIN lines'[GroupOrder[k]] /\ e \in SetOf(lines'[GroupOrder[k]][i])
        BY <2>1, <4>2, <4>3
      <4> QED BY <4>7, <4>8 DEF Ahead
    <3>3. store'.keys = {}
      BY <3>1 DEF EmptyStore
    <3> QED BY <2>1, <3>1, <3>2, <3>3 DEF ReplayInv
  <2>3. CASE ~rebuild
    <3>1. mode' = "live"
      BY <1>14, <2>3 DEF ReconcilerStarts
    <3> QED BY <2>1, <3>1 DEF ReplayInv
  <2> QED BY <2>2, <2>3
<1>15. CASE UNCHANGED journalVars
  BY <1>1, <1>15 DEF journalVars, storeVars, bridgeVars
<1> QED
  BY <1>2, <1>3, <1>4, <1>5, <1>6, <1>7, <1>8, <1>9, <1>10, <1>11, <1>12, <1>13,
     <1>14, <1>15
  DEF JournalNext, Bridge, Ingest, Replay

LEMMA PipelineInvInitially == JournalInit => PipelineInv
<1> SUFFICES ASSUME JournalInit PROVE PipelineInv
  OBVIOUS
<1>1. PipelineTyped
  BY PipelineInitially
<1>2. BridgeInv
  BY NothingIsNoEvent DEF JournalInit, BridgeInv, AckedIsWritten, TakenIsWritten
<1>3. /\ \A e \in Events : store.messages[e] = 0
      /\ ingest = Nothing /\ EndEvents \subseteq Events
  BY JournalAssumption DEF JournalInit, EmptyStore
<1>4. StoreInv
  BY <1>3, NothingIsNoEvent
  DEF StoreInv, MessageOnce, KeyBeforeMessage, EndsStay, EndBeforeMessage
<1>5. ReplayInv
  BY DEF JournalInit, ReplayInv
<1> QED BY <1>1, <1>2, <1>4, <1>5 DEF PipelineInv

\* Nothing that is acknowledged is lost, no event comes twice into the session
\* store, no end of a session is taken back, and a rebuild that comes to its
\* end has read every line that was there when it began; for any events and
\* files, refused writes, glued lines, deaths and rebuilds.
THEOREM JournalSafetyHolds == JournalSpec => []JournalSafety
<1>1. PipelineInv /\ [JournalNext]_journalVars => PipelineInv'
  BY PipelineInductive, BridgeInductive, StoreInductive, ReplayInductive
  DEF PipelineInv
<1>2. PipelineInv => RebuildIsComplete
  <2> SUFFICES ASSUME PipelineInv, mode = "replaying", cursor[1] > Len(GroupOrder),
                      ingest = Nothing, NEW e \in atStart
               PROVE  store.messages[e] > 0
    BY DEF RebuildIsComplete
  <2>1. ~Ahead(e)
    <3>1. Len(GroupOrder) \in Nat
      BY JournalAssumption
    <3> QED BY <3>1 DEF Ahead, PipelineInv, PipelineTyped, ReaderTyped
  <2>2. e \in Events
    BY DEF PipelineInv, PipelineTyped, ReaderTyped
  <2> QED BY <2>1, <2>2, NothingIsNoEvent DEF PipelineInv, ReplayInv
<1>3. PipelineInv => JournalSafety
  BY <1>2 DEF PipelineInv, BridgeInv, StoreInv, JournalSafety
<1> QED BY <1>1, <1>3, PipelineInvInitially, PTL DEF JournalSpec

-----------------------------------------------------------------------------
(* The pause of dispatch.  While a pause binds anybody, both keys say so   *)
(* and no resume is under way.                                             *)

ToggleCalls ==
  {r \in [by: {"operator", "agent"}, want: {"true", "false"},
          step: {"idle", "flag", "record", "done", "failed"}, crossed: BOOLEAN] :
     r.by = "agent" => r.want = "true"}

SpawnCalls ==
  [step: {"idle", "flag", "record", "publish", "requested", "refused", "failed"},
   bound: SUBSET {"operator", "agent"}]

DispatchTyped ==
  /\ bucket \in [Bucket -> {"absent", "true", "false"}]
  /\ toggle \in [Toggles -> ToggleCalls]
  /\ spawn \in [Spawns -> SpawnCalls]
  /\ holding \subseteq {"operator", "agent"}

PutsBoth ==
  \A t \in Toggles :
    /\ toggle[t].step \in {"record", "done"} => bucket[FlagKey(toggle[t].by)] # "absent"
    /\ toggle[t].step = "done" => bucket[RecordKey(toggle[t].by)] # "absent"

BothSayPaused ==
  bucket["dispatch-paused"] = "true" /\ bucket["state"] = "true" /\ Resuming = {}

\* A pause that no resume has crossed is alone, and its flag is in the bucket
\* before its record.
UncrossedIsAlone ==
  \A t \in Toggles :
    toggle[t].want = "true" /\ toggle[t].step \in {"flag", "record"} /\ ~toggle[t].crossed =>
      /\ Resuming = {}
      /\ toggle[t].by = "operator" /\ toggle[t].step = "record" =>
           bucket["dispatch-paused"] = "true"

BoundIsPaused ==
  /\ "operator" \in holding => BothSayPaused
  /\ \A c \in Spawns : "operator" \in spawn[c].bound => BothSayPaused

BoundIsStopped ==
  \A c \in Spawns \ FromWeb : "operator" \in spawn[c].bound =>
    spawn[c].step \in {"flag", "record", "refused"}

DispatchInv ==
  DispatchTyped /\ PutsBoth /\ UncrossedIsAlone /\ BoundIsPaused /\ BoundIsStopped

LEMMA TogglesAre ==
  ASSUME NEW t \in Toggles, DispatchTyped
  PROVE  /\ toggle[t] \in ToggleCalls
         /\ toggle[t].by \in {"operator", "agent"} /\ toggle[t].want \in {"true", "false"}
         /\ toggle[t].crossed \in BOOLEAN
         /\ toggle[t].by = "agent" => toggle[t].want = "true"
BY DEF DispatchTyped, ToggleCalls

LEMMA BeginPause ==
  ASSUME DispatchInv, NEW t \in Toggles, BeginToggle(t), toggle[t].want = "true"
  PROVE  DispatchInv'
<1> DEFINE crossed == Resuming # {}
<1> DEFINE r == [toggle[t] EXCEPT !.step = "flag", !.crossed = crossed]
<1>1. /\ toggle[t].step = "idle" /\ UNCHANGED <<bucket, holding, spawn>>
      /\ toggle' = [toggle EXCEPT ![t] = r]
  BY DEF BeginToggle
<1>2. /\ r \in ToggleCalls /\ r.by = toggle[t].by /\ r.want = "true" /\ r.step = "flag"
      /\ r.crossed = crossed
  BY TogglesAre DEF ToggleCalls, DispatchInv
<1> HIDE DEF r
<1>3. /\ toggle' \in [Toggles -> ToggleCalls] /\ toggle'[t] = r
      /\ \A u \in Toggles : u # t => toggle'[u] = toggle[u]
  BY <1>1, <1>2 DEF DispatchInv, DispatchTyped
<1>4. Resuming' = Resuming
  BY <1>1, <1>2, <1>3 DEF Resuming
<1>5. DispatchTyped'
  BY <1>1, <1>3 DEF DispatchInv, DispatchTyped
<1>6. PutsBoth'
  BY <1>1, <1>2, <1>3 DEF DispatchInv, PutsBoth
<1>7. UncrossedIsAlone'
  BY <1>1, <1>2, <1>3, <1>4 DEF DispatchInv, UncrossedIsAlone
<1>8. BoundIsPaused' /\ BoundIsStopped'
  BY <1>1, <1>4 DEF DispatchInv, BoundIsPaused, BoundIsStopped, BothSayPaused
<1> QED BY <1>5, <1>6, <1>7, <1>8 DEF DispatchInv

\* A resume overrules every pause, and crosses those that are being set.
LEMMA BeginResume ==
  ASSUME DispatchInv, NEW t \in Toggles, BeginToggle(t), toggle[t].want # "true"
  PROVE  DispatchInv'
<1>1. /\ toggle[t].step = "idle" /\ holding' = {} /\ UNCHANGED bucket
      /\ toggle' = [u \in Toggles |->
           IF u = t THEN [toggle[u] EXCEPT !.step = "flag"]
           ELSE [toggle[u] EXCEPT !.crossed =
                   toggle[u].crossed \/ toggle[u].step \in {"flag", "record"}]]
      /\ spawn' = [c \in Spawns |-> [spawn[c] EXCEPT !.bound = {}]]
  BY DEF BeginToggle
<1>2. ASSUME NEW u \in Toggles
      PROVE  /\ toggle'[u] \in ToggleCalls
             /\ toggle'[u].by = toggle[u].by /\ toggle'[u].want = toggle[u].want
             /\ toggle'[u].step = IF u = t THEN "flag" ELSE toggle[u].step
             /\ u # t /\ toggle[u].step \in {"flag", "record"} => toggle'[u].crossed
  BY <1>1, TogglesAre DEF ToggleCalls, DispatchInv
<1>3. \A c \in Spawns : /\ spawn'[c] \in SpawnCalls /\ spawn'[c].bound = {}
                        /\ spawn'[c].step = spawn[c].step
  BY <1>1 DEF DispatchInv, DispatchTyped, SpawnCalls
<1>4. DispatchTyped'
  BY <1>1, <1>2, <1>3 DEF DispatchInv, DispatchTyped
<1>5. PutsBoth'
  BY <1>1, <1>2 DEF DispatchInv, PutsBoth
<1>6. UncrossedIsAlone'
  BY <1>2 DEF UncrossedIsAlone
<1>7. BoundIsPaused' /\ BoundIsStopped'
  BY <1>1, <1>3 DEF BoundIsPaused, BoundIsStopped
<1> QED BY <1>4, <1>5, <1>6, <1>7 DEF DispatchInv

\* One put: a resume that puts finds nobody bound and no pause uncrossed.
LEMMA PutSteps ==
  ASSUME DispatchInv, NEW t \in Toggles, NEW ok \in BOOLEAN, PutFlag(t, ok) \/ PutRecord(t, ok)
  PROVE  DispatchInv'
<1> DEFINE by == toggle[t].by
<1> DEFINE want == toggle[t].want
<1> DEFINE step == IF ok THEN (IF toggle[t].step = "flag" THEN "record" ELSE "done")
                   ELSE "failed"
<1> DEFINE key == IF toggle[t].step = "flag" THEN FlagKey(by) ELSE RecordKey(by)
<1> DEFINE r == [toggle[t] EXCEPT !.step = step]
<1>1. /\ toggle[t].step \in {"flag", "record"}
      /\ toggle' = [toggle EXCEPT ![t] = r]
      /\ bucket' = IF ok THEN [bucket EXCEPT ![key] = want] ELSE bucket
      /\ UNCHANGED spawn
  BY DEF PutFlag, PutRecord, Put
<1>2. /\ toggle[t].step = "flag" => UNCHANGED holding
      /\ toggle[t].step = "record" =>
           holding' = IF ok /\ want = "true" /\ ~toggle[t].crossed
                      THEN holding \union {by} ELSE holding
  BY DEF PutFlag, PutRecord
<1>3. /\ by \in {"operator", "agent"} /\ want \in {"true", "false"}
      /\ by = "agent" => want = "true"
      /\ step \in {"record", "done", "failed"}
      /\ bucket \in [Bucket -> {"absent", "true", "false"}]
      /\ holding \subseteq {"operator", "agent"}
  BY TogglesAre DEF DispatchInv, DispatchTyped
<1>4. key \in Bucket
  BY <1>1, <1>3 DEF FlagKey, RecordKey, Bucket
<1>5. /\ r \in ToggleCalls /\ r.by = by /\ r.want = want /\ r.step = step
      /\ r.crossed = toggle[t].crossed
  BY <1>3, TogglesAre DEF ToggleCalls, DispatchInv
<1>6. /\ FlagKey("operator") = "dispatch-paused" /\ RecordKey("operator") = "state"
      /\ FlagKey("agent") = "paused" /\ RecordKey("agent") = "state.json"
      /\ {"dispatch-paused", "state", "paused", "state.json"} = Bucket
  BY DEF FlagKey, RecordKey, Bucket
<1> HIDE DEF r
<1>7. /\ toggle' \in [Toggles -> ToggleCalls] /\ toggle'[t] = r
      /\ \A u \in Toggles : u # t => toggle'[u] = toggle[u]
  BY <1>1, <1>5 DEF DispatchInv, DispatchTyped
<1>8. /\ bucket' \in [Bucket -> {"absent", "true", "false"}]
      /\ ok => bucket'[key] = want
      /\ ~ok => bucket' = bucket
      /\ \A k \in Bucket : k # key => bucket'[k] = bucket[k]
      /\ \A k \in Bucket : bucket[k] # "absent" => bucket'[k] # "absent"
  BY <1>1, <1>3, <1>4
<1>9. DispatchTyped'
  BY <1>1, <1>2, <1>3, <1>7, <1>8 DEF DispatchInv, DispatchTyped
<1>10. PutsBoth'
  <2>1. \A u \in Toggles : FlagKey(toggle[u].by) \in Bucket /\ RecordKey(toggle[u].by) \in Bucket
    BY TogglesAre DEF DispatchInv, FlagKey, RecordKey, Bucket
  <2>2. \A u \in Toggles : u # t =>
          /\ toggle'[u].step \in {"record", "done"} => bucket'[FlagKey(toggle'[u].by)] # "absent"
          /\ toggle'[u].step = "done" => bucket'[RecordKey(toggle'[u].by)] # "absent"
    BY <1>7, <1>8, <2>1 DEF DispatchInv, PutsBoth
  <2>3. CASE toggle[t].step = "flag"
    <3>1. step # "done" /\ (step = "record" => ok) /\ key = FlagKey(by)
      BY <2>3
    <3>2. step = "record" => bucket'[FlagKey(by)] # "absent"
      BY <1>3, <1>8, <3>1
    <3> HIDE DEF step
    <3> QED BY <1>5, <1>7, <2>2, <3>1, <3>2 DEF PutsBoth
  <2>4. CASE toggle[t].step = "record"
    <3>1. step # "record" /\ (step = "done" => ok) /\ key = RecordKey(by)
      BY <2>4
    <3>2. step = "done" => bucket'[RecordKey(by)] # "absent"
      BY <1>3, <1>8, <3>1
    <3>3. bucket'[FlagKey(by)] # "absent"
      BY <1>8, <2>1, <2>4 DEF DispatchInv, PutsBoth
    <3> HIDE DEF step
    <3> QED BY <1>5, <1>7, <2>2, <3>1, <3>2, <3>3 DEF PutsBoth
  <2> QED BY <1>1, <2>3, <2>4
<1>11. CASE want = "true"
  <2>1. Resuming' = Resuming
    BY <1>5, <1>7, <1>11 DEF Resuming
  <2>2. \A k \in Bucket : bucket[k] = "true" => bucket'[k] = "true"
    BY <1>8, <1>11
  <2>3. UncrossedIsAlone'
    <3>1. ASSUME NEW u \in Toggles, toggle'[u].want = "true", toggle'[u].step \in {"flag", "record"},
                 ~toggle'[u].crossed
          PROVE  /\ Resuming' = {}
                 /\ toggle'[u].by = "operator" /\ toggle'[u].step = "record" =>
                      bucket'["dispatch-paused"] = "true"
      <4>1. CASE u # t
        BY <1>6, <1>7, <2>1, <2>2, <3>1, <4>1 DEF DispatchInv, UncrossedIsAlone
      <4>2. CASE u = t
        <5>1. toggle[t].step \in {"flag", "record"} /\ ~toggle[t].crossed /\ step = "record"
          BY <1>1, <1>3, <1>5, <1>7, <3>1, <4>2
        <5>2. toggle[t].step = "flag" /\ ok
          BY <1>1, <5>1
        <5>3. key = FlagKey(by) /\ bucket'[FlagKey(by)] = "true"
          BY <1>8, <1>11, <5>2
        <5>4. Resuming = {}
          BY <1>11, <5>1 DEF DispatchInv, UncrossedIsAlone
        <5> QED BY <1>5, <1>6, <1>7, <2>1, <4>2, <5>3, <5>4
      <4> QED BY <4>1, <4>2
    <3> QED BY <3>1 DEF UncrossedIsAlone
  <2>4. BothSayPaused => BothSayPaused'
    BY <1>6, <2>1, <2>2 DEF BothSayPaused
  <2>5. "operator" \in holding' => BothSayPaused'
    <3>1. CASE "operator" \in holding
      BY <2>4, <3>1 DEF DispatchInv, BoundIsPaused
    <3>2. CASE "operator" \in holding' /\ "operator" \notin holding
      <4>1. toggle[t].step = "record" /\ ok /\ ~toggle[t].crossed /\ by = "operator"
        BY <1>1, <1>2, <3>2
      <4>2. Resuming = {} /\ bucket["dispatch-paused"] = "true"
        BY <1>11, <4>1 DEF DispatchInv, UncrossedIsAlone
      <4>3. key = "state"
        BY <1>6, <4>1
      <4>4. bucket'["state"] = "true"
        BY <1>8, <1>11, <4>1, <4>3
      <4> QED BY <1>6, <2>1, <2>2, <4>2, <4>4 DEF BothSayPaused
    <3> QED BY <3>1, <3>2
  <2>6. BoundIsPaused' /\ BoundIsStopped'
    BY <1>1, <2>4, <2>5 DEF DispatchInv, BoundIsPaused, BoundIsStopped
  <2> QED BY <1>9, <1>10, <2>3, <2>6 DEF DispatchInv
<1>12. CASE want = "false"
  <2>1. t \in Resuming
    BY <1>1, <1>12 DEF Resuming
  <2>2. ~BothSayPaused
    BY <2>1 DEF BothSayPaused
  <2>3. "operator" \notin holding /\ \A c \in Spawns : "operator" \notin spawn[c].bound
    BY <2>2 DEF DispatchInv, BoundIsPaused
  <2>4. holding' = holding
    BY <1>1, <1>2, <1>12
  <2>5. \A u \in Toggles :
          toggle[u].want = "true" /\ toggle[u].step \in {"flag", "record"} => toggle[u].crossed
    BY <2>1 DEF DispatchInv, UncrossedIsAlone
  <2>6. UncrossedIsAlone'
    BY <1>5, <1>7, <1>12, <2>5 DEF UncrossedIsAlone
  <2>7. BoundIsPaused' /\ BoundIsStopped'
    BY <1>1, <2>3, <2>4 DEF BoundIsPaused, BoundIsStopped
  <2> QED BY <1>9, <1>10, <2>6, <2>7 DEF DispatchInv
<1> QED BY <1>3, <1>11, <1>12

LEMMA SpawnSteps ==
  ASSUME DispatchInv, NEW c \in Spawns,
         BeginSpawn(c) \/ ReadFlag(c) \/ ReadRecord(c) \/ RequestTask(c)
  PROVE  DispatchInv'
<1>1. UNCHANGED <<bucket, toggle, holding>>
  BY DEF BeginSpawn, ReadFlag, ReadRecord, RequestTask, Turn
<1>2. /\ spawn \in [Spawns -> SpawnCalls] /\ spawn[c] \in SpawnCalls
      /\ holding \subseteq {"operator", "agent"}
  BY DEF DispatchInv, DispatchTyped
<1>3. Resuming' = Resuming /\ BothSayPaused' = BothSayPaused
  BY <1>1 DEF Resuming, BothSayPaused
<1>4. ASSUME NEW r \in SpawnCalls, spawn' = [spawn EXCEPT ![c] = r],
             r.bound \subseteq holding \/ r.bound = spawn[c].bound,
             c \notin FromWeb /\ "operator" \in r.bound => r.step \in {"flag", "record", "refused"}
      PROVE  DispatchInv'
  <2>1. /\ spawn' \in [Spawns -> SpawnCalls] /\ spawn'[c] = r
        /\ \A d \in Spawns : d # c => spawn'[d] = spawn[d]
    BY <1>2, <1>4
  <2>2. DispatchTyped' /\ PutsBoth'
    BY <1>1, <2>1 DEF DispatchInv, DispatchTyped, PutsBoth
  <2>3. UncrossedIsAlone'
    BY <1>1, <1>3 DEF DispatchInv, UncrossedIsAlone
  <2>4. BoundIsPaused'
    BY <1>1, <1>3, <1>4, <2>1 DEF DispatchInv, BoundIsPaused
  <2>5. BoundIsStopped'
    BY <1>4, <2>1 DEF DispatchInv, BoundIsStopped
  <2> QED BY <2>2, <2>3, <2>4, <2>5 DEF DispatchInv
<1>5. ASSUME NEW step \in {"record", "publish", "refused", "requested", "failed"}, Turn(c, step),
             c \notin FromWeb /\ "operator" \in spawn[c].bound => step \in {"record", "refused"}
      PROVE  DispatchInv'
  <2> DEFINE r == [spawn[c] EXCEPT !.step = step]
  <2>1. r \in SpawnCalls /\ r.bound = spawn[c].bound /\ r.step = step
    BY <1>2 DEF SpawnCalls
  <2>2. spawn' = [spawn EXCEPT ![c] = r]
    BY <1>5 DEF Turn
  <2> HIDE DEF r
  <2> QED BY <1>4, <1>5, <2>1, <2>2
<1>6. "operator" \in spawn[c].bound => BothSayPaused
  BY DEF DispatchInv, BoundIsPaused
<1>7. c \notin FromWeb /\ "operator" \in spawn[c].bound =>
        spawn[c].step \in {"flag", "record", "refused"}
  BY DEF DispatchInv, BoundIsStopped
<1>8. CASE BeginSpawn(c)
  <2> DEFINE step == IF c \in FromWeb THEN "publish" ELSE "flag"
  <2> DEFINE r == [step |-> step, bound |-> holding]
  <2>1. r \in SpawnCalls /\ r.bound = holding /\ r.step = step
    BY <1>2 DEF SpawnCalls
  <2>2. spawn' = [spawn EXCEPT ![c] = r]
    BY <1>8 DEF BeginSpawn
  <2>3. c \notin FromWeb => step = "flag"
    OBVIOUS
  <2> HIDE DEF r, step
  <2> QED BY <1>4, <2>1, <2>2, <2>3
<1>9. CASE ReadFlag(c)
  <2>1. bucket["dispatch-paused"] # "true" => ~BothSayPaused
    BY DEF BothSayPaused
  <2> QED BY <1>5, <1>6, <1>9, <2>1 DEF ReadFlag
<1>10. CASE ReadRecord(c)
  <2>1. bucket["state"] = "false" => ~BothSayPaused
    BY DEF BothSayPaused
  <2> QED BY <1>5, <1>6, <1>10, <2>1 DEF ReadRecord
<1>11. CASE RequestTask(c)
  BY <1>5, <1>7, <1>11 DEF RequestTask
<1> QED BY <1>8, <1>9, <1>10, <1>11

LEMMA DispatchInitially == DispatchInit => DispatchInv
<1> SUFFICES ASSUME DispatchInit PROVE DispatchInv
  OBVIOUS
<1>1. \A t \in Toggles :
        /\ toggle[t] \in ToggleCalls /\ toggle[t].step = "idle"
  BY DEF DispatchInit, ToggleCalls
<1>2. \A c \in Spawns : spawn[c] \in SpawnCalls /\ spawn[c].bound = {}
  BY DEF DispatchInit, SpawnCalls
<1>3. DispatchTyped
  BY <1>1, <1>2 DEF DispatchInit, DispatchTyped
<1> QED
  BY <1>1, <1>2, <1>3
  DEF DispatchInit, DispatchInv, PutsBoth, UncrossedIsAlone, BoundIsPaused,
                         BoundIsStopped

LEMMA DispatchInductive == DispatchInv /\ [DispatchNext]_dispatchVars => DispatchInv'
<1> SUFFICES ASSUME DispatchInv, [DispatchNext]_dispatchVars PROVE DispatchInv'
  OBVIOUS
<1>1. CASE UNCHANGED dispatchVars
  BY <1>1
  DEF dispatchVars, DispatchInv, DispatchTyped, PutsBoth, UncrossedIsAlone,
      BoundIsPaused,
             BoundIsStopped, BothSayPaused, Resuming
<1>2. ASSUME NEW t \in Toggles, BeginToggle(t)
      PROVE  DispatchInv'
  BY <1>2, BeginPause, BeginResume
<1>3. ASSUME NEW t \in Toggles, NEW ok \in BOOLEAN, PutFlag(t, ok) \/ PutRecord(t, ok)
      PROVE  DispatchInv'
  BY <1>3, PutSteps
<1>4. ASSUME NEW c \in Spawns, BeginSpawn(c) \/ ReadFlag(c) \/ ReadRecord(c) \/ RequestTask(c)
      PROVE  DispatchInv'
  BY <1>4, SpawnSteps
<1> QED BY <1>1, <1>2, <1>3, <1>4 DEF DispatchNext

\* The keys of the pause and the calls about it stay well typed; a call that is
\* done has put both its keys.
THEOREM DispatchTypeCorrect == DispatchSpec => []DispatchTypeOK
<1>1. DispatchInv => DispatchTypeOK
  BY DEF DispatchInv, DispatchTyped, PutsBoth, ToggleCalls, SpawnCalls,
     DispatchTypeOK
<1> QED BY <1>1, DispatchInitially, DispatchInductive, PTL DEF DispatchSpec

\* For any calls that pause, resume and spawn, and puts that fail half way: a
\* spawn of the CLI that began under an operator's pause, with no resume since,
\* is refused (dispatch_pause_status).
THEOREM PauseHoldsAlways == DispatchSpec => []PauseHolds
<1>1. DispatchInv => PauseHolds
  BY DEF DispatchInv, BoundIsStopped, PauseHolds
<1> QED BY <1>1, DispatchInitially, DispatchInductive, PTL DEF DispatchSpec

-----------------------------------------------------------------------------
(* Snapshots.  First the types, and that nothing is newer than the clock   *)
(* or knows more than the files.                                           *)

Snapshots == [cap: Nat, n: Nat, fresh: BOOLEAN]
Views == [cap: Nat, seen: Nat, ci: Nat, n: Nat]
Requests == [step: {"idle", "reading", "answering"}, kind: {"none", "whole", "delta"},
             base: Snapshots, cap: Nat, n: Nat]

SnapshotTyped ==
  /\ {occurred, onDisk, unheard, clock, calls} \subseteq Nat
  /\ onDisk <= occurred /\ unheard <= occurred /\ occurred <= MaxFacts
  /\ clock <= calls /\ calls <= MaxCalls
  /\ entry \in Snapshots
  /\ asking \in [Callers -> Requests] /\ view \in [Callers -> Views]
  /\ serial \in BOOLEAN

NothingAhead ==
  /\ entry.n <= onDisk /\ entry.cap <= clock
  /\ \A c \in Callers :
       /\ view[c].n <= onDisk /\ view[c].cap <= clock
       /\ asking[c].n <= onDisk /\ asking[c].cap <= clock

\* While callers take turns: one asks at a time, and everything that is known
\* was taken before what it is about to get.
Asks(c) == asking[c].step # "idle"

OneAsks == \A c, d \in Callers : Asks(c) /\ Asks(d) => c = d

AnswerIsNewest ==
  \A c \in Callers : Asks(c) =>
    /\ entry.cap < asking[c].cap
    /\ \A d \in Callers : view[d].cap < asking[c].cap

\* A snapshot that is not newer than the view of a caller is that view.
SameAs(s, c) ==
  s.cap > 0 => view[c].cap <= s.cap /\ (view[c].cap = s.cap => view[c].n = s.n)

CacheIsNewest ==
  \A c \in Callers :
    SameAs(entry, c) /\ (Asks(c) /\ asking[c].kind = "delta" => SameAs(asking[c].base, c))

TurnsInv ==
  serial => OneAsks /\ AnswerIsNewest /\ CacheIsNewest /\ \A c \in Callers : KnowsAll(c)

SnapshotInv == SnapshotTyped /\ NothingAhead /\ TurnsInv

LEMMA CiIsNumber == ASSUME NEW n \in Nat PROVE CiOf(n) \in Nat
BY DEF CiOf

LEMMA NothingsTyped ==
  /\ NoSnapshot \in Snapshots /\ NoSnapshot.cap = 0 /\ NoSnapshot.n = 0
  /\ NoView \in Views /\ NoView.cap = 0 /\ NoView.n = 0 /\ NoView.seen = 0 /\ NoView.ci = 0
  /\ NoCall \in Requests /\ NoCall.step = "idle" /\ NoCall.cap = 0 /\ NoCall.n = 0
  /\ CiOf(0) = 0
BY DEF NoSnapshot, Snapshots, NoView, Views, NoCall, Requests, CiOf

\* What is known of one caller and of the cache, for the steps of a caller.
LEMMA CallerIs ==
  ASSUME SnapshotInv, NEW c \in Callers
  PROVE  /\ asking[c] \in Requests /\ view[c] \in Views /\ entry \in Snapshots
         /\ entry.cap \in Nat /\ entry.n \in Nat /\ view[c].cap \in Nat /\ view[c].n \in Nat
         /\ asking[c].cap \in Nat /\ asking[c].n \in Nat /\ asking[c].base \in Snapshots
         /\ clock \in Nat /\ onDisk \in Nat /\ calls \in Nat /\ MaxCalls \in Nat
         /\ asking[c].base.cap \in Nat /\ asking[c].base.n \in Nat
BY SnapshotBoundsAssumption
DEF SnapshotInv, SnapshotTyped, Requests, Views, Snapshots

\* The bus, the bridge, the subscription and the TTL.
LEMMA WorldSteps ==
  ASSUME SnapshotInv, Occur \/ Journaled \/ Invalidate \/ GrowOld
  PROVE  SnapshotInv'
<1>1. /\ UNCHANGED <<asking, view, clock, calls, serial>>
      /\ entry' \in Snapshots /\ entry'.cap \in {entry.cap, 0} /\ entry'.n \in {entry.n, 0}
      /\ (entry'.cap = entry.cap /\ entry'.n = entry.n) \/ entry'.cap = 0
      /\ entry.cap \in Nat /\ entry.n \in Nat
  BY NothingsTyped
  DEF Occur, Journaled, Invalidate, GrowOld, SnapshotInv, SnapshotTyped, Snapshots
<1>2. /\ {occurred', onDisk', unheard'} \subseteq Nat /\ onDisk <= onDisk'
      /\ onDisk' <= occurred' /\ unheard' <= occurred' /\ occurred' <= MaxFacts
  BY SnapshotBoundsAssumption
  DEF Occur, Journaled, Invalidate, GrowOld, facts, SnapshotInv, SnapshotTyped
<1>3. onDisk \in Nat /\ clock \in Nat
  BY DEF SnapshotInv, SnapshotTyped
<1>4. SnapshotTyped'
  BY <1>1, <1>2 DEF SnapshotInv, SnapshotTyped
<1>5. NothingAhead'
  <2>1. entry'.n <= onDisk' /\ entry'.cap <= clock'
    BY <1>1, <1>2, <1>3 DEF SnapshotInv, NothingAhead
  <2>2. ASSUME NEW c \in Callers
        PROVE  /\ view'[c].n <= onDisk' /\ view'[c].cap <= clock'
               /\ asking'[c].n <= onDisk' /\ asking'[c].cap <= clock'
    BY <1>1, <1>2, <1>3, CallerIs DEF SnapshotInv, NothingAhead
  <2> QED BY <2>1, <2>2 DEF NothingAhead
<1>6. TurnsInv'
  <2> SUFFICES ASSUME serial'
               PROVE  /\ OneAsks' /\ AnswerIsNewest' /\ CacheIsNewest'
                      /\ \A c \in Callers : KnowsAll(c)'
    BY DEF TurnsInv
  <2>1. OneAsks /\ AnswerIsNewest /\ CacheIsNewest /\ \A c \in Callers : KnowsAll(c)
    BY <1>1 DEF SnapshotInv, TurnsInv
  <2>2. OneAsks' /\ \A c \in Callers : KnowsAll(c)'
    BY <1>1, <2>1 DEF OneAsks, Asks, KnowsAll
  <2>3. AnswerIsNewest'
    <3>1. ASSUME NEW c \in Callers, Asks(c)
          PROVE  entry'.cap < asking[c].cap
      BY <1>1, <2>1, <3>1, CallerIs DEF AnswerIsNewest
    <3> QED BY <1>1, <2>1, <3>1 DEF AnswerIsNewest, Asks
  <2>4. CacheIsNewest'
    BY <1>1, <2>1 DEF CacheIsNewest, SameAs, Asks
  <2> QED BY <2>2, <2>3, <2>4
<1> QED BY <1>4, <1>5, <1>6 DEF SnapshotInv

\* A caller begins a snapshot.
LEMMA CompileStep ==
  ASSUME SnapshotInv, NEW c \in Callers, NEW kind \in {"whole", "delta"}, NEW base \in Snapshots,
         MayCall(c), Compile(c, kind, base), UNCHANGED <<facts, entry, view, serial>>,
         kind = "delta" => base.cap = entry.cap /\ base.n = entry.n
  PROVE  SnapshotInv'
<1> DEFINE r == [step |-> "reading", kind |-> kind, base |-> base, cap |-> clock + 1, n |-> 0]
<1>1. /\ calls < MaxCalls /\ calls' = calls + 1 /\ asking[c].step = "idle"
      /\ serial => \A other \in Callers : asking[other].step = "idle"
      /\ clock' = clock + 1 /\ asking' = [asking EXCEPT ![c] = r]
      /\ UNCHANGED <<occurred, onDisk, unheard, entry, view, serial>>
  BY DEF MayCall, Compile, facts
<1>2. clock \in Nat /\ calls \in Nat /\ MaxCalls \in Nat /\ onDisk \in Nat
  BY CallerIs
<1>3. /\ r \in Requests /\ r.step = "reading" /\ r.kind = kind /\ r.base = base
      /\ r.cap = clock + 1 /\ r.n = 0
  BY <1>2 DEF Requests
<1> HIDE DEF r
<1>4. /\ asking' \in [Callers -> Requests] /\ asking'[c] = r
      /\ \A d \in Callers : d # c => asking'[d] = asking[d]
  BY <1>1, <1>3 DEF SnapshotInv, SnapshotTyped
<1>5. SnapshotTyped'
  BY <1>1, <1>2, <1>4 DEF SnapshotInv, SnapshotTyped
<1>6. NothingAhead'
  <2>1. entry'.n <= onDisk' /\ entry'.cap <= clock'
    BY <1>1, <1>2, CallerIs DEF SnapshotInv, NothingAhead
  <2>2. ASSUME NEW d \in Callers
        PROVE  /\ view'[d].n <= onDisk' /\ view'[d].cap <= clock'
               /\ asking'[d].n <= onDisk' /\ asking'[d].cap <= clock'
    BY <1>1, <1>2, <1>3, <1>4, CallerIs DEF SnapshotInv, NothingAhead
  <2> QED BY <2>1, <2>2 DEF NothingAhead
<1>7. TurnsInv'
  <2> SUFFICES ASSUME serial'
               PROVE  /\ OneAsks' /\ AnswerIsNewest' /\ CacheIsNewest'
                      /\ \A d \in Callers : KnowsAll(d)'
    BY DEF TurnsInv
  <2>1. CacheIsNewest /\ \A d \in Callers : KnowsAll(d)
    BY <1>1 DEF SnapshotInv, TurnsInv
  <2>2. \A d \in Callers : Asks(d)' => d = c
    BY <1>1, <1>4 DEF Asks
  <2>3. OneAsks'
    BY <2>2 DEF OneAsks
  <2>4. entry.cap < clock + 1 /\ \A d \in Callers : view[d].cap < clock + 1
    BY <1>2, CallerIs DEF SnapshotInv, NothingAhead
  <2>5. AnswerIsNewest'
    BY <1>1, <1>3, <1>4, <2>2, <2>4 DEF AnswerIsNewest
  <2>6. CacheIsNewest'
    <3>1. \A d \in Callers : SameAs(entry, d)'
      BY <1>1, <2>1 DEF CacheIsNewest, SameAs
    <3>2. kind = "delta" => SameAs(base, c)'
      BY <1>1, <2>1 DEF CacheIsNewest, SameAs
    <3> QED BY <1>1, <1>3, <1>4, <2>2, <3>1, <3>2 DEF CacheIsNewest, SameAs
  <2>7. \A d \in Callers : KnowsAll(d)'
    BY <1>1, <2>1 DEF KnowsAll
  <2> QED BY <2>3, <2>5, <2>6, <2>7
<1> QED BY <1>5, <1>6, <1>7 DEF SnapshotInv

\* A caller is answered from the cache.
LEMMA FreshStep ==
  ASSUME SnapshotInv, NEW c \in Callers, MayCall(c), Fresh(entry),
         view' = [view EXCEPT ![c] = WholeView(entry)],
         UNCHANGED <<asking, clock, facts, entry, serial>>
  PROVE  SnapshotInv'
<1> DEFINE v == WholeView(entry)
<1>1. /\ calls < MaxCalls /\ calls' = calls + 1 /\ entry.cap > 0
      /\ serial => \A other \in Callers : asking[other].step = "idle"
      /\ UNCHANGED <<occurred, onDisk, unheard, entry, asking, clock, serial>>
  BY DEF MayCall, facts, Fresh
<1>2. clock \in Nat /\ calls \in Nat /\ MaxCalls \in Nat /\ onDisk \in Nat
  BY CallerIs
<1>3. /\ v \in Views /\ v.cap = entry.cap /\ v.n = entry.n /\ v.seen = entry.n
      /\ v.ci = CiOf(entry.n)
  BY CallerIs, CiIsNumber DEF WholeView, Views
<1> HIDE DEF v
<1>4. /\ view' \in [Callers -> Views] /\ view'[c] = v
      /\ \A d \in Callers : d # c => view'[d] = view[d]
  BY <1>3 DEF SnapshotInv, SnapshotTyped, v
<1>5. SnapshotTyped'
  BY <1>1, <1>2, <1>4 DEF SnapshotInv, SnapshotTyped
<1>6. NothingAhead'
  BY <1>1, <1>3, <1>4 DEF SnapshotInv, NothingAhead
<1>7. TurnsInv'
  <2> SUFFICES ASSUME serial'
               PROVE  /\ OneAsks' /\ AnswerIsNewest' /\ CacheIsNewest'
                      /\ \A d \in Callers : KnowsAll(d)'
    BY DEF TurnsInv
  <2>1. CacheIsNewest /\ \A d \in Callers : KnowsAll(d)
    BY <1>1 DEF SnapshotInv, TurnsInv
  <2>2. \A d \in Callers : ~Asks(d)'
    BY <1>1 DEF Asks
  <2>3. OneAsks' /\ AnswerIsNewest'
    BY <2>2 DEF OneAsks, AnswerIsNewest
  <2>4. CacheIsNewest'
    <3>1. \A d \in Callers : SameAs(entry, d)'
      BY <1>1, <1>2, <1>3, <1>4, <2>1, CallerIs DEF CacheIsNewest, SameAs
    <3> QED BY <2>2, <3>1 DEF CacheIsNewest
  <2>5. \A d \in Callers : KnowsAll(d)'
    BY <1>3, <1>4, <2>1 DEF KnowsAll
  <2> QED BY <2>3, <2>4, <2>5
<1> QED BY <1>5, <1>6, <1>7 DEF SnapshotInv

LEMMA ReadStep ==
  ASSUME SnapshotInv, NEW c \in Callers, ReadFacts(c)
  PROVE  SnapshotInv'
<1> DEFINE r == [asking[c] EXCEPT !.step = "answering", !.n = onDisk]
<1>1. /\ asking[c].step = "reading" /\ asking' = [asking EXCEPT ![c] = r]
      /\ UNCHANGED <<occurred, onDisk, unheard, entry, view, clock, calls, serial>>
  BY DEF ReadFacts, facts
<1>2. /\ r \in Requests /\ r.step = "answering" /\ r.kind = asking[c].kind
      /\ r.base = asking[c].base /\ r.cap = asking[c].cap /\ r.n = onDisk
  BY CallerIs DEF Requests
<1> HIDE DEF r
<1>3. /\ asking' \in [Callers -> Requests] /\ asking'[c] = r
      /\ \A d \in Callers : d # c => asking'[d] = asking[d]
  BY <1>1, <1>2 DEF SnapshotInv, SnapshotTyped
<1>4. SnapshotTyped'
  BY <1>1, <1>3 DEF SnapshotInv, SnapshotTyped
<1>5. onDisk <= onDisk
  BY CallerIs
<1>6. NothingAhead'
  BY <1>1, <1>2, <1>3, <1>5 DEF SnapshotInv, NothingAhead
<1>7. \A d \in Callers :
        /\ Asks(d)' <=> Asks(d)
        /\ asking'[d].cap = asking[d].cap /\ asking'[d].kind = asking[d].kind
        /\ asking'[d].base = asking[d].base
  BY <1>1, <1>2, <1>3 DEF Asks
<1>8. TurnsInv'
  BY <1>1, <1>7
  DEF SnapshotInv, TurnsInv, OneAsks, AnswerIsNewest, CacheIsNewest, SameAs,
     KnowsAll
<1> QED BY <1>4, <1>6, <1>8 DEF SnapshotInv

\* The answer: a delta is merged into the view it was made against.
LEMMA AnswerStep ==
  ASSUME SnapshotInv, NEW c \in Callers, Answer(c)
  PROVE  SnapshotInv'
<1> DEFINE r == asking[c]
<1> DEFINE old == view[c]
<1> DEFINE snapshot == [cap |-> r.cap, n |-> r.n, fresh |-> TRUE]
<1> DEFINE merges == r.kind = "delta" /\ Safe(r.base, old.cap)
<1> DEFINE v == IF merges THEN [Merged(old, r.base, r.n) EXCEPT !.cap = r.cap]
                ELSE WholeView(snapshot)
<1>1. /\ r.step = "answering" /\ entry' = snapshot
      /\ view' = [view EXCEPT ![c] = v] /\ asking' = [asking EXCEPT ![c] = NoCall]
      /\ UNCHANGED <<occurred, onDisk, unheard, clock, calls, serial>>
  BY DEF Answer, facts
<1>2. /\ snapshot \in Snapshots /\ snapshot.cap = r.cap /\ snapshot.n = r.n
  BY CallerIs DEF Snapshots
<1>3. /\ old.ci \in Nat /\ old.n \in Nat /\ r.n \in Nat /\ r.cap \in Nat /\ old.cap \in Nat
      /\ r.base.cap \in Nat /\ r.base.n \in Nat
  BY CallerIs DEF Views
<1>4. /\ v \in Views /\ v.cap = r.cap /\ v.seen = r.n /\ v.n \in {old.n, r.n}
      /\ ~merges => v.n = r.n /\ v.ci = CiOf(r.n)
      /\ merges => /\ v.n = (IF r.n = r.base.n THEN old.n ELSE r.n)
                   /\ v.ci = (IF CiOf(r.n) = CiOf(r.base.n) THEN old.ci ELSE CiOf(r.n))
  <2>1. CASE merges
    BY <1>3, <2>1, CiIsNumber DEF Merged, Views
  <2>2. CASE ~merges
    BY <1>2, <1>3, <2>2, CiIsNumber DEF WholeView, Views
  <2> QED BY <2>1, <2>2
<1> HIDE DEF snapshot, v
<1>5. /\ view' \in [Callers -> Views] /\ view'[c] = v
      /\ \A d \in Callers : d # c => view'[d] = view[d]
  BY <1>1, <1>4 DEF SnapshotInv, SnapshotTyped
<1>6. /\ asking' \in [Callers -> Requests] /\ asking'[c] = NoCall
      /\ \A d \in Callers : d # c => asking'[d] = asking[d]
  BY <1>1, NothingsTyped DEF SnapshotInv, SnapshotTyped
<1>7. SnapshotTyped'
  BY <1>1, <1>2, <1>5, <1>6 DEF SnapshotInv, SnapshotTyped
<1>8. NothingAhead'
  <2>1. /\ r.n <= onDisk /\ r.cap <= clock /\ old.n <= onDisk
        /\ 0 <= onDisk /\ 0 <= clock
    BY CallerIs DEF SnapshotInv, NothingAhead
  <2> QED
    BY <1>1, <1>2, <1>4, <1>5, <1>6, <2>1, NothingsTyped
    DEF SnapshotInv, NothingAhead
<1>9. TurnsInv'
  <2> SUFFICES ASSUME serial'
               PROVE  /\ OneAsks' /\ AnswerIsNewest' /\ CacheIsNewest'
                      /\ \A d \in Callers : KnowsAll(d)'
    BY DEF TurnsInv
  <2>1. OneAsks /\ AnswerIsNewest /\ CacheIsNewest /\ \A d \in Callers : KnowsAll(d)
    BY <1>1 DEF SnapshotInv, TurnsInv
  <2>2. Asks(c)
    BY <1>1 DEF Asks
  <2>3. \A d \in Callers : ~Asks(d)'
    BY <1>6, <2>1, <2>2, NothingsTyped DEF OneAsks, Asks
  <2>4. OneAsks' /\ AnswerIsNewest'
    BY <2>3 DEF OneAsks, AnswerIsNewest
  <2>5. \A d \in Callers : view[d].cap < r.cap
    BY <2>1, <2>2 DEF AnswerIsNewest
  <2>6. merges => old.cap = r.base.cap /\ old.n = r.base.n
    BY <1>3, <2>1, <2>2 DEF CacheIsNewest, SameAs, Safe
  <2>7. v.n = r.n /\ v.ci = CiOf(r.n)
    <3>1. CASE ~merges
      BY <1>4, <3>1
    <3>2. CASE merges
      <4>1. old.ci = CiOf(old.n)
        BY <2>1 DEF KnowsAll
      <4> QED BY <1>4, <2>6, <3>2, <4>1
    <3> QED BY <3>1, <3>2
  <2>8. CacheIsNewest'
    <3>1. SameAs(entry, c)'
      BY <1>1, <1>2, <1>3, <1>4, <1>5, <2>7 DEF SameAs
    <3>2. \A d \in Callers : d # c => SameAs(entry, d)'
      <4> TAKE d \in Callers
      <4>1. view[d].cap < r.cap /\ view[d].cap \in Nat
        BY <2>5, CallerIs
      <4> QED BY <1>1, <1>2, <1>3, <1>5, <4>1 DEF SameAs
    <3> QED BY <2>3, <3>1, <3>2 DEF CacheIsNewest
  <2>9. \A d \in Callers : KnowsAll(d)'
    BY <1>4, <1>5, <2>1, <2>7 DEF KnowsAll
  <2> QED BY <2>4, <2>8, <2>9
<1> QED BY <1>7, <1>8, <1>9 DEF SnapshotInv

LEMMA SnapshotInitially == SnapshotInit => SnapshotInv
<1> SUFFICES ASSUME SnapshotInit PROVE SnapshotInv
  OBVIOUS
<1>1. /\ {occurred, onDisk, unheard, clock, calls} = {0} /\ entry = NoSnapshot
      /\ serial \in BOOLEAN
      /\ asking \in [Callers -> Requests] /\ view \in [Callers -> Views]
      /\ \A c \in Callers : asking[c] = NoCall /\ view[c] = NoView
  BY NothingsTyped DEF SnapshotInit
<1>2. SnapshotTyped
  BY <1>1, NothingsTyped, SnapshotBoundsAssumption DEF SnapshotInit, SnapshotTyped
<1>3. NothingAhead
  BY <1>1, NothingsTyped DEF SnapshotInit, NothingAhead
<1>4. TurnsInv
  <2>1. \A c \in Callers : ~Asks(c)
    BY <1>1, NothingsTyped DEF Asks
  <2>2. /\ entry.cap = 0
        /\ \A c \in Callers :
             view[c].cap = 0 /\ view[c].seen = 0 /\ view[c].n = 0 /\ view[c].ci = 0
    BY <1>1 DEF NoView, NoSnapshot
  <2>3. CiOf(0) = 0
    BY DEF CiOf
  <2>4. \A c \in Callers : KnowsAll(c)
    <3> TAKE c \in Callers
    <3>1. CiOf(view[c].seen) = 0
      BY <2>2, <2>3
    <3> QED BY <2>2, <3>1 DEF KnowsAll
  <2>5. \A c \in Callers : SameAs(entry, c)
    BY <2>2 DEF SameAs
  <2> QED BY <2>1, <2>4, <2>5 DEF TurnsInv, OneAsks, AnswerIsNewest, CacheIsNewest
<1> QED BY <1>2, <1>3, <1>4 DEF SnapshotInv

LEMMA SnapshotInductive == SnapshotInv /\ [SnapshotNext]_snapshotVars => SnapshotInv'
<1> SUFFICES ASSUME SnapshotInv, [SnapshotNext]_snapshotVars PROVE SnapshotInv'
  OBVIOUS
<1>1. CASE UNCHANGED snapshotVars
  BY <1>1
  DEF snapshotVars, SnapshotInv, SnapshotTyped, NothingAhead, TurnsInv, OneAsks,
             AnswerIsNewest, CacheIsNewest, SameAs, KnowsAll, Asks
<1>2. CASE Occur \/ Journaled \/ Invalidate \/ GrowOld
  BY <1>2, WorldSteps
<1>3. ASSUME NEW c \in Callers, AskSnapshot(c)
      PROVE  SnapshotInv'
  BY <1>3, FreshStep, CompileStep, NothingsTyped DEF AskSnapshot
<1>4. ASSUME NEW c \in Callers, AskRefresh(c)
      PROVE  SnapshotInv'
  BY <1>4, CompileStep, NothingsTyped DEF AskRefresh
<1>5. ASSUME NEW c \in Callers, AskDelta(c)
      PROVE  SnapshotInv'
  <2> DEFINE base == [entry EXCEPT !.fresh = FALSE]
  <2>1. base \in Snapshots /\ base.cap = entry.cap /\ base.n = entry.n
    BY CallerIs DEF Snapshots
  <2>2. MayCall(c) /\ Compile(c, "delta", base) /\ UNCHANGED <<facts, entry, view, serial>>
    BY <1>5 DEF AskDelta
  <2> HIDE DEF base
  <2> QED BY <2>1, <2>2, CompileStep
<1>6. ASSUME NEW c \in Callers, ReadFacts(c) \/ Answer(c)
      PROVE  SnapshotInv'
  BY <1>6, ReadStep, AnswerStep
<1> QED BY <1>1, <1>2, <1>3, <1>4, <1>5, <1>6 DEF SnapshotNext

\* No snapshot knows more than the files or comes from the future, for any
\* callers, events and requests.
THEOREM SnapshotTypeCorrect == SnapshotSpec => []SnapshotTypeOK
<1>1. SnapshotInv => SnapshotTypeOK
  <2> SUFFICES ASSUME SnapshotInv PROVE SnapshotTypeOK
    OBVIOUS
  <2>1. /\ {occurred, onDisk, unheard} \subseteq 0..MaxFacts /\ onDisk <= occurred
        /\ clock <= MaxCalls
    BY SnapshotBoundsAssumption DEF SnapshotInv, SnapshotTyped
  <2>2. \A c \in Callers : asking[c].step \in {"idle", "reading", "answering"}
    BY CallerIs DEF Requests
  <2> QED BY <2>1, <2>2 DEF SnapshotInv, NothingAhead, SnapshotTypeOK
<1> QED BY <1>1, SnapshotInitially, SnapshotInductive, PTL DEF SnapshotSpec

\* For any number of callers that take turns, events, invalidations and expired
\* entries: a caller that merges a delta into what it knows has every field as
\* the snapshot has it (world_snapshot_delta).
THEOREM DeltaNeverMissesHolds == SnapshotSpec => []DeltaNeverMisses
<1>1. SnapshotInv => DeltaNeverMisses
  BY DEF SnapshotInv, TurnsInv, DeltaNeverMisses
<1> QED BY <1>1, SnapshotInitially, SnapshotInductive, PTL DEF SnapshotSpec

-----------------------------------------------------------------------------
(* The fold of the quota journal, by induction over its entries: the set   *)
(* of the positions for which a fact holds has 0 and with each its next.   *)

LEMMA LeastNumber ==
  ASSUME NEW S, S \subseteq Nat, S # {}
  PROVE  \E n \in S : \A m \in S : n <= m
<1> DEFINE R == OpToRel(<, Nat)
<1>1. IsWellFoundedOn(R, Nat)
  BY NatLessThanWellFounded
<1>2. \A m, n \in Nat : m < n => <<m, n>> \in R
  BY DEF OpToRel
<1> HIDE DEF R
<1>3. PICK n \in S : \A m \in S : <<m, n>> \notin R
  BY <1>1, WFMin
<1>4. \A m \in S : n <= m
  <2> TAKE m \in S
  <2>1. m \in Nat /\ n \in Nat
    OBVIOUS
  <2>2. ~(m < n)
    BY <1>2, <1>3, <2>1
  <2> QED BY <2>1, <2>2
<1> QED BY <1>4

LEMMA SetInduction ==
  ASSUME NEW S, 0 \in S, \A n \in Nat : n \in S => n + 1 \in S
  PROVE  Nat \subseteq S
<1> SUFFICES ASSUME Nat \ S # {} PROVE FALSE
  OBVIOUS
<1>1. PICK n \in Nat \ S : \A m \in Nat \ S : n <= m
  BY LeastNumber
<1> QED BY <1>1

\* f holds the states the fold of the first n entries goes through.
Folds(f, entries, n) ==
  f = [i \in 0..n |-> IF i = 0 THEN Unseen ELSE ApplyEntry(f[i - 1], entries[i])]

LEMMA FoldsSomehow ==
  ASSUME NEW entries
  PROVE  \A n \in Nat : \E f : Folds(f, entries, n)
<1> DEFINE S == {n \in Nat : \E f : Folds(f, entries, n)}
<1>1. 0 \in S
  <2> DEFINE g == [i \in 0..0 |-> Unseen]
  <2>1. g = [i \in 0..0 |-> IF i = 0 THEN Unseen ELSE ApplyEntry(g[i - 1], entries[i])]
    OBVIOUS
  <2> QED BY <2>1 DEF Folds
<1>2. ASSUME NEW n \in Nat, n \in S PROVE n + 1 \in S
  <2>1. PICK f : Folds(f, entries, n)
    BY <1>2
  <2> DEFINE g == [i \in 0..(n + 1) |->
                     IF i = n + 1 THEN ApplyEntry(f[n], entries[n + 1]) ELSE f[i]]
  <2>2. ASSUME NEW i \in 0..(n + 1)
        PROVE  g[i] = IF i = 0 THEN Unseen ELSE ApplyEntry(g[i - 1], entries[i])
    <3>1. CASE i = n + 1
      <4>1. g[i - 1] = f[n] /\ i # 0
        BY <3>1
      <4> QED BY <3>1, <4>1
    <3>2. CASE i # n + 1 /\ i # 0
      <4>1. i \in 0..n /\ i - 1 \in 0..n /\ i - 1 # n + 1 /\ i - 1 \in 0..(n + 1)
        BY <3>2
      <4>2. g[i] = f[i] /\ g[i - 1] = f[i - 1]
        BY <3>2, <4>1
      <4>3. f[i] = ApplyEntry(f[i - 1], entries[i])
        BY <2>1, <3>2, <4>1 DEF Folds
      <4> QED BY <3>2, <4>2, <4>3
    <3>3. CASE i = 0
      <4>1. 0 \in 0..n /\ i # n + 1
        BY <3>3
      <4>2. f[0] = Unseen
        BY <2>1, <4>1 DEF Folds
      <4> QED BY <3>3, <4>1, <4>2
    <3> QED BY <3>1, <3>2, <3>3
  <2>3. g = [i \in 0..(n + 1) |-> IF i = 0 THEN Unseen ELSE ApplyEntry(g[i - 1], entries[i])]
    BY <2>2
  <2> HIDE DEF g
  <2>4. Folds(g, entries, n + 1)
    BY <2>3 DEF Folds
  <2> QED BY <2>4
<1> HIDE DEF S
<1>3. Nat \subseteq S
  BY <1>1, <1>2, SetInduction
<1> QED BY <1>3 DEF S

LEMMA FoldedFolds ==
  ASSUME NEW entries, Len(entries) \in Nat
  PROVE  \E f : Folds(f, entries, Len(entries)) /\ Folded(entries) = f[Len(entries)]
<1> DEFINE f == CHOOSE f : Folds(f, entries, Len(entries))
<1>1. Folds(f, entries, Len(entries))
  BY FoldsSomehow
<1>2. Folded(entries) = f[Len(entries)]
  BY Zenon DEF Folded, Folds
<1> QED BY <1>1, <1>2

LEMMA FoldsAlike ==
  ASSUME NEW r, NEW s, NEW n \in Nat, NEW m \in Nat, n <= m,
         \A i \in 1..n : r[i] = s[i],
         NEW f, NEW g, Folds(f, r, n), Folds(g, s, m)
  PROVE  f[n] = g[n]
<1> DEFINE S == {k \in Nat : k <= n => f[k] = g[k]}
<1>1. 0 \in S
  <2>1. 0 \in 0..n /\ 0 \in 0..m
    OBVIOUS
  <2> QED BY <2>1 DEF Folds
<1>2. ASSUME NEW k \in Nat, k \in S PROVE k + 1 \in S
  <2> SUFFICES ASSUME k + 1 <= n PROVE f[k + 1] = g[k + 1]
    OBVIOUS
  <2>1. /\ f[k] = g[k] /\ k + 1 \in 1..n /\ k + 1 \in 0..n /\ k + 1 \in 0..m
        /\ (k + 1) - 1 = k /\ k + 1 # 0
    BY <1>2
  <2>2. f[k + 1] = ApplyEntry(f[k], r[k + 1])
    BY <2>1 DEF Folds
  <2>3. g[k + 1] = ApplyEntry(g[k], s[k + 1])
    BY <2>1 DEF Folds
  <2> QED BY <2>1, <2>2, <2>3
<1> HIDE DEF S
<1>3. n \in S
  BY <1>1, <1>2, SetInduction
<1> QED BY <1>3 DEF S

LEMMA FoldedNothing == Folded(<<>>) = Unseen
<1>1. Len(<<>>) = 0 /\ 0 \in 0..0
  OBVIOUS
<1>2. PICK f : Folds(f, <<>>, 0) /\ Folded(<<>>) = f[0]
  BY <1>1, FoldedFolds
<1> QED BY <1>1, <1>2 DEF Folds

\* One more entry is one more entry applied.
LEMMA FoldedAppend ==
  ASSUME NEW S, NEW entries \in Seq(S), NEW e \in S
  PROVE  Folded(Append(entries, e)) = ApplyEntry(Folded(entries), e)
<1> DEFINE n == Len(entries)
<1> DEFINE more == Append(entries, e)
<1>1. /\ n \in Nat /\ Len(more) = n + 1 /\ more[n + 1] = e
      /\ \A i \in 1..n : entries[i] = more[i]
  OBVIOUS
<1> HIDE DEF more
<1>2. PICK f : Folds(f, entries, n) /\ Folded(entries) = f[n]
  BY <1>1, FoldedFolds
<1>3. PICK g : Folds(g, more, n + 1) /\ Folded(more) = g[n + 1]
  BY <1>1, FoldedFolds
<1>4. f[n] = g[n]
  BY <1>1, <1>2, <1>3, FoldsAlike
<1>5. n + 1 \in 0..(n + 1) /\ n + 1 # 0 /\ (n + 1) - 1 = n
  BY <1>1
<1>6. g[n + 1] = ApplyEntry(g[n], more[n + 1])
  BY <1>3, <1>5 DEF Folds
<1> QED BY <1>1, <1>2, <1>3, <1>4, <1>6 DEF more

-----------------------------------------------------------------------------
(* What is folded keeps what the entries say: the last signal is the       *)
(* status, but that a use of an unknown window makes it available, and the *)
(* times are those of the uses.                                            *)

QuotaStatuses == {"unknown", "available", "exhausted", "exhausted-soon"}
QuotaEntries == [what: Signals \union {"usage"}, at: Nat]

QuotaTyped ==
  /\ ledger \in Seq(QuotaEntries) /\ ticks \in Nat
  /\ Observed \in [status: QuotaStatuses, cost: Nat, times: Seq(Nat)]

SignalsAt == {i \in DOMAIN ledger : ledger[i].what \in Signals}
SignalsEnd == SignalsAt # {} => \E m \in SignalsAt : \A i \in SignalsAt : i <= m
SignalStays ==
  LastSignal \in {"exhausted", "exhausted-soon"} => Observed.status = LastSignal

Uses(t) == {i \in DOMAIN ledger : ledger[i].what = "usage" /\ ledger[i].at >= t}
Times(t) == {i \in DOMAIN Observed.times : Observed.times[i] >= t}
UsesCounted ==
  \A t \in Int : /\ IsFiniteSet(Uses(t)) /\ IsFiniteSet(Times(t))
                 /\ Cardinality(Uses(t)) = Cardinality(Times(t))

QuotaInv == QuotaTyped /\ SignalsEnd /\ SignalStays /\ UsesCounted

LEMMA MaxIs ==
  ASSUME NEW S, S \subseteq Nat, NEW m \in S, \A i \in S : i <= m
  PROVE  Max(S) = m
<1>1. \A y \in S : m >= y
  OBVIOUS
<1>2. \A x \in S : (\A y \in S : x >= y) => x = m
  OBVIOUS
<1> QED BY <1>1, <1>2 DEF Max

LEMMA LastSignalIs ==
  ASSUME QuotaTyped, NEW m \in SignalsAt, \A i \in SignalsAt : i <= m
  PROVE  LastSignal = ledger[m].what
<1>1. SignalsAt \subseteq Nat
  BY DEF SignalsAt, QuotaTyped
<1>2. Max(SignalsAt) = m
  BY <1>1, MaxIs
<1> QED BY <1>2 DEF LastSignal, SignalsAt

\* One entry more, at a position of its own.
LEMMA EntryAppended ==
  ASSUME QuotaTyped, NEW what \in Signals \union {"usage"}, Observe(what)
  PROVE  \E e \in QuotaEntries, n \in Nat :
           /\ e.what = what /\ e.at = ticks /\ n = Len(ledger) /\ ticks' = ticks
           /\ ledger' \in Seq(QuotaEntries) /\ Observed' = ApplyEntry(Observed, e)
           /\ DOMAIN ledger = 1..n /\ DOMAIN ledger' = 1..(n + 1)
           /\ \A i \in 1..n : ledger'[i] = ledger[i]
           /\ ledger'[n + 1] = e
<1> DEFINE e == [what |-> what, at |-> ticks]
           n == Len(ledger)
<1>1. e \in QuotaEntries /\ e.what = what /\ e.at = ticks /\ ledger \in Seq(QuotaEntries) /\ n \in Nat
  BY DEF QuotaTyped, QuotaEntries
<1>2. ledger' = Append(ledger, e) /\ ticks' = ticks
  BY DEF Observe
<1> HIDE DEF e
<1>3. Observed' = ApplyEntry(Observed, e)
  BY <1>1, <1>2, FoldedAppend DEF Observed
<1>4. /\ ledger' \in Seq(QuotaEntries) /\ DOMAIN ledger = 1..n /\ DOMAIN ledger' = 1..(n + 1)
      /\ \A i \in 1..n : ledger'[i] = ledger[i]
      /\ ledger'[n + 1] = e
  BY <1>1, <1>2
<1> QED BY <1>1, <1>2, <1>3, <1>4

LEMMA ObserveKeeps ==
  ASSUME QuotaInv, NEW what \in Signals \union {"usage"}, Observe(what)
  PROVE  QuotaInv'
<1>1. QuotaTyped
  BY DEF QuotaInv
<1>2. PICK e \in QuotaEntries, n \in Nat :
        /\ e.what = what /\ e.at = ticks /\ n = Len(ledger) /\ ticks' = ticks
        /\ ledger' \in Seq(QuotaEntries) /\ Observed' = ApplyEntry(Observed, e)
        /\ DOMAIN ledger = 1..n /\ DOMAIN ledger' = 1..(n + 1)
        /\ \A i \in 1..n : ledger'[i] = ledger[i]
        /\ ledger'[n + 1] = e
  BY <1>1, EntryAppended
<1>3. \A i \in 1..(n + 1) : i \in 1..n \/ i = n + 1
  OBVIOUS
<1>4. n + 1 \in 1..(n + 1) /\ n + 1 \notin 1..n /\ \A i \in 1..n : i \in 1..(n + 1) /\ i <= n + 1
  OBVIOUS
<1>5. /\ Observed \in [status: QuotaStatuses, cost: Nat, times: Seq(Nat)]
      /\ ticks \in Nat /\ CostPerUse \in Nat
  BY QuotaAssumption DEF QuotaInv, QuotaTyped
<1>6. CASE what = "usage"
  <2>1. /\ Observed'.times = Append(Observed.times, ticks)
        /\ Observed'.status = IF Observed.status = "unknown" THEN "available" ELSE Observed.status
        /\ Observed' \in [status: QuotaStatuses, cost: Nat, times: Seq(Nat)]
    <3>1. Observed' = ApplyUsage(Observed, ticks)
      BY <1>2, <1>6 DEF ApplyEntry
    <3> DEFINE s == IF Observed.status = "unknown" THEN "available" ELSE Observed.status
               c == Observed.cost + CostPerUse
               l == Append(Observed.times, ticks)
    <3>2. s \in QuotaStatuses /\ c \in Nat /\ l \in Seq(Nat)
      BY <1>5 DEF QuotaStatuses
    <3>3. Observed' = [status |-> s, cost |-> c, times |-> l]
      BY <3>1 DEF ApplyUsage
    <3> QED BY <3>2, <3>3
  <2>2. QuotaTyped'
    BY <1>2, <1>5, <2>1 DEF QuotaTyped
  <2>3. SignalsAt' = SignalsAt
    BY <1>2, <1>3, <1>4, <1>6 DEF SignalsAt, Signals
  <2>4. SignalsEnd'
    BY <2>3 DEF QuotaInv, SignalsEnd
  <2>5. LastSignal' = LastSignal
    <3>1. CASE SignalsAt = {}
      BY <2>3, <3>1 DEF LastSignal, SignalsAt
    <3>2. CASE SignalsAt # {}
      <4>1. PICK m \in SignalsAt : \A i \in SignalsAt : i <= m
        BY <3>2 DEF QuotaInv, SignalsEnd
      <4>2. LastSignal = ledger[m].what
        BY <1>1, <4>1, LastSignalIs
      <4>3. Max(SignalsAt) = m
        <5>1. SignalsAt \subseteq Nat
          BY <1>2 DEF SignalsAt
        <5> QED BY <4>1, <5>1, MaxIs
      <4>4. LastSignal' = ledger'[m].what
        BY <2>3, <3>2, <4>3 DEF LastSignal, SignalsAt
      <4>5. ledger'[m] = ledger[m]
        BY <1>2 DEF SignalsAt
      <4> QED BY <4>2, <4>4, <4>5
    <3> QED BY <3>1, <3>2
  <2>6. SignalStays'
    BY <2>1, <2>5 DEF QuotaInv, SignalStays
  <2>7. UsesCounted'
    <3> SUFFICES ASSUME NEW t \in Int
                 PROVE  /\ IsFiniteSet(Uses(t))' /\ IsFiniteSet(Times(t))'
                        /\ Cardinality(Uses(t))' = Cardinality(Times(t))'
      BY DEF UsesCounted
    <3>1. /\ IsFiniteSet(Uses(t)) /\ IsFiniteSet(Times(t))
          /\ Cardinality(Uses(t)) = Cardinality(Times(t))
      BY DEF QuotaInv, UsesCounted
    <3> DEFINE k == Len(Observed.times)
    <3>2. /\ k \in Nat /\ DOMAIN Observed.times = 1..k /\ DOMAIN Observed'.times = 1..(k + 1)
          /\ \A i \in 1..k : Observed'.times[i] = Observed.times[i]
          /\ Observed'.times[k + 1] = ticks
      <4>1. Observed.times \in Seq(Nat)
        BY <1>5
      <4> QED BY <1>5, <2>1, <4>1
    <3> HIDE DEF k
    <3>3. k + 1 \notin 1..k /\ \A i : i \in 1..(k + 1) <=> i \in 1..k \/ i = k + 1
      BY <3>2
    <3>4. CASE ticks >= t
      <4>1. Uses(t)' = Uses(t) \union {n + 1} /\ n + 1 \notin Uses(t)
        BY <1>2, <1>3, <1>4, <1>6, <3>4 DEF Uses
      <4>2. Times(t)' = Times(t) \union {k + 1} /\ k + 1 \notin Times(t)
        BY <3>2, <3>3, <3>4 DEF Times
      <4>3. IsFiniteSet(Uses(t)') /\ Cardinality(Uses(t)') = Cardinality(Uses(t)) + 1
        BY <3>1, <4>1, FS_AddElement
      <4>4. IsFiniteSet(Times(t)') /\ Cardinality(Times(t)') = Cardinality(Times(t)) + 1
        BY <3>1, <4>2, FS_AddElement
      <4> QED BY <3>1, <4>3, <4>4
    <3>5. CASE ~(ticks >= t)
      <4>1. Uses(t)' = Uses(t)
        BY <1>2, <1>3, <1>4, <1>6, <3>5 DEF Uses
      <4>2. Times(t)' = Times(t)
        BY <3>2, <3>3, <3>5 DEF Times
      <4> QED BY <3>1, <4>1, <4>2
    <3> QED BY <3>4, <3>5
  <2> QED BY <2>2, <2>4, <2>6, <2>7 DEF QuotaInv
<1>7. CASE what \in Signals
  <2>0. what # "usage"
    BY <1>7 DEF Signals
  <2>1. /\ Observed'.times = Observed.times
        /\ Observed'.status = IF what = "refilled" THEN "available" ELSE what
        /\ Observed' \in [status: QuotaStatuses, cost: Nat, times: Seq(Nat)]
    <3>1. Observed' = ApplySignal(Observed, what)
      BY <1>2, <2>0 DEF ApplyEntry
    <3> DEFINE s == IF what = "refilled" THEN "available" ELSE what
    <3>2. s \in QuotaStatuses
      BY <1>7 DEF QuotaStatuses, Signals
    <3>3. Observed' = [Observed EXCEPT !.status = s, !.cost = 0]
      BY <3>1 DEF ApplySignal
    <3> HIDE DEF s
    <3>4. Observed'.times = Observed.times /\ Observed'.status = s
          /\ Observed' \in [status: QuotaStatuses, cost: Nat, times: Seq(Nat)]
      BY <1>5, <3>2, <3>3
    <3> QED BY <3>4 DEF s
  <2>2. QuotaTyped'
    BY <1>2, <1>5, <2>1 DEF QuotaTyped
  <2>3. n + 1 \in SignalsAt' /\ \A i \in SignalsAt' : i <= n + 1
    BY <1>2, <1>3, <1>4, <1>7 DEF SignalsAt
  <2>4. SignalsEnd'
    BY <2>3 DEF SignalsEnd
  <2>5. LastSignal' = what
    <3>1. SignalsAt' \subseteq Nat
      BY <1>2 DEF SignalsAt
    <3>2. Max(SignalsAt') = n + 1
      BY <2>3, <3>1, MaxIs
    <3> QED BY <1>2, <2>3, <3>2 DEF LastSignal, SignalsAt
  <2>6. SignalStays'
    BY <2>1, <2>5 DEF SignalStays
  <2>7. UsesCounted'
    <3> SUFFICES ASSUME NEW t \in Int
                 PROVE  Uses(t)' = Uses(t) /\ Times(t)' = Times(t)
      BY DEF QuotaInv, UsesCounted
    <3>1. Uses(t)' = Uses(t)
      BY <1>2, <1>3, <1>4, <2>0 DEF Uses
    <3> QED BY <2>1, <3>1 DEF Times
  <2> QED BY <2>2, <2>4, <2>6, <2>7 DEF QuotaInv
<1> QED BY <1>6, <1>7

LEMMA QuotaInitially == QuotaInit => QuotaInv
<1> SUFFICES ASSUME QuotaInit PROVE QuotaInv
  OBVIOUS
<1>1. ledger = <<>> /\ ticks = 0 /\ DOMAIN ledger = {} /\ Observed = Unseen
  BY FoldedNothing DEF QuotaInit, Observed
<1>2. /\ Observed \in [status: QuotaStatuses, cost: Nat, times: Seq(Nat)]
      /\ DOMAIN Observed.times = {}
  BY <1>1 DEF Unseen, QuotaStatuses
<1>3. QuotaTyped
  BY <1>1, <1>2 DEF QuotaTyped
<1>4. SignalsAt = {} /\ LastSignal = "none"
  BY <1>1 DEF SignalsAt, LastSignal
<1>5. \A t \in Int : Uses(t) = {} /\ Times(t) = {}
  BY <1>1, <1>2 DEF Uses, Times
<1> QED BY <1>3, <1>4, <1>5, FS_EmptySet
        DEF QuotaInv, SignalsEnd, SignalStays, UsesCounted

LEMMA QuotaInductive == QuotaInv /\ [QuotaNext]_quotaVars => QuotaInv'
<1> SUFFICES ASSUME QuotaInv, [QuotaNext]_quotaVars PROVE QuotaInv'
  OBVIOUS
<1>1. ASSUME ledger' = ledger, ticks' \in Nat
      PROVE  QuotaInv'
  <2>1. /\ Observed' = Observed /\ SignalsAt' = SignalsAt /\ LastSignal' = LastSignal
        /\ \A t : Uses(t)' = Uses(t) /\ Times(t)' = Times(t)
    BY <1>1 DEF Observed, SignalsAt, LastSignal, Uses, Times
  <2> QED BY <1>1, <2>1
          DEF QuotaInv, QuotaTyped, SignalsEnd, SignalStays, UsesCounted
<1>2. CASE PassTime \/ UNCHANGED quotaVars
  BY <1>1, <1>2 DEF PassTime, quotaVars, QuotaInv, QuotaTyped
<1> QED BY <1>2, ObserveKeeps DEF QuotaNext

LEMMA Ranks ==
  /\ \A status : Rank(status) \in 0..4
  /\ Rank("exhausted") = 4
<1>1. \A status : \/ Rank(status) = 0 \/ Rank(status) = 1 \/ Rank(status) = 2
                  \/ Rank(status) = 3 \/ Rank(status) = 4
  BY DEF Rank
<1>2. Rank("exhausted") = 4
  BY DEF Rank
<1> QED BY <1>1, <1>2

LEMMA WorseIs ==
  ASSUME NEW derived, NEW status
  PROVE  Rank(Worse(derived, status)) >= Rank(status)
BY Ranks DEF Worse

\* A provider is not shown as better than what is known of it, for any limit,
\* cadence, cap and journal: a signal stays, a full window is exhausted.
THEOREM QuotaSafetyHolds == QuotaSpec => []QuotaSafety
<1>1. ASSUME QuotaInv PROVE SignalNotDowngraded
  <2> DEFINE s == Observed.status
             b == WithBudget(Observed)
  <2>1. Rank(b) >= Rank(s)
    BY WorseIs, Ranks DEF WithBudget
  <2> HIDE DEF b, s
  <2>2. Rank(QuotaStatus) >= Rank(b)
    BY WorseIs, Ranks DEF QuotaStatus, b
  <2>3. LastSignal \in {"exhausted", "exhausted-soon"} => s = LastSignal
    BY <1>1 DEF QuotaInv, SignalStays, s
  <2> QED BY <2>1, <2>2, <2>3, Ranks DEF SignalNotDowngraded
<1>2. ASSUME QuotaInv PROVE FullWindowIsExhausted
  <2> SUFFICES ASSUME "window" \in settings,
                      UsesSince(ticks - Cadence) * Multiplier >= QuotaLimit * 100
               PROVE  QuotaStatus = "exhausted"
    BY DEF FullWindowIsExhausted
  <2> DEFINE n == Cardinality(Times(ticks - Cadence))
             count == SessionsInWindow(Observed.times)
  <2>1. ticks - Cadence \in Int /\ QuotaLimit \in Nat /\ Multiplier \in Nat
    BY <1>2, QuotaAssumption DEF QuotaInv, QuotaTyped
  <2>2. n \in Nat /\ n = UsesSince(ticks - Cadence)
    BY <1>2, <2>1, FS_CardinalityType DEF QuotaInv, UsesCounted, Uses, UsesSince
  <2>3. count = (n * Multiplier + 99) \div 100
    BY DEF SessionsInWindow, Times
  <2> HIDE DEF n, count
  <2>4. n * Multiplier \in Nat /\ n * Multiplier >= QuotaLimit * 100
    BY <2>1, <2>2
  <2>5. \A x, l \in Nat : x >= l * 100 => (x + 99) \div 100 >= l
    OBVIOUS
  <2>6. count >= QuotaLimit
    BY <2>1, <2>3, <2>4, <2>5
  <2>7. WindowStatus(count) = "exhausted"
    BY <2>6 DEF WindowStatus
  <2>8. \A status : Worse("exhausted", status) = "exhausted"
    BY Ranks DEF Worse
  <2> QED BY <2>7, <2>8 DEF QuotaStatus, count
<1>3. QuotaInv => QuotaSafety
  BY <1>1, <1>2 DEF QuotaSafety
<1> QED BY <1>3, QuotaInitially, QuotaInductive, PTL DEF QuotaSpec

-----------------------------------------------------------------------------
(* The eleven components in one run (MCServices).  A step of the run is a  *)
(* step of the part that it names, and a stutter of every other: what is   *)
(* proved of a component holds of its part.                                *)

LEMMA PartSteps ==
  ASSUME [ServicesNext]_servicesVars
  PROVE  /\ [TreeNext]_treeVars /\ [PickerNext]_pickerVars /\ [MessageNext]_messageVars
         /\ [OutputNext]_outputVars /\ [PullsNext]_repoVars /\ [PatchNext]_patchVars
         /\ [RoutedNext]_routedVars /\ [JournalNext]_journalVars
         /\ [DispatchNext]_dispatchVars /\ [SnapshotNext]_snapshotVars
         /\ [QuotaNext]_quotaVars
<1> DEFINE Still(p) ==
      /\ (p = "trees" \/ UNCHANGED treeVars) /\ (p = "pickers" \/ UNCHANGED pickerVars)
      /\ (p = "messages" \/ UNCHANGED messageVars) /\ (p = "output" \/ UNCHANGED outputVars)
      /\ (p = "pulls" \/ UNCHANGED repoVars) /\ (p = "patches" \/ UNCHANGED patchVars)
      /\ (p = "routing" \/ UNCHANGED routedVars) /\ (p = "journal" \/ UNCHANGED journalVars)
      /\ (p = "dispatch" \/ UNCHANGED dispatchVars)
      /\ (p = "snapshots" \/ UNCHANGED snapshotVars) /\ (p = "quotas" \/ UNCHANGED quotaVars)
<1>1. ASSUME NEW p, Only(p) PROVE Still(p)
  BY <1>1 DEF Only
<1>2. UNCHANGED servicesVars => Still("none")
  BY DEF servicesVars
<1>3. \/ Still("none")
      \/ Still("trees") /\ TreeNext
      \/ Still("pickers") /\ PickerNext
      \/ Still("messages") /\ MessageNext
      \/ Still("output") /\ OutputNext
      \/ Still("pulls") /\ PullsNext
      \/ Still("patches") /\ PatchNext
      \/ Still("routing") /\ RoutedNext
      \/ Still("journal") /\ JournalNext
      \/ Still("dispatch") /\ DispatchNext
      \/ Still("snapshots") /\ SnapshotNext
      \/ Still("quotas") /\ QuotaNext
  BY <1>1, <1>2 DEF ServicesNext
<1> QED BY <1>3

LEMMA PartSpecs ==
  ServicesSpec =>
    /\ TreeSpec /\ PickerSpec /\ MessageSpec /\ OutputSpec /\ PullsSpec /\ PatchSpec
    /\ RoutedSpec /\ JournalSpec /\ DispatchSpec /\ SnapshotSpec /\ QuotaSpec
<1>1. ServicesInit =>
        /\ TreeInit /\ PickerInit /\ MessageInit /\ OutputInit /\ PullsInit /\ PatchInit
        /\ RoutedInit /\ JournalInit /\ DispatchInit /\ SnapshotInit /\ QuotaInit
  BY DEF ServicesInit
<1> QED BY <1>1, PartSteps, PTL
        DEF ServicesSpec, TreeSpec, PickerSpec, MessageSpec, OutputSpec, PullsSpec,
           PatchSpec,
            RoutedSpec, JournalSpec, DispatchSpec, SnapshotSpec, QuotaSpec

\* The state of every part keeps its type, for every size of every part.
THEOREM ServicesTypeCorrect == ServicesSpec => []ServicesTypeOK
<1>1. /\ TreeTypeOK /\ PickerTypeOK /\ MessageTypeOK /\ OutputTypeOK /\ PullsTypeOK
      /\ PatchTypeOK /\ RoutedTypeOK /\ JournalTypeOK /\ DispatchTypeOK /\ SnapshotTypeOK
      => ServicesTypeOK
  BY DEF ServicesTypeOK
<1> QED BY <1>1, PartSpecs, TreeTypeCorrect, PickerTypeCorrect, MessageTypeCorrect,
           OutputTypeCorrect, PullsTypeCorrect, PatchTypeCorrect, RoutedTypeCorrect,
           JournalTypeCorrect, DispatchTypeCorrect, SnapshotTypeCorrect, PTL

\* What is written to a Picker and what it says arrive as what they are.
THEOREM PickerIoSafetyHolds == ServicesSpec => []PickerIoSafety
<1>1. MessageSafety /\ OutputSafety => PickerIoSafety
  BY DEF PickerIoSafety
<1> QED BY <1>1, PartSpecs, MessageSafetyHolds, OutputSafetyHolds, PTL

\* Who decides from stored state gets what it says: a spawn sees the pause, a
\* delta misses nothing, a quota is not shown better than it is.
THEOREM ReadersSafetyHolds == ServicesSpec => []ReadersSafety
<1>1. PauseHolds /\ DeltaNeverMisses /\ QuotaSafety => ReadersSafety
  BY DEF ReadersSafety
<1> QED BY <1>1, PartSpecs, PauseHoldsAlways, DeltaNeverMissesHolds,
           QuotaSafetyHolds, PTL

\* No step fetches twice in a window, takes a message's status back in the
\* outbox or moves the routing manifest without the lock.
THEOREM ServicesStepsHold == ServicesSpec => ServicesSteps
BY PartSpecs, FetchOncePerWindowHolds, ShownOnlyGrowsHolds,
   ManifestMovesLockedHolds, PTL
   DEF ServicesSteps
==============================================================================
