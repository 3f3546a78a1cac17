---------------------------- MODULE DaemonsProofs ----------------------------
(***************************************************************************)
(* Theorems about the daemons that watch something and the services that   *)
(* bring text in from outside, in the run that holds them with the other   *)
(* components of MCDaemons.  Each part has an inductive invariant of its   *)
(* own over its own variables, here, in ToolsProofs or in DeploysProofs;   *)
(* PartSteps says that a step of the run is a step of each part or leaves  *)
(* it as it is, so that the invariants hold of the run, and the theorems   *)
(* at the end follow from them.                                            *)
(***************************************************************************)
EXTENDS MCDaemons, DeploysProofs

LEMMA PartSteps ==
  ASSUME [DaemonsNext]_daemonVars
  PROVE  /\ [SearchNext]_searchVars /\ [CrawlNext]_crawlVars /\ [ResearchNext]_researchVars
         /\ [ClockNext \/ HarnessNext \/ SkillNext]_watchVars
         /\ [NtfyNext]_ntfyVars /\ [StallNext]_stallVars /\ [TrunkNext]_trunkVars
         /\ [WriteNext]_writeVars /\ [PrSyncNext]_prSyncVars
         /\ [SkillWatchNext]_skillWatchVars /\ [EvolveNext]_evolveVars
         /\ [Next]_vars /\ [DeployNext]_deployVars /\ [StreamNext]_streamVars
         /\ [PreCheckNext]_preCheckVars /\ [WorldNext]_worldVars
         /\ [ReviewNext]_reviewVars /\ [GraphNext]_graphVars
<1>1. CASE UNCHANGED daemonVars
  BY <1>1 DEF daemonVars
<1>2. CASE DaemonsNext
  BY <1>2 DEF DaemonsNext, Only
<1> QED BY <1>1, <1>2

-----------------------------------------------------------------------------
(***************************************************************************)
(* The search of the web.                                                  *)
(***************************************************************************)
Configured ==
  [mode: {"auto", "brave", "searxng", "linkup"},
   has: {{"brave"} \union b : b \in SUBSET {"searxng", "linkup"}}]

SearchCalls ==
  [at : {"idle", "refused"}] \union
  [at : {"refused", "cooldown", "calling", "telling", "answered", "failed"},
   intent : Intents, backend : {"brave", "searxng", "linkup", "unavailable"}, start : 1..MaxClock]

\* A cooldown that a failure has set is there until a later call has ended.
SearchInv ==
  /\ clock \in 1..MaxClock /\ brave \in 0..(MaxClock + CooldownSecs) /\ heard \subseteq Searches
  /\ search \in [Searches -> SearchCalls] /\ configured \in Configured
  /\ ~lastBrave.ok => brave = lastBrave.start + CooldownSecs /\ lastBrave.start \in 1..MaxClock
  /\ SearchSafety

LEMMA SearchInvImplies == SearchInv => SearchTypeOK /\ SearchSafety
<1>1. ASSUME SearchInv, NEW s \in Searches
      PROVE  /\ search[s].at \in {"idle", "refused", "cooldown", "calling", "telling",
                                 "answered", "failed"}
             /\ InFlight(s) => search[s].start \in 1..MaxClock
  <2>1. search[s] \in SearchCalls
    BY <1>1 DEF SearchInv
  <2> QED
    BY <2>1 DEF SearchCalls, InFlight
<1> QED
  BY <1>1 DEF SearchInv, SearchTypeOK

LEMMA SearchInvInductive ==
  /\ SearchInit => SearchInv
  /\ SearchInv /\ [SearchNext]_searchVars => SearchInv'
<1>1. SearchInit => SearchInv
  <2> SUFFICES ASSUME SearchInit PROVE SearchInv
    OBVIOUS
  <2>1. search \in [Searches -> SearchCalls]
    BY DEF SearchInit, SearchCalls
  <2>2. SearchSafety
    BY DEF SearchInit, SearchSafety, InFlight
  <2> QED BY <2>1, <2>2, SearchAssumption DEF SearchInit, SearchInv, Configured
<1>2. ASSUME SearchInv, [SearchNext]_searchVars PROVE SearchInv'
  <2>0. /\ clock \in 1..MaxClock /\ brave \in 0..(MaxClock + CooldownSecs) /\ heard \subseteq Searches
        /\ search \in [Searches -> SearchCalls]
        /\ \A s \in Searches : InFlight(s) => search[s] \in
                 [at : {"refused", "cooldown", "calling", "telling", "answered", "failed"},
                  intent : Intents, backend : {"brave", "searxng", "linkup", "unavailable"},
                  start : 1..MaxClock]
    BY <1>2 DEF SearchInv, SearchCalls, InFlight
  <2> DEFINE Puts(s, a) == search' = [search EXCEPT ![s].at = a]
  <2>1. ASSUME NEW s \in Searches, NEW a \in {"telling", "answered", "failed"}, InFlight(s), Puts(s, a)
        PROVE  /\ search' \in [Searches -> SearchCalls]
               /\ search'[s].at = a /\ search'[s].backend = search[s].backend
               /\ search'[s].intent = search[s].intent
               /\ \A q \in Searches : q # s => search'[q] = search[q]
    <3> DEFINE r == [search[s] EXCEPT !.at = a]
    <3>1. r \in SearchCalls /\ r.at = a /\ r.backend = search[s].backend /\ r.intent = search[s].intent
      BY <2>0, <2>1 DEF SearchCalls
    <3>2. search' = [search EXCEPT ![s] = r]
      BY <2>1
    <3> HIDE DEF r
    <3> QED BY <2>0, <3>1, <3>2
  <2> HIDE DEF Puts
  <2>2. ASSUME NEW s \in Searches, RefuseSearch(s) PROVE SearchInv'
    <3>1. search' = [search EXCEPT ![s] = [at |-> "refused"]]
          /\ UNCHANGED <<clock, brave, configured, lastBrave, heard>>
      BY <2>2 DEF RefuseSearch
    <3>2. search' \in [Searches -> SearchCalls] /\ search'[s].at = "refused"
          /\ \A q \in Searches : q # s => search'[q] = search[q]
      BY <2>0, <3>1 DEF SearchCalls
    <3>3. SearchSafety'
      BY <1>2, <3>1, <3>2 DEF SearchInv, SearchSafety, InFlight
    <3> QED BY <1>2, <3>1, <3>2, <3>3 DEF SearchInv
  <2>3. ASSUME NEW s \in Searches, BeginSearch(s) PROVE SearchInv'
    <3>1. PICK intent \in Intents : 
             LET backend == SelectBackend(intent)
             IN search' = [search EXCEPT ![s] =
            [at |-> IF backend = "unavailable" THEN "refused"
                    ELSE IF backend = "brave" /\ InCooldown THEN "cooldown" ELSE "calling",
             intent |-> intent, backend |-> backend, start |-> clock]]
      BY <2>3 DEF BeginSearch
    <3> DEFINE b == SelectBackend(intent)
               a == IF b = "unavailable" THEN "refused"
                    ELSE IF b = "brave" /\ InCooldown THEN "cooldown" ELSE "calling"
               r == [at |-> a, intent |-> intent, backend |-> b, start |-> clock]
    <3>2. b \in {"brave", "searxng", "linkup", "unavailable"}
          /\ b \in {"unavailable"} \union
                  (IF configured.mode # "auto" THEN {configured.mode}
                   ELSE IF intent = "privacy" THEN {"searxng"} ELSE configured.has)
      BY <1>2 DEF SelectBackend, Wanted, SearchInv, Configured
    <3>3. a \in {"refused", "cooldown", "calling"} /\ (b = "unavailable" => a = "refused")
      OBVIOUS
    <3> HIDE DEF a, b
    <3>4. r \in SearchCalls /\ r.at = a /\ r.backend = b /\ r.intent = intent
      BY <2>0, <3>2, <3>3 DEF SearchCalls
    <3>5. search' = [search EXCEPT ![s] = r]
      BY <3>1 DEF a, b
    <3> HIDE DEF r
    <3>6. search' \in [Searches -> SearchCalls] /\ search'[s] = r
          /\ \A q \in Searches : q # s => search'[q] = search[q]
      BY <2>0, <3>4, <3>5
    <3>7. UNCHANGED <<clock, brave, configured, lastBrave, heard>>
      BY <2>3 DEF BeginSearch
    <3>8. SearchSafety'
      BY <1>2, <3>2, <3>3, <3>4, <3>6, <3>7 DEF SearchInv, SearchSafety, InFlight
    <3> QED BY <1>2, <3>6, <3>7, <3>8 DEF SearchInv
  <2>4. ASSUME NEW s \in Searches, BackendAnswers(s) PROVE SearchInv'
    <3>1. InFlight(s) /\ Puts(s, "telling") /\ UNCHANGED <<clock, heard, configured>>
          /\ \/ UNCHANGED <<brave, lastBrave>>
             \/ brave' = 0 /\ lastBrave'.ok
      BY <2>4 DEF BackendAnswers, InFlight, Puts
    <3>2. /\ search' \in [Searches -> SearchCalls]
          /\ search'[s].at = "telling" /\ search'[s].backend = search[s].backend
          /\ search'[s].intent = search[s].intent
          /\ \A q \in Searches : q # s => search'[q] = search[q]
      BY <2>1, <3>1
    <3>3. SearchSafety'
      BY <1>2, <3>1, <3>2 DEF SearchInv, SearchSafety, InFlight
    <3> QED BY <1>2, <3>1, <3>2, <3>3, SearchAssumption DEF SearchInv
  <2>5. ASSUME NEW s \in Searches, BackendFails(s) PROVE SearchInv'
    <3>1. InFlight(s) /\ Puts(s, "failed") /\ UNCHANGED <<clock, heard, configured>>
          /\ \/ UNCHANGED <<brave, lastBrave>>
             \/ brave' = search[s].start + CooldownSecs /\ lastBrave' = [ok |-> FALSE, start |-> search[s].start]
      BY <2>5 DEF BackendFails, InFlight, Puts, SetCooldown
    <3>2. /\ search' \in [Searches -> SearchCalls]
          /\ search'[s].at = "failed" /\ search'[s].backend = search[s].backend
          /\ search'[s].intent = search[s].intent
          /\ \A q \in Searches : q # s => search'[q] = search[q]
      BY <2>1, <3>1
    <3>3. SearchSafety'
      BY <1>2, <3>1, <3>2 DEF SearchInv, SearchSafety, InFlight
    <3>4. search[s].start \in 1..MaxClock
      BY <2>0, <3>1
    <3> QED BY <1>2, <3>1, <3>2, <3>3, <3>4, SearchAssumption DEF SearchInv
  <2>6. ASSUME NEW s \in Searches, TellSearch(s) PROVE SearchInv'
    <3>1. PICK ok \in BOOLEAN :
             /\ heard' = IF ok THEN heard \union {s} ELSE heard
             /\ search' = [search EXCEPT ![s].at = IF ok THEN "answered" ELSE "failed"]
      BY <2>6 DEF TellSearch
    <3> DEFINE a == IF ok THEN "answered" ELSE "failed"
    <3>2. a \in {"answered", "failed"} /\ Puts(s, a) /\ (a = "answered" => s \in heard')
          /\ heard \subseteq heard' /\ heard' \subseteq Searches
      BY <2>0, <3>1 DEF Puts
    <3>3. InFlight(s) /\ UNCHANGED <<clock, brave, lastBrave, configured>>
      BY <2>6 DEF TellSearch, InFlight
    <3> HIDE DEF a
    <3>4. /\ search' \in [Searches -> SearchCalls]
          /\ search'[s].at = a /\ search'[s].backend = search[s].backend
          /\ search'[s].intent = search[s].intent
          /\ \A q \in Searches : q # s => search'[q] = search[q]
      BY <2>1, <3>2, <3>3
    <3>5. SearchSafety'
      BY <1>2, <3>2, <3>3, <3>4 DEF SearchInv, SearchSafety, InFlight
    <3> QED BY <1>2, <3>2, <3>3, <3>4, <3>5 DEF SearchInv
  <2>7. CASE SearchTick
    <3>1. UNCHANGED <<brave, search, lastBrave, heard, configured>> /\ clock' \in 1..MaxClock
      BY <2>0, <2>7, SearchAssumption DEF SearchTick
    <3>2. SearchSafety'
      BY <1>2, <3>1 DEF SearchInv, SearchSafety, InFlight
    <3> QED BY <1>2, <3>1, <3>2 DEF SearchInv
  <2>8. CASE SearchRestart
    <3>1. UNCHANGED <<clock, heard, configured>> /\ brave' = 0 /\ lastBrave'.ok
      BY <2>8 DEF SearchRestart
    <3>2. search' = [s \in Searches |->
             IF InFlight(s) THEN [search[s] EXCEPT !.at = "failed"] ELSE search[s]]
      BY <2>8 DEF SearchRestart
    <3>3. ASSUME NEW s \in Searches
          PROVE  /\ search'[s] \in SearchCalls
                 /\ (search'[s] = search[s] /\ ~InFlight(s)) \/ search'[s].at = "failed"
      <4>1. CASE InFlight(s)
        BY <2>0, <3>2, <4>1 DEF SearchCalls
      <4>2. CASE ~InFlight(s)
        BY <2>0, <3>2, <4>2
      <4> QED BY <4>1, <4>2
    <3>4. search' \in [Searches -> SearchCalls]
      BY <3>2, <3>3
    <3>5. SearchSafety'
      BY <1>2, <3>1, <3>3 DEF SearchInv, SearchSafety, InFlight
    <3> QED BY <1>2, <3>1, <3>4, <3>5, SearchAssumption DEF SearchInv
  <2>9. CASE UNCHANGED searchVars
    <3>1. SearchSafety'
      BY <1>2, <2>9 DEF SearchInv, SearchSafety, InFlight, searchVars
    <3> QED BY <1>2, <2>9, <3>1 DEF SearchInv, searchVars
  <2> QED BY <1>2, <2>2, <2>3, <2>4, <2>5, <2>6, <2>7, <2>8, <2>9 DEF SearchNext
<1> QED BY <1>1, <1>2

LEMMA CooldownStep ==
  ASSUME SearchInv, [SearchNext]_searchVars,
         NEW s \in Searches, search[s].at = "idle", search'[s].at = "calling",
         search'[s].backend = "brave"
  PROVE  lastBrave.ok \/ clock >= lastBrave.start + CooldownSecs
<1>1. search \in [Searches -> SearchCalls] /\ brave \in Int /\ clock \in Int
      /\ (~lastBrave.ok => brave = lastBrave.start + CooldownSecs)
  BY SearchAssumption DEF SearchInv
<1>2. ~(brave > clock) => lastBrave.ok \/ clock >= lastBrave.start + CooldownSecs
  BY <1>1
<1>4. ASSUME NEW q \in Searches, BackendAnswers(q) \/ BackendFails(q) \/ TellSearch(q)
      PROVE  FALSE
  <2>1. search[q].at # "idle" 
    BY <1>4 DEF BackendAnswers, BackendFails, TellSearch
  <2>2. s # q
    BY <1>4, <1>1 DEF BackendAnswers, BackendFails, TellSearch
  <2> QED BY <1>4, <1>1, <2>1, <2>2 DEF BackendAnswers, BackendFails, TellSearch
<1>5. ASSUME NEW q \in Searches, RefuseSearch(q) PROVE FALSE
  BY <1>5, <1>1 DEF RefuseSearch
<1>6. ASSUME SearchTick \/ UNCHANGED searchVars PROVE FALSE
  BY <1>6 DEF SearchTick, searchVars
<1>7. ASSUME SearchRestart PROVE FALSE
  BY <1>7, <1>1 DEF SearchRestart, InFlight
<1>8. ASSUME NEW q \in Searches, BeginSearch(q) PROVE ~(brave > clock)
  <2>1. s = q
    BY <1>8, <1>1 DEF BeginSearch
  <2> QED BY <1>8, <1>1, <2>1 DEF BeginSearch, InCooldown
<1> QED BY <1>2, <1>4, <1>5, <1>6, <1>7, <1>8 DEF SearchNext

-----------------------------------------------------------------------------
(***************************************************************************)
(* The watchers of the clock, of the harness and of dead ends.             *)
(***************************************************************************)
Readings == [ntp : {"yes", "no", "missing"}, system : {"yes", "no", "missing"}]

\* What the clock watcher saw, and with it why it tells it or passes it over.
ClockInv ==
  /\ synced \in Readings
  /\ clockSaw \in [at : {"waiting", "down"}] \union
                  [at : {"down", "telling", "checked", "told"}, saw : Readings]
  /\ ClockIsReal

\* While nothing has differed, pin and binary are what the check has read; what
\* differed from the first read on still does.
DriftInv ==
  /\ drift.at \in {"waiting", "version", "checksum", "telling", "matched", "down"}
  /\ drift.at \in {"version", "checksum"} =>
       /\ apart.ever \/ (lock = installed /\ drift.lock = lock)
       /\ apart.stayed => lock # installed /\ drift.lock = lock
  /\ drift.at = "checksum" => apart.ever \/ drift.version = VersionOf(drift.lock)
  /\ DriftIsReal

Implicated ==
  {s \in Skills \X SUBSET Entries : Cardinality(s[2]) >= Threshold}

\* What was published is remembered, so what is new differs from all of it.
SuspectInv ==
  /\ entries \subseteq Entries
  /\ suspicion \in [at : {"waiting", "telling"}, pending : SUBSET Implicated,
                    emitted : SUBSET Implicated]
  /\ suspected \in Seq(suspicion.emitted)
  /\ \A i, j \in DOMAIN suspected : suspected[i] = suspected[j] => i = j

WatchInv == ClockInv /\ DriftInv /\ SuspectInv

LEMMA ClockInvKept == ASSUME ClockInv, ClockNext PROVE ClockInv'
<1> USE DEF ClockInv, ClockIsReal, Readings
<1>1. CASE ClockMoves
  BY <1>1 DEF ClockMoves
<1>2. CASE CheckClock
  BY <1>2 DEF CheckClock, Unsynced
<1>3. CASE TellClock
  BY <1>3 DEF TellClock
<1>4. CASE NextClockTick
  BY <1>4 DEF NextClockTick
<1> QED BY <1>1, <1>2, <1>3, <1>4 DEF ClockNext

LEMMA DriftInvKept == ASSUME DriftInv, HarnessNext PROVE DriftInv'
<1> USE DEF DriftInv, DriftIsReal
<1>1. CASE MoveHarness
  BY <1>1 DEF MoveHarness
<1>2. CASE ReadLockfile
  <2>1. (apart'.ever <=> lock # installed) /\ (apart'.stayed <=> lock # installed)
    BY <1>2, Zenon DEF ReadLockfile
  <2>2. lock' = lock /\ installed' = installed
        /\ (drift' = [at |-> "version", lock |-> lock] \/ drift' = [at |-> "down"])
    BY <1>2 DEF ReadLockfile
  <2> QED BY <2>1, <2>2
<1>3. CASE ReadVersion
  BY <1>3 DEF ReadVersion
<1>4. CASE ReadChecksum
  BY <1>4 DEF ReadChecksum, Drifted
<1>5. CASE TellDrift
  BY <1>5 DEF TellDrift
<1>6. CASE NextHarnessTick
  BY <1>6 DEF NextHarnessTick
<1> QED BY <1>1, <1>2, <1>3, <1>4, <1>5, <1>6 DEF HarnessNext

LEMMA SuspectInvKept == ASSUME SuspectInv, SkillNext PROVE SuspectInv'
<1> DEFINE Shapes(r) == r \in [at : {"waiting", "telling"}, pending : SUBSET Implicated,
                               emitted : SUBSET Implicated]
<1>0. ASSUME suspicion' = Restarted, suspected' = <<>>, entries' = entries
      PROVE  SuspectInv'
  BY <1>0 DEF SuspectInv, Restarted
<1>1. CASE DeadEndsMove
  BY <1>1 DEF DeadEndsMove, SuspectInv
<1>2. CASE SearchDeadEnds
  <2>1. ASSUME NEW hits \in SUBSET entries,
               suspicion' = [suspicion EXCEPT !.at = "telling", !.pending = Suspicions(hits)],
               UNCHANGED <<entries, suspected>>
        PROVE  SuspectInv'
    <3>0. hits \subseteq Entries
      BY <2>1 DEF SuspectInv
    <3>1. ASSUME NEW s \in Suspicions(hits) PROVE s \in Implicated
      <4>1. PICK skill \in Skills : /\ Cardinality(Implicating(hits, skill)) >= Threshold
                                    /\ s = <<skill, Implicating(hits, skill)>>
        BY DEF Suspicions
      <4>2. Implicating(hits, skill) \in SUBSET Entries
        BY <3>0 DEF Implicating
      <4> QED BY <4>1, <4>2 DEF Implicated
    <3>2. suspicion'.emitted = suspicion.emitted /\ Shapes(suspicion')
      BY <2>1, <3>1 DEF SuspectInv
    <3> QED BY <2>1, <3>2 DEF SuspectInv
  <2> QED BY <1>0, <1>2, <2>1 DEF SearchDeadEnds
<1>3. CASE TellSuspicion
  <2>1. PICK next \in suspicion.pending :
          LET rest == [suspicion EXCEPT !.pending = @ \ {next}, !.emitted = @ \union {next}]
          IN IF IsNew(next)
               THEN \/ suspicion' = rest /\ suspected' = Append(suspected, next)
                    \/ suspicion' = Restarted /\ suspected' = <<>>
               ELSE suspicion' = rest /\ UNCHANGED suspected
    BY <1>3 DEF TellSuspicion
  <2>2. entries' = entries
    BY <1>3 DEF TellSuspicion
  <2> DEFINE p == suspicion.pending \ {next}
             e == suspicion.emitted \union {next}
             rest == [suspicion EXCEPT !.pending = p, !.emitted = e]
  <2>3. p \in SUBSET Implicated /\ e \in SUBSET Implicated /\ next \in Implicated
        /\ suspicion.emitted \subseteq e /\ next \in e
    BY DEF SuspectInv
  <2>4. Shapes(rest) /\ rest.emitted = e
    <3> HIDE DEF p, e
    <3> QED BY <2>3 DEF SuspectInv
  <2>5. suspected \in Seq(e) /\ \A i \in DOMAIN suspected : suspected[i] \in suspicion.emitted
    BY <2>3 DEF SuspectInv
  <2>6. CASE IsNew(next) /\ suspicion' = rest /\ suspected' = Append(suspected, next)
    <3> HIDE DEF rest, e, p
    <3>1. \A i \in DOMAIN suspected : suspected[i] # next
      BY <2>5, <2>6 DEF IsNew
    <3>2. suspected' \in Seq(e) /\ DOMAIN suspected' = 1..(Len(suspected) + 1)
          /\ \A i \in DOMAIN suspected : suspected'[i] = suspected[i]
          /\ suspected'[Len(suspected) + 1] = next /\ DOMAIN suspected = 1..Len(suspected)
          /\ Len(suspected) \in Nat
      BY <2>3, <2>5, <2>6
    <3>3. \A i, j \in DOMAIN suspected' : suspected'[i] = suspected'[j] => i = j
      BY <3>1, <3>2 DEF SuspectInv
    <3> QED BY <2>2, <2>4, <2>6, <3>2, <3>3 DEF SuspectInv
  <2>7. CASE suspicion' = rest /\ UNCHANGED suspected
    <3> HIDE DEF rest, e, p
    <3> QED BY <2>2, <2>4, <2>5, <2>7 DEF SuspectInv
  <2>8. CASE suspicion' = Restarted /\ suspected' = <<>>
    BY <1>0, <2>2, <2>8
  <2> QED BY <2>1, <2>6, <2>7, <2>8
<1>4. CASE NextSkillTick
  BY <1>4 DEF NextSkillTick, SuspectInv
<1> QED BY <1>1, <1>2, <1>3, <1>4 DEF SkillNext

LEMMA WatchInvInductive ==
  /\ WatchInit => WatchInv
  /\ WatchInv /\ [ClockNext \/ HarnessNext \/ SkillNext]_watchVars => WatchInv'
<1>1. WatchInit => WatchInv
  <2> SUFFICES ASSUME WatchInit PROVE WatchInv
    OBVIOUS
  <2>1. ClockInv
    BY DEF WatchInit, ClockInv, ClockIsReal, Readings
  <2>2. DriftInv
    BY DEF WatchInit, DriftInv, DriftIsReal
  <2>3. SuspectInv
    BY DEF WatchInit, SuspectInv, Restarted
  <2> QED BY <2>1, <2>2, <2>3 DEF WatchInv
<1>2. ASSUME ClockInv, UNCHANGED clockVars PROVE ClockInv'
  BY <1>2 DEF ClockInv, ClockIsReal, clockVars
<1>3. ASSUME DriftInv, UNCHANGED driftVars PROVE DriftInv'
  BY <1>3 DEF DriftInv, DriftIsReal, driftVars
<1>4. ASSUME SuspectInv, UNCHANGED skillVars PROVE SuspectInv'
  BY <1>4 DEF SuspectInv, skillVars
<1>5. ClockNext => UNCHANGED <<driftVars, skillVars>>
  BY DEF ClockNext, ClockMoves, CheckClock, TellClock, NextClockTick
<1>6. HarnessNext => UNCHANGED <<clockVars, skillVars>>
  BY DEF HarnessNext, MoveHarness, ReadLockfile, ReadVersion, ReadChecksum,
     TellDrift,
         NextHarnessTick
<1>7. SkillNext => UNCHANGED <<clockVars, driftVars>>
  BY DEF SkillNext, DeadEndsMove, SearchDeadEnds, TellSuspicion, NextSkillTick
<1>8. UNCHANGED watchVars => UNCHANGED <<clockVars, driftVars, skillVars>>
  BY DEF watchVars
<1> QED BY <1>1, <1>2, <1>3, <1>4, <1>5, <1>6, <1>7, <1>8, ClockInvKept,
           DriftInvKept,
           SuspectInvKept DEF WatchInv

LEMMA WatchInvImplies ==
  WatchInv => WatchTypeOK /\ ClockIsReal /\ DriftIsReal /\ SuspectedOnce
<1> SUFFICES ASSUME WatchInv PROVE WatchTypeOK /\ SuspectedOnce
  BY DEF WatchInv, ClockInv, DriftInv
<1>1. WatchTypeOK
  BY DEF WatchInv, ClockInv, DriftInv, SuspectInv, WatchTypeOK
<1>2. \A i \in DOMAIN suspected : suspected[i] \in Implicated
  BY DEF WatchInv, SuspectInv
<1> QED BY <1>1, <1>2 DEF WatchInv, SuspectInv, SuspectedOnce, Implicated

-----------------------------------------------------------------------------
(***************************************************************************)
(* The bridge to the phone.                                                *)
(***************************************************************************)
Bridges == [at : {"waiting", "sending"}, topic : InstallIds, inbox : Seq(Nat), tries : Nat]
Posts == [n : Nat, topic : InstallIds]

\* The topic is the configured one, or the one in the file, which once there is
\* never drawn again; what waits is newer than what the phone has, and in order.
Topic == IF ownTopic = "none" THEN installFile ELSE ownTopic

PhoneInv ==
  /\ phone \in Seq(Posts)
  /\ \A i \in DOMAIN phone : phone[i].topic = Topic /\ phone[i].n <= notified
  /\ \A i, j \in DOMAIN phone : i < j => phone[i].n < phone[j].n

InboxInv ==
  /\ \A k \in DOMAIN bridge.inbox : bridge.inbox[k] <= notified
  /\ \A k, l \in DOMAIN bridge.inbox : k < l => bridge.inbox[k] < bridge.inbox[l]
  /\ \A i \in DOMAIN phone, k \in DOMAIN bridge.inbox : phone[i].n < bridge.inbox[k]

NtfyInv ==
  /\ ownTopic \in InstallIds \union {"none"}
  /\ installFile \in InstallIds \union {"missing", "empty"}
  /\ notified \in Nat /\ notified <= MaxNotified
  /\ PhoneInv
  /\ \/ bridge = Down
     \/ /\ bridge \in Bridges /\ bridge.topic = Topic /\ InboxInv
        /\ bridge.at = "sending" => bridge.inbox # <<>>

LEMMA NtfyStarts == NtfyInit => NtfyInv
BY NtfyAssumption DEF NtfyInit, NtfyInv, PhoneInv, Down

LEMMA TopicRests == ASSUME UNCHANGED <<ownTopic, installFile>> PROVE Topic' = Topic
BY DEF Topic

LEMMA NtfyInvImplies == NtfyInv => NtfyTypeOK /\ NotifiedOnce
<1>1. NtfyInv => NtfyTypeOK
  BY NtfyAssumption DEF NtfyInv, NtfyTypeOK, Down, Bridges
<1>2. NtfyInv => NotifiedOnce
  BY DEF NtfyInv, NotifiedOnce, PhoneInv
<1> QED BY <1>1, <1>2

LEMMA NtfyStartKept == ASSUME NtfyInv, StartNtfy, UNCHANGED ownTopic PROVE NtfyInv'
<1>0. /\ {"missing", "empty", "none"} \cap InstallIds = {}
      /\ bridge.at = "down" /\ bridge = Down /\ UNCHANGED <<ownTopic, notified, phone>>
      /\ "missing" \notin InstallIds /\ "empty" \notin InstallIds /\ "none" \notin InstallIds
  BY NtfyAssumption DEF StartNtfy, NtfyInv, Bridges
<1>00. PhoneInv /\ \A i \in DOMAIN phone : phone[i].topic \in InstallIds
  <2>1. phone \in Seq(Posts) /\ PhoneInv
    BY DEF NtfyInv, PhoneInv
  <2>2. \A i \in DOMAIN phone : phone[i] \in Posts
    BY <2>1
  <2> QED BY <2>1, <2>2 DEF Posts
<1>1. ASSUME NEW id \in InstallIds, bridge' = Idle(id, <<>>), Topic' = id,
             installFile' \in InstallIds \union {"missing", "empty"},
             Topic \in {"missing", id}
      PROVE  NtfyInv'
  <2>1. bridge' \in Bridges /\ bridge'.topic = id /\ bridge'.inbox = <<>>
        /\ bridge'.at = "waiting"
    BY <1>1 DEF Idle, Bridges
  <2>2. InboxInv'
    BY <2>1 DEF InboxInv
  <2>3. PhoneInv'
    BY <1>0, <1>00, <1>1 DEF PhoneInv
  <2> QED BY <1>0, <1>1, <2>1, <2>2, <2>3 DEF NtfyInv
<1>2. CASE ownTopic # "none"
  <2>1. ownTopic \in InstallIds /\ bridge' = Idle(ownTopic, <<>>) /\ UNCHANGED installFile
    BY <1>2 DEF StartNtfy, NtfyInv
  <2>2. Topic' = ownTopic /\ Topic = ownTopic
    BY <1>0, <1>2 DEF Topic
  <2> QED BY <1>1, <2>1, <2>2 DEF NtfyInv
<1>3. CASE ownTopic = "none" /\ installFile \in InstallIds
  <2>1. bridge' = Idle(installFile, <<>>) /\ UNCHANGED installFile
    BY <1>0, <1>3 DEF StartNtfy
  <2>2. Topic' = installFile /\ Topic = installFile
    BY <1>0, <1>3, <2>1 DEF Topic
  <2> QED BY <1>1, <1>3, <2>1, <2>2
<1>4. CASE ownTopic = "none" /\ installFile = "missing"
  <2>1. \A i \in DOMAIN phone : FALSE
    BY <1>0, <1>00, <1>4 DEF PhoneInv, Topic
  <2>2. ASSUME NEW id \in InstallIds, installFile' = id, bridge' = Idle(id, <<>>)
        PROVE  NtfyInv'
    <3>1. Topic' = id /\ Topic = "missing"
      BY <1>0, <1>4, <2>2 DEF Topic
    <3> QED BY <1>1, <2>2, <3>1
  <2>3. ASSUME installFile' = "empty", UNCHANGED bridge
        PROVE  NtfyInv'
    <3>1. PhoneInv'
      BY <1>0, <1>00, <2>1 DEF PhoneInv
    <3> QED BY <1>0, <2>3, <3>1 DEF NtfyInv
  <2> QED BY <1>0, <1>4, <2>2, <2>3 DEF StartNtfy
<1> QED BY <1>2, <1>3, <1>4 DEF StartNtfy

LEMMA NtfyPublishKept == ASSUME NtfyInv, PublishNotify, UNCHANGED ownTopic PROVE NtfyInv'
<1>1. notified' = notified + 1 /\ notified' <= MaxNotified /\ notified \in Nat
      /\ notified' \in Nat /\ UNCHANGED <<ownTopic, installFile, phone>> /\ Topic' = Topic
  BY NtfyAssumption, TopicRests DEF PublishNotify, NtfyInv
<1>2. PhoneInv /\ \A i \in DOMAIN phone : phone[i].n \in Nat
  <2>1. phone \in Seq(Posts) /\ PhoneInv
    BY DEF NtfyInv, PhoneInv
  <2>2. \A i \in DOMAIN phone : phone[i] \in Posts
    BY <2>1
  <2> QED BY <2>1, <2>2 DEF Posts
<1>3. PhoneInv'
  BY <1>1, <1>2 DEF PhoneInv
<1>4. CASE bridge = Down
  BY <1>1, <1>3, <1>4 DEF NtfyInv, PublishNotify, Down
<1>5. CASE bridge # Down
  <2>1. bridge \in Bridges /\ bridge.topic = Topic /\ InboxInv
        /\ bridge.at # "down"
    BY <1>5 DEF NtfyInv, Bridges
  <2> DEFINE old  == bridge.inbox
             more == Append(old, notified + 1)
  <2>2. old \in Seq(Nat)
    BY <2>1 DEF Bridges
  <2>3. bridge' = [bridge EXCEPT !.inbox = more]
    BY <2>1 DEF PublishNotify
  <2>4. more \in Seq(Nat) /\ DOMAIN more = 1..(Len(old) + 1)
        /\ Len(old) \in Nat /\ DOMAIN old = 1..Len(old)
        /\ (\A k \in DOMAIN old : more[k] = old[k] /\ old[k] \in Nat)
        /\ more[Len(old) + 1] = notified + 1 /\ more # <<>>
    BY <1>1, <2>2
  <2> HIDE DEF more
  <2>5. bridge' \in Bridges /\ bridge'.inbox = more /\ bridge'.topic = bridge.topic
    BY <2>1, <2>3, <2>4 DEF Bridges
  <2>6. \A k \in DOMAIN old : old[k] <= notified
    BY <2>1 DEF InboxInv
  <2>7. \A k, l \in DOMAIN old : k < l => old[k] < old[l]
    BY <2>1 DEF InboxInv
  <2>8. \A i \in DOMAIN phone, k \in DOMAIN old : phone[i].n < old[k]
    BY <2>1 DEF InboxInv
  <2>9. \A i \in DOMAIN phone : phone[i].n < notified + 1
    BY <1>1, <1>2 DEF PhoneInv
  <2> HIDE DEF old
  <2>10. \A k \in DOMAIN more : more[k] <= notified + 1
    BY <1>1, <2>4, <2>6
  <2>11. \A k, l \in DOMAIN more : k < l => more[k] < more[l]
    BY <1>1, <2>4, <2>6, <2>7
  <2>12. \A i \in DOMAIN phone, k \in DOMAIN more : phone[i].n < more[k]
    BY <1>1, <2>4, <2>8, <2>9
  <2>13. InboxInv'
    BY <1>1, <2>5, <2>10, <2>11, <2>12 DEF InboxInv
  <2> QED BY <1>1, <1>3, <2>1, <2>4, <2>5, <2>13 DEF NtfyInv
<1> QED BY <1>4, <1>5

\* A message is taken off the inbox, and the phone has it or not.
LEMMA NtfyTakenKept ==
  ASSUME NtfyInv, bridge \in Bridges, bridge.inbox # <<>>,
         bridge' \in Bridges, bridge'.at = "waiting", bridge'.topic = bridge.topic,
         bridge'.inbox = Tail(bridge.inbox), phone' = phone \/ phone' = Append(phone, Posted),
         UNCHANGED <<ownTopic, installFile, notified>>
  PROVE  NtfyInv'
<1> DEFINE old  == bridge.inbox
           rest == bridge'.inbox
<1>1. bridge.topic = Topic /\ InboxInv /\ PhoneInv /\ Topic' = Topic
  BY TopicRests DEF NtfyInv, Bridges, Down
<1>2. old \in Seq(Nat) /\ old # <<>> /\ rest = Tail(old)
  BY DEF Bridges
<1>3. /\ Len(old) \in Nat /\ 1 \in DOMAIN old /\ DOMAIN old = 1..Len(old)
      /\ DOMAIN rest = 1..(Len(old) - 1)
      /\ Head(old) = old[1] /\ \A k \in DOMAIN old : old[k] \in Nat
  BY <1>2
<1>4. \A k \in DOMAIN rest : rest[k] = old[k + 1] /\ k + 1 \in DOMAIN old /\ k \in Nat
  BY <1>2, <1>3
<1>5. \A k \in DOMAIN old : old[k] <= notified
  BY <1>1 DEF InboxInv
<1>6. \A k, l \in DOMAIN old : k < l => old[k] < old[l]
  BY <1>1 DEF InboxInv
<1>7. \A i \in DOMAIN phone, k \in DOMAIN old : phone[i].n < old[k]
  BY <1>1 DEF InboxInv
<1>8. \A k \in DOMAIN rest : rest[k] <= notified
  BY <1>4, <1>5
<1>9. \A k, l \in DOMAIN rest : k < l => rest[k] < rest[l]
  <2> HIDE DEF old, rest
  <2> QED BY <1>4, <1>6
<1>10. \A k \in DOMAIN rest : old[1] < rest[k]
  <2> HIDE DEF old, rest
  <2>1. \A k \in DOMAIN rest : 1 < k + 1
    BY <1>3
  <2> QED BY <1>3, <1>4, <1>6, <2>1
<1>11. Posted.n = old[1] /\ Posted.topic = Topic /\ old[1] \in Nat
       /\ Posted \in Posts
  BY <1>1, <1>3 DEF Posted, Posts, Bridges
<1>12. CASE phone' = phone
  <2>1. \A i \in DOMAIN phone, k \in DOMAIN rest : phone[i].n < rest[k]
    BY <1>4, <1>7
  <2>2. InboxInv' /\ PhoneInv'
    BY <1>1, <1>8, <1>9, <1>12, <2>1 DEF InboxInv, PhoneInv
  <2> QED BY <1>1, <2>2 DEF NtfyInv
<1>13. CASE phone' = Append(phone, Posted)
  <2>1. phone \in Seq(Posts)
    BY <1>1 DEF PhoneInv
  <2> HIDE DEF old, rest
  <2>2. /\ phone' \in Seq(Posts)
        /\ DOMAIN phone' = 1..(Len(phone) + 1) /\ DOMAIN phone = 1..Len(phone) /\ Len(phone) \in Nat
        /\ \A i \in DOMAIN phone : phone'[i] = phone[i]
        /\ phone'[Len(phone) + 1] = Posted
    BY <1>11, <1>13, <2>1
  <2>3. \A i \in DOMAIN phone' : i \in DOMAIN phone \/ i = Len(phone) + 1
    BY <2>2
  <2>4. \A i, j \in DOMAIN phone' : i < j => i \in DOMAIN phone
    BY <2>2
  <2>5. \A i \in DOMAIN phone' : phone'[i].topic = Topic /\ phone'[i].n <= notified
    BY <1>1, <1>3, <1>5, <1>11, <2>2, <2>3 DEF PhoneInv
  <2>6. \A i, j \in DOMAIN phone : i < j => phone[i].n < phone[j].n
    BY <1>1 DEF PhoneInv
  <2>7. \A i \in DOMAIN phone : phone[i].n < old[1]
    BY <1>3, <1>7
  <2>8. \A i, j \in DOMAIN phone' : i < j => phone'[i].n < phone'[j].n
    BY <1>11, <2>2, <2>3, <2>4, <2>6, <2>7
  <2>9. PhoneInv'
    BY <1>1, <2>2, <2>5, <2>8 DEF PhoneInv
  <2>10. \A i \in DOMAIN phone', k \in DOMAIN rest : phone'[i].n < rest[k]
    BY <1>4, <1>7, <1>10, <1>11, <2>2, <2>3
  <2>11. InboxInv'
    BY <1>8, <1>9, <2>10 DEF InboxInv, rest
  <2> QED BY <1>1, <2>9, <2>11 DEF NtfyInv
<1> QED BY <1>12, <1>13

LEMMA NtfyInvKept == NtfyInv /\ [NtfyNext]_ntfyVars => NtfyInv'
<1> SUFFICES ASSUME NtfyInv, [NtfyNext]_ntfyVars PROVE NtfyInv'
  OBVIOUS
<1>0. UNCHANGED ownTopic /\ (UNCHANGED installFile => Topic' = Topic)
  BY TopicRests DEF NtfyNext, ntfyVars
<1>1. CASE UNCHANGED ntfyVars
  BY <1>0, <1>1 DEF ntfyVars, NtfyInv, PhoneInv, InboxInv
<1>2. ASSUME bridge.at # "down" PROVE bridge \in Bridges /\ bridge.inbox \in Seq(Nat)
  BY <1>2 DEF NtfyInv, Down, Bridges
<1>3. CASE TakeNotify
  <2>1. bridge \in Bridges /\ bridge.inbox # <<>> /\ UNCHANGED <<installFile, notified, phone>>
        /\ bridge' = [bridge EXCEPT !.at = "sending"]
    BY <1>2, <1>3 DEF TakeNotify
  <2>2. bridge' \in Bridges /\ bridge'.topic = bridge.topic /\ bridge'.inbox = bridge.inbox
    BY <2>1 DEF Bridges
  <2> QED BY <1>0, <2>1, <2>2 DEF NtfyInv, PhoneInv, InboxInv, Down, Bridges
<1>4. CASE IgnoreNotify
  <2>1. bridge \in Bridges /\ bridge.inbox # <<>> /\ UNCHANGED <<installFile, notified, phone>>
        /\ bridge' = [bridge EXCEPT !.inbox = Tail(bridge.inbox)] /\ bridge.at = "waiting"
        /\ bridge.inbox \in Seq(Nat)
    BY <1>2, <1>4 DEF IgnoreNotify
  <2>2. bridge' \in Bridges /\ bridge'.topic = bridge.topic /\ bridge'.inbox = Tail(bridge.inbox)
        /\ bridge'.at = "waiting"
    <3>1. Tail(bridge.inbox) \in Seq(Nat)
      BY <2>1
    <3> QED BY <2>1, <3>1 DEF Bridges
  <2> QED BY <1>0, <2>1, <2>2, NtfyTakenKept
<1>5. CASE SendNtfy
  <2>1. bridge \in Bridges /\ bridge.inbox # <<>> /\ UNCHANGED <<installFile, notified>>
        /\ bridge.inbox \in Seq(Nat)
    BY <1>2, <1>5 DEF SendNtfy, NtfyInv, Down
  <2>2. ASSUME bridge' = Done(bridge), phone' = phone \/ phone' = Append(phone, Posted)
        PROVE  NtfyInv'
    <3>1. bridge' \in Bridges /\ bridge'.topic = bridge.topic
          /\ bridge'.inbox = Tail(bridge.inbox) /\ bridge'.at = "waiting"
      BY <2>1, <2>2 DEF Bridges, Done, Idle
    <3> QED BY <1>0, <2>1, <2>2, <3>1, NtfyTakenKept
  <2>3. ASSUME bridge' = [bridge EXCEPT !.tries = bridge.tries + 1], UNCHANGED phone PROVE NtfyInv'
    <3>1. bridge.tries + 1 \in Nat
      BY <2>1 DEF Bridges
    <3>2. bridge' \in Bridges /\ bridge'.at = bridge.at /\ bridge'.topic = bridge.topic
          /\ bridge'.inbox = bridge.inbox
      BY <2>1, <2>3, <3>1 DEF Bridges
    <3> QED BY <1>0, <2>1, <2>3, <3>2 DEF NtfyInv, PhoneInv, InboxInv, Down, Bridges
  <2> QED BY <1>5, <2>2, <2>3 DEF SendNtfy
<1>6. CASE PanicOnBody \/ NtfyEnds
  BY <1>0, <1>6 DEF PanicOnBody, NtfyEnds, NtfyInv, PhoneInv
<1> QED BY <1>0, <1>1, <1>3, <1>4, <1>5, <1>6, NtfyStartKept, NtfyPublishKept DEF NtfyNext

-----------------------------------------------------------------------------
(***************************************************************************)
(* The stall detector.                                                     *)
(***************************************************************************)
Said == [tool : Signatures \union {NoTool}, at : Nat]
LifeEvents == [p : Watched, at : Nat, end : BOOLEAN]
Outs == [p : Watched, n : Nat]
Detected == [last : Nat, tool : Signatures \union {NoTool}, count : Nat,
             emitted : SUBSET {"tool-loop", "token-idle"}]
Stalls == [p : Watched, kind : {"tool-loop", "token-idle"}, n : Int]

StallShapes ==
  /\ now \in Nat /\ now <= MaxNow /\ exited \subseteq Watched
  /\ said \in [Watched -> Seq(Said)] /\ lives \in Seq(LifeEvents)
  /\ outputs \in Seq(Outs) /\ stalls \in Seq(Stalls)
  /\ reports \in [Watched -> [idle : Nat, lives : Nat]]
  /\ DOMAIN sessions \subseteq Watched /\ IsFiniteSet(DOMAIN sessions)
  /\ \A p \in DOMAIN sessions : sessions[p] \in Detected

\* The outputs of p after its h-th wait in the queue, in order, and no others.
Waits(p, h) ==
  /\ \A i \in DOMAIN outputs : outputs[i].p = p => outputs[i].n > h
  /\ \A n \in (h + 1)..Len(said[p]) : \E i \in DOMAIN outputs : outputs[i] = [p |-> p, n |-> n]

\* The session of p counts the calls of one tool that end with the h-th output.
Counts(p, h) ==
  p \in DOMAIN sessions =>
    \E m \in 1..(h + 1) :
      /\ Cardinality(ToolCalls(p, m, h)) = sessions[p].count
      /\ \A i \in ToolCalls(p, m, h) : said[p][i].tool = sessions[p].tool

OutputsInv ==
  /\ \A i, j \in DOMAIN outputs : (i < j /\ outputs[i].p = outputs[j].p) => outputs[i].n < outputs[j].n
  /\ \A i \in DOMAIN outputs : outputs[i].n <= Len(said[outputs[i].p])
  /\ \A p \in Watched : \E h \in 0..Len(said[p]) : Waits(p, h) /\ Counts(p, h)

IsLoop(s) == s.n \in 1..Len(said[s.p]) /\ Loops(s.p, s.n)

LoopsInv ==
  /\ \A s \in stalled : s.p \in Watched /\ IsLoop(s)
  /\ \A i \in DOMAIN stalls : stalls[i].kind = "tool-loop" => IsLoop(stalls[i])

Owed(p) == reports[p].idle < reports[p].lives

\* Whoever may still be told silent has entered the map once more than told.
SilenceInv ==
  /\ \A p \in Watched : reports[p].idle <= reports[p].lives
  /\ \A p \in DOMAIN sessions : "token-idle" \notin sessions[p].emitted => Owed(p)
  /\ \A i \in DOMAIN stalls : stalls[i].kind = "token-idle" =>
       /\ stalls[i].p \in DOMAIN sessions /\ "token-idle" \in sessions[stalls[i].p].emitted
       /\ Owed(stalls[i].p)
  /\ \A i, j \in DOMAIN stalls :
       (stalls[i].kind = "token-idle" /\ stalls[j].kind = "token-idle" /\ stalls[i].p = stalls[j].p)
         => i = j

StallInv == StallShapes /\ OutputsInv /\ LoopsInv /\ SilenceInv

LEMMA StallStarts == StallInit => StallInv
<1> SUFFICES ASSUME StallInit PROVE StallInv
  OBVIOUS
<1>1. StallShapes
  BY StallAssumption, FS_EmptySet DEF StallInit, StallShapes
<1>2. OutputsInv
  <2>1. ASSUME NEW p \in Watched PROVE 0 \in 0..Len(said[p]) /\ Waits(p, 0) /\ Counts(p, 0)
    BY DEF StallInit, Waits, Counts
  <2> QED BY <2>1 DEF StallInit, OutputsInv
<1>3. LoopsInv /\ SilenceInv
  BY DEF StallInit, LoopsInv, SilenceInv
<1> QED BY <1>1, <1>2, <1>3 DEF StallInv

LEMMA StallInvImplies == StallInv => StallTypeOK /\ StallIsReal
BY StallAssumption
DEF StallInv, StallShapes, LoopsInv, SilenceInv, IsLoop, StallTypeOK, StallIsReal

\* What has been called stays as it was when a session puts out more.
LEMMA CallsStay ==
  ASSUME NEW p \in Watched, said[p] \in Seq(Said), said'[p] \in Seq(Said),
         Len(said'[p]) >= Len(said[p]), \A i \in 1..Len(said[p]) : said'[p][i] = said[p][i],
         NEW m \in Nat \ {0}, NEW n \in 0..Len(said[p])
  PROVE  /\ ToolCalls(p, m, n)' = ToolCalls(p, m, n)
         /\ \A i \in ToolCalls(p, m, n) : said'[p][i].tool = said[p][i].tool
BY DEF ToolCalls

LEMMA LoopsStay ==
  ASSUME NEW s, s.p \in Watched, IsLoop(s), said[s.p] \in Seq(Said), said'[s.p] \in Seq(Said),
         Len(said'[s.p]) >= Len(said[s.p]),
         \A i \in 1..Len(said[s.p]) : said'[s.p][i] = said[s.p][i]
  PROVE  IsLoop(s)'
<1> DEFINE p == s.p
           n == s.n
<1>1. n \in 1..Len(said[p]) /\ n \in 1..Len(said'[p])
  BY DEF IsLoop
<1>2. PICK m \in 1..n : /\ Cardinality(ToolCalls(p, m, n)) >= LoopLength
                        /\ \A i, j \in ToolCalls(p, m, n) : said[p][i].tool = said[p][j].tool
  BY DEF IsLoop, Loops
<1>3. m \in Nat \ {0} /\ n \in 0..Len(said[p])
  BY <1>1, <1>2
<1>4. ToolCalls(p, m, n)' = ToolCalls(p, m, n)
  BY <1>3, CallsStay
<1>5. \A i \in ToolCalls(p, m, n) : said'[p][i].tool = said[p][i].tool
  BY <1>3, CallsStay
<1>6. Loops(p, n)'
  BY <1>2, <1>4, <1>5 DEF Loops
<1> QED BY <1>1, <1>6 DEF IsLoop

LEMMA SaysKept == ASSUME StallInv, NEW p \in Watched, PickerSays(p) PROVE StallInv'
<1> DEFINE out == said'[p][Len(said[p]) + 1]
           new == [p |-> p, n |-> Len(said[p]) + 1]
<1>1. PICK tool \in Signatures \union {NoTool} :
        said' = [said EXCEPT ![p] = Append(said[p], [tool |-> tool, at |-> now])]
  BY DEF PickerSays
<1>2. outputs' = Append(outputs, new) /\ UNCHANGED <<now, exited, sessions, stalls, stalled, reports>>
  BY DEF PickerSays
<1>3. lives' = lives \/ lives' = Append(lives, [p |-> p, at |-> now, end |-> FALSE])
  BY DEF PickerSays
<1>4. StallShapes
  BY DEF StallInv
<1>5. said[p] \in Seq(Said) /\ Len(said[p]) \in Nat /\ [tool |-> tool, at |-> now] \in Said
  <2>1. said[p] \in Seq(Said) /\ now \in Nat
    BY <1>4 DEF StallShapes
  <2> QED BY <1>1, <2>1 DEF Said
<1>6. /\ said'[p] = Append(said[p], [tool |-> tool, at |-> now]) /\ said'[p] \in Seq(Said)
      /\ \A q \in Watched \ {p} : said'[q] = said[q]
      /\ said' \in [Watched -> Seq(Said)]
      /\ Len(said'[p]) = Len(said[p]) + 1
      /\ \A i \in 1..Len(said[p]) : said'[p][i] = said[p][i]
  BY <1>1, <1>4, <1>5 DEF StallShapes
<1>7. new \in Outs /\ [p |-> p, at |-> now, end |-> FALSE] \in LifeEvents
  BY <1>4, <1>5 DEF Outs, LifeEvents, StallShapes
<1>8. StallShapes'
  <2> HIDE DEF new
  <2>1. lives' \in Seq(LifeEvents)
    <3>1. lives \in Seq(LifeEvents)
      BY <1>4 DEF StallShapes
    <3> QED BY <1>3, <1>7, <3>1
  <2>2. outputs' \in Seq(Outs)
    BY <1>2, <1>4, <1>7 DEF StallShapes
  <2> QED BY <1>2, <1>4, <1>6, <2>1, <2>2 DEF StallShapes
<1>9. ASSUME NEW q \in Watched
      PROVE  /\ said[q] \in Seq(Said) /\ said'[q] \in Seq(Said) /\ Len(said'[q]) >= Len(said[q])
             /\ Len(said[q]) \in Nat /\ Len(said'[q]) \in Nat
             /\ \A i \in 1..Len(said[q]) : said'[q][i] = said[q][i]
  <2>1. said[q] \in Seq(Said) /\ said'[q] \in Seq(Said)
    BY <1>4, <1>6 DEF StallShapes
  <2>2. Len(said[q]) \in Nat /\ Len(said'[q]) \in Nat
    BY <2>1
  <2>3. Len(said'[q]) >= Len(said[q]) /\ \A i \in 1..Len(said[q]) : said'[q][i] = said[q][i]
    <3>1. CASE q = p
      <4>1. Len(said'[p]) >= Len(said[p])
        BY <1>5, <1>6
      <4> QED BY <1>6, <3>1, <4>1
    <3>2. CASE q # p
      BY <1>6, <2>2, <3>2
    <3> QED BY <3>1, <3>2
  <2> QED BY <2>1, <2>2, <2>3
<1>10. LoopsInv'
  <2>1. \A s \in stalled : s.p \in Watched /\ IsLoop(s)'
    BY <1>9, LoopsStay DEF StallInv, LoopsInv
  <2>2. \A i \in DOMAIN stalls : stalls[i].kind = "tool-loop" => IsLoop(stalls[i])'
    <3> SUFFICES ASSUME NEW i \in DOMAIN stalls, stalls[i].kind = "tool-loop"
                 PROVE  IsLoop(stalls[i])'
      BY <1>2
    <3> DEFINE s == stalls[i]
    <3>1. s.p \in Watched /\ IsLoop(s)
      <4>1. stalls \in Seq(Stalls)
        BY <1>4 DEF StallShapes
      <4>2. stalls[i] \in Stalls
        BY <4>1
      <4> QED BY <4>2 DEF StallInv, LoopsInv, Stalls
    <3>2. IsLoop(s)' /\ s' = s
      BY <3>1, <1>2, <1>9, LoopsStay
    <3> QED BY <3>2
  <2> QED BY <1>2, <2>1, <2>2 DEF LoopsInv
<1>11. SilenceInv'
  BY <1>2 DEF StallInv, SilenceInv, Owed
<1>12. outputs \in Seq(Outs)
  BY <1>4 DEF StallShapes
<1>13. /\ DOMAIN outputs' = 1..(Len(outputs) + 1) /\ DOMAIN outputs = 1..Len(outputs)
       /\ Len(outputs) \in Nat /\ outputs'[Len(outputs) + 1] = new
       /\ \A i \in DOMAIN outputs : outputs'[i] = outputs[i]
  BY <1>2, <1>7, <1>12
<1> HIDE DEF new
<1>14. new.p = p /\ new.n = Len(said[p]) + 1 /\ new = [p |-> p, n |-> Len(said[p]) + 1]
  BY DEF new
<1>15. \A q \in Watched : \E h \in 0..Len(said[q]) : Waits(q, h) /\ Counts(q, h)
  BY DEF StallInv, OutputsInv
<1>16. \A i \in DOMAIN outputs : outputs[i].n <= Len(said[outputs[i].p])
  BY DEF StallInv, OutputsInv
<1>17. \A i \in DOMAIN outputs : outputs[i].p \in Watched /\ outputs[i].n \in Nat
  <2>1. \A i \in DOMAIN outputs : outputs[i] \in Outs
    BY <1>12
  <2> QED BY <2>1 DEF Outs
<1>18. \A i, j \in DOMAIN outputs' :
         (i < j /\ outputs'[i].p = outputs'[j].p) => outputs'[i].n < outputs'[j].n
  <2>1. \A i, j \in DOMAIN outputs :
          (i < j /\ outputs[i].p = outputs[j].p) => outputs[i].n < outputs[j].n
    BY DEF StallInv, OutputsInv
  <2>2. ASSUME NEW i \in DOMAIN outputs, outputs[i].p = p PROVE outputs[i].n < new.n
    BY <1>5, <1>14, <1>16, <1>17, <2>2
  <2> QED BY <1>13, <1>14, <2>1, <2>2
<1>19. \A i \in DOMAIN outputs' : outputs'[i].n <= Len(said'[outputs'[i].p])
  <2>1. \A i \in DOMAIN outputs : outputs[i].n <= Len(said'[outputs[i].p])
    BY <1>9, <1>16, <1>17
  <2>2. new.n <= Len(said'[new.p])
    BY <1>5, <1>6, <1>14
  <2> QED BY <1>13, <2>1, <2>2
<1>20. ASSUME NEW q \in Watched PROVE \E h \in 0..Len(said'[q]) : Waits(q, h)' /\ Counts(q, h)'
  <2>1. PICK h \in 0..Len(said[q]) : Waits(q, h) /\ Counts(q, h)
    BY <1>15
  <2>2. Counts(q, h)'
    <3> SUFFICES ASSUME q \in DOMAIN sessions
                 PROVE  \E m \in 1..(h + 1) :
                          /\ Cardinality(ToolCalls(q, m, h)') = sessions[q].count
                          /\ \A i \in ToolCalls(q, m, h)' : said'[q][i].tool = sessions[q].tool
      BY <1>2 DEF Counts
    <3>1. PICK m \in 1..(h + 1) :
            /\ Cardinality(ToolCalls(q, m, h)) = sessions[q].count
            /\ \A i \in ToolCalls(q, m, h) : said[q][i].tool = sessions[q].tool
      BY <2>1 DEF Counts
    <3>2. m \in Nat \ {0}
      BY <1>9, <3>1
    <3>3. /\ ToolCalls(q, m, h)' = ToolCalls(q, m, h)
          /\ \A i \in ToolCalls(q, m, h) : said'[q][i].tool = said[q][i].tool
      BY <1>9, <3>2, CallsStay
    <3> QED BY <3>1, <3>3
  <2>3. \A i \in DOMAIN outputs' : outputs'[i].p = q => outputs'[i].n > h
    BY <1>5, <1>13, <1>14, <2>1 DEF Waits
  <2>4. ASSUME NEW n \in (h + 1)..Len(said'[q])
        PROVE  \E i \in DOMAIN outputs' : outputs'[i] = [p |-> q, n |-> n]
    <3>1. CASE n <= Len(said[q])
      <4>1. n \in (h + 1)..Len(said[q])
        BY <1>9, <3>1
      <4>2. PICK i \in DOMAIN outputs : outputs[i] = [p |-> q, n |-> n]
        BY <2>1, <4>1 DEF Waits
      <4> QED BY <1>13, <4>2
    <3>2. CASE n > Len(said[q])
      <4>1. q = p /\ n = Len(said[p]) + 1
        BY <1>5, <1>6, <1>9, <3>2
      <4>2. outputs'[Len(outputs) + 1] = [p |-> q, n |-> n]
        BY <1>13, <1>14, <4>1
      <4> QED BY <1>13, <4>2
    <3> QED BY <1>9, <3>1, <3>2
  <2> QED BY <1>9, <2>2, <2>3, <2>4 DEF Waits
<1>21. OutputsInv'
  BY <1>18, <1>19, <1>20 DEF OutputsInv
<1> QED BY <1>8, <1>10, <1>11, <1>21 DEF StallInv

\* What was found to be a loop stays one as long as nobody says more.
LEMMA LoopsSame ==
  ASSUME StallInv, UNCHANGED <<said, stalls, stalled>> PROVE LoopsInv'
<1>1. ASSUME NEW s PROVE IsLoop(s)' <=> IsLoop(s)
  <2>1. \A m, n : ToolCalls(s.p, m, n)' = ToolCalls(s.p, m, n)
    BY DEF ToolCalls
  <2>2. Loops(s.p, s.n)' <=> Loops(s.p, s.n)
    BY <2>1 DEF Loops
  <2> QED BY <2>2 DEF IsLoop
<1>2. \A s \in stalled : s.p \in Watched /\ IsLoop(s)'
  BY <1>1 DEF StallInv, LoopsInv
<1>3. \A i \in DOMAIN stalls : stalls[i].kind = "tool-loop" => IsLoop(stalls[i])'
  <2> SUFFICES ASSUME NEW i \in DOMAIN stalls, stalls[i].kind = "tool-loop"
               PROVE  IsLoop(stalls[i])'
    OBVIOUS
  <2>1. IsLoop(stalls[i])
    BY DEF StallInv, LoopsInv
  <2>2. IsLoop(stalls[i])' <=> IsLoop(stalls[i])
    <3>1. \A m, n : ToolCalls(stalls[i].p, m, n)' = ToolCalls(stalls[i].p, m, n)
      BY DEF ToolCalls
    <3>2. Loops(stalls[i].p, stalls[i].n)' <=> Loops(stalls[i].p, stalls[i].n)
      BY <3>1 DEF Loops
    <3> QED BY <3>2 DEF IsLoop
  <2> QED BY <2>1, <2>2
<1> QED BY <1>2, <1>3 DEF LoopsInv

\* Time passes, a session ends: nothing of what is detected moves.
LEMMA WatchedMove ==
  ASSUME StallInv, \/ TimePasses \/ \E p \in Watched : PickerExits(p)
                   \/ UNCHANGED stallVars
  PROVE  StallInv'
<1>1. UNCHANGED <<said, outputs, sessions, stalls, stalled, reports>>
  BY DEF TimePasses, PickerExits, stallVars
<1>2. StallShapes
  BY DEF StallInv
<1>3. now' \in Nat /\ now' <= MaxNow
  <2>1. now \in Nat /\ now <= MaxNow /\ MaxNow \in Nat
    BY <1>2, StallAssumption DEF StallShapes
  <2>2. CASE TimePasses
    BY <2>1, <2>2 DEF TimePasses
  <2>3. CASE now' = now
    BY <2>1, <2>3
  <2> QED BY <2>2, <2>3 DEF PickerExits, stallVars
<1>4. exited' \subseteq Watched /\ lives' \in Seq(LifeEvents)
  <2>1. lives \in Seq(LifeEvents) /\ now \in Nat /\ exited \subseteq Watched
    BY <1>2 DEF StallShapes
  <2>2. ASSUME NEW p \in Watched, PickerExits(p) PROVE lives' \in Seq(LifeEvents)
    <3>1. [p |-> p, at |-> now, end |-> TRUE] \in LifeEvents
      BY <2>1 DEF LifeEvents
    <3> QED BY <2>1, <2>2, <3>1 DEF PickerExits
  <2> QED BY <2>1, <2>2 DEF TimePasses, PickerExits, stallVars
<1>5. StallShapes'
  BY <1>1, <1>2, <1>3, <1>4 DEF StallShapes
<1>6. OutputsInv'
  <2>1. \A p, m, n : ToolCalls(p, m, n)' = ToolCalls(p, m, n)
    BY <1>1 DEF ToolCalls
  <2>2. \A p, h : (Counts(p, h)' <=> Counts(p, h)) /\ (Waits(p, h)' <=> Waits(p, h))
    BY <1>1, <2>1 DEF Counts, Waits
  <2> QED BY <1>1, <2>2 DEF StallInv, OutputsInv
<1>7. LoopsInv'
  BY <1>1, LoopsSame
<1>8. SilenceInv'
  BY <1>1 DEF StallInv, SilenceInv, Owed
<1> QED BY <1>5, <1>6, <1>7, <1>8 DEF StallInv

\* A session that enters the map is owed one report more.
LEMMA BornOwes ==
  ASSUME StallInv, NEW p \in Watched, reports' = Born(p)
  PROVE  /\ reports' \in [Watched -> [idle : Nat, lives : Nat]]
         /\ \A q \in Watched : /\ reports'[q].idle <= reports'[q].lives
                               /\ Owed(q) => Owed(q)'
         /\ p \notin DOMAIN sessions => Owed(p)'
<1>1. reports \in [Watched -> [idle : Nat, lives : Nat]] /\ reports[p] \in [idle : Nat, lives : Nat]
      /\ \A q \in Watched : reports[q].idle <= reports[q].lives
  BY DEF StallInv, StallShapes, SilenceInv
<1>2. CASE p \in DOMAIN sessions
  BY <1>1, <1>2 DEF Born, Owed
<1>3. CASE p \notin DOMAIN sessions
  <2> DEFINE r == [reports[p] EXCEPT !.lives = reports[p].lives + 1]
  <2>1. r \in [idle : Nat, lives : Nat] /\ r.idle = reports[p].idle /\ r.lives = reports[p].lives + 1
        /\ reports[p].idle \in Nat /\ reports[p].lives \in Nat
    BY <1>1
  <2>2. reports' = [reports EXCEPT ![p] = r]
    BY <1>3 DEF Born
  <2> HIDE DEF r
  <2>3. reports' \in [Watched -> [idle : Nat, lives : Nat]] /\ reports'[p] = r
        /\ \A q \in Watched \ {p} : reports'[q] = reports[q]
    BY <1>1, <2>1, <2>2
  <2>4. Owed(p)' /\ reports'[p].idle <= reports'[p].lives
    BY <1>1, <2>1, <2>3 DEF Owed
  <2> QED BY <1>1, <2>3, <2>4 DEF Owed
<1> QED BY <1>2, <1>3

LEMMA StateOfShape ==
  ASSUME StallInv, NEW p \in Watched, NEW at \in Nat
  PROVE  /\ StateOf(p, at) \in Detected
         /\ p \notin DOMAIN sessions => StateOf(p, at) = Fresh(at) /\ StateOf(p, at).count = 0
                                        /\ StateOf(p, at).tool = NoTool
         /\ p \in DOMAIN sessions => StateOf(p, at) = sessions[p]
BY DEF StallInv, StallShapes, StateOf, Fresh, Detected

LEMMA WithShape ==
  ASSUME StallInv, NEW p \in Watched, NEW state \in Detected, sessions' = With(p, state)
  PROVE  /\ DOMAIN sessions' = DOMAIN sessions \union {p} /\ sessions'[p] = state
         /\ \A q \in DOMAIN sessions : q # p => sessions'[q] = sessions[q]
         /\ DOMAIN sessions' \subseteq Watched /\ IsFiniteSet(DOMAIN sessions')
         /\ \A q \in DOMAIN sessions' : sessions'[q] \in Detected
<1>1. IsFiniteSet(DOMAIN sessions)
  BY DEF StallInv, StallShapes
<1>2. IsFiniteSet(DOMAIN sessions \union {p})
  BY <1>1, FS_AddElement
<1> QED BY <1>2 DEF With, StallInv, StallShapes

\* Nothing is to be published, and a session has been put in the map or updated.
LEMMA SilenceUpdated ==
  ASSUME StallInv, NEW p \in Watched, NEW state \in Detected, NEW at \in Nat,
         sessions' = With(p, state), reports' = Born(p),
         "token-idle" \in StateOf(p, at).emitted <=> "token-idle" \in state.emitted,
         \A i \in DOMAIN stalls' : stalls'[i].kind = "tool-loop"
  PROVE  SilenceInv'
<1>1. \A q \in Watched : /\ reports'[q].idle <= reports'[q].lives
                         /\ Owed(q) => Owed(q)'
  BY BornOwes
<1>2. p \notin DOMAIN sessions => Owed(p)'
  BY BornOwes
<1>3. /\ DOMAIN sessions' = DOMAIN sessions \union {p} /\ sessions'[p] = state
      /\ \A q \in DOMAIN sessions : q # p => sessions'[q] = sessions[q]
      /\ DOMAIN sessions' \subseteq Watched
  BY WithShape
<1>4. p \in DOMAIN sessions => StateOf(p, at) = sessions[p]
  BY StateOfShape
<1>5. \A q \in DOMAIN sessions : "token-idle" \notin sessions[q].emitted => Owed(q)
  BY DEF StallInv, SilenceInv
<1>6. \A q \in DOMAIN sessions' : "token-idle" \notin sessions'[q].emitted => Owed(q)'
  BY <1>1, <1>2, <1>3, <1>4, <1>5
<1> QED BY <1>1, <1>6 DEF SilenceInv

LEMMA LifecycleKept == ASSUME StallInv, HandleLifecycle PROVE StallInv'
<1> DEFINE m == Head(lives)
<1>1. UNCHANGED <<now, said, exited, outputs, stalls, stalled>> /\ lives' = Tail(lives)
      /\ lives # <<>> /\ stalls = <<>>
  BY DEF HandleLifecycle
<1>2. lives \in Seq(LifeEvents) /\ StallShapes
  BY DEF StallInv, StallShapes
<1>3. m \in LifeEvents /\ lives' \in Seq(LifeEvents)
  BY <1>1, <1>2
<1>4. LoopsInv'
  BY <1>1, LoopsSame
<1>5. \A q \in Watched : \E h \in 0..Len(said[q]) : Waits(q, h) /\ Counts(q, h)
  BY DEF StallInv, OutputsInv
<1> DEFINE p == m.p
<1>6. p \in Watched /\ m.at \in Nat /\ now \in Nat
  BY <1>2, <1>3 DEF LifeEvents, StallShapes
<1> HIDE DEF m
<1>7. ASSUME \A q \in Watched : \A h \in 0..Len(said[q]) : Counts(q, h) => Counts(q, h)'
      PROVE  OutputsInv'
  <2>1. \A q \in Watched : \E h \in 0..Len(said[q]) : Waits(q, h)' /\ Counts(q, h)'
    BY <1>1, <1>5, <1>7 DEF Waits
  <2> QED BY <1>1, <2>1 DEF StallInv, OutputsInv
<1>8. CASE m.end
  <2>1. sessions' = Forget(p) /\ reports' = reports
    BY <1>8 DEF HandleLifecycle, m
  <2>2. DOMAIN sessions' = DOMAIN sessions \ {p}
        /\ \A q \in DOMAIN sessions' : sessions'[q] = sessions[q]
    BY <2>1 DEF Forget
  <2>3. IsFiniteSet(DOMAIN sessions')
    <3>1. IsFiniteSet(DOMAIN sessions)
      BY <1>2 DEF StallShapes
    <3>2. IsFiniteSet(DOMAIN sessions \ {p})
      BY <3>1, FS_RemoveElement
    <3> QED BY <2>2, <3>2
  <2>4. StallShapes'
    BY <1>1, <1>2, <1>3, <2>1, <2>2, <2>3 DEF StallShapes
  <2>5. SilenceInv'
    BY <1>1, <2>1, <2>2 DEF StallInv, SilenceInv, Owed
  <2>6. \A q \in Watched : \A h \in 0..Len(said[q]) : Counts(q, h) => Counts(q, h)'
    BY <1>1, <2>2 DEF Counts, ToolCalls
  <2>7. OutputsInv'
    BY <1>7, <2>6
  <2> QED BY <1>4, <2>4, <2>5, <2>7 DEF StallInv
<1>9. CASE ~m.end
  <2> DEFINE old   == StateOf(p, now)
             state == [old EXCEPT !.last = m.at]
  <2>1. sessions' = With(p, state) /\ reports' = Born(p)
    BY <1>9 DEF HandleLifecycle, m
  <2>2. old \in Detected
    BY <1>6, StateOfShape
  <2>3. state \in Detected /\ state.emitted = old.emitted /\ state.tool = old.tool
        /\ state.count = old.count
    BY <1>6, <2>2 DEF Detected
  <2> HIDE DEF state
  <2>4. /\ DOMAIN sessions' = DOMAIN sessions \union {p} /\ sessions'[p] = state
        /\ \A q \in DOMAIN sessions : q # p => sessions'[q] = sessions[q]
        /\ DOMAIN sessions' \subseteq Watched /\ IsFiniteSet(DOMAIN sessions')
        /\ \A q \in DOMAIN sessions' : sessions'[q] \in Detected
    BY <1>6, <2>1, <2>3, WithShape
  <2>5. reports' \in [Watched -> [idle : Nat, lives : Nat]]
    BY <1>6, <2>1, BornOwes
  <2>6. StallShapes'
    BY <1>1, <1>2, <1>3, <2>4, <2>5 DEF StallShapes
  <2>7. SilenceInv'
    <3>1. \A i \in DOMAIN stalls' : stalls'[i].kind = "tool-loop"
      BY <1>1
    <3> QED BY <1>6, <2>1, <2>3, <3>1, SilenceUpdated
  <2>8. ASSUME NEW q \in Watched, NEW h \in 0..Len(said[q]), Counts(q, h) PROVE Counts(q, h)'
    <3>1. CASE q # p \/ q \in DOMAIN sessions
      <4>1. q \in DOMAIN sessions' =>
              /\ q \in DOMAIN sessions
              /\ sessions'[q].count = sessions[q].count /\ sessions'[q].tool = sessions[q].tool
        BY <1>6, <2>3, <2>4, <3>1, StateOfShape
      <4> QED BY <1>1, <2>8, <4>1 DEF Counts, ToolCalls
    <3>2. CASE q = p /\ q \notin DOMAIN sessions
      <4>1. sessions'[q].count = 0
        BY <1>6, <2>3, <2>4, <3>2, StateOfShape
      <4>2. ToolCalls(q, h + 1, h)' = {} /\ h + 1 \in 1..(h + 1)
        BY <1>2, <1>6, <3>2 DEF ToolCalls, StallShapes
      <4> QED BY <4>1, <4>2, FS_EmptySet DEF Counts
    <3> QED BY <3>1, <3>2
  <2>9. OutputsInv'
    BY <1>7, <2>8
  <2> QED BY <1>4, <2>6, <2>7, <2>9 DEF StallInv
<1> QED BY <1>8, <1>9

\* The first output in the queue is the one after those that were handled.
LEMMA HeadOutput ==
  ASSUME StallInv, outputs # <<>>, outputs' = Tail(outputs), UNCHANGED said,
         NEW p \in Watched, NEW n, Head(outputs).p = p, Head(outputs).n = n,
         NEW h \in 0..Len(said[p]), Waits(p, h)
  PROVE  /\ n = h + 1 /\ h + 1 \in 1..Len(said[p])
         /\ Waits(p, h + 1)' /\ outputs' \in Seq(Outs)
         /\ \A q \in Watched : \A k \in Nat : q # p /\ Waits(q, k) => Waits(q, k)'
         /\ \A i, j \in DOMAIN outputs' :
              (i < j /\ outputs'[i].p = outputs'[j].p) => outputs'[i].n < outputs'[j].n
         /\ \A i \in DOMAIN outputs' : outputs'[i].n <= Len(said[outputs'[i].p])
<1> DEFINE rest == Tail(outputs)
<1>1. outputs \in Seq(Outs) /\ said \in [Watched -> Seq(Said)]
  BY DEF StallInv, StallShapes
<1>2. /\ \A i, j \in DOMAIN outputs :
           (i < j /\ outputs[i].p = outputs[j].p) => outputs[i].n < outputs[j].n
      /\ \A i \in DOMAIN outputs : outputs[i].n <= Len(said[outputs[i].p])
  BY DEF StallInv, OutputsInv
<1>3. /\ Len(outputs) \in Nat /\ DOMAIN outputs = 1..Len(outputs) /\ 1 \in DOMAIN outputs
      /\ outputs[1] = Head(outputs) /\ Head(outputs) \in Outs /\ rest \in Seq(Outs)
      /\ DOMAIN rest = 1..(Len(outputs) - 1)
      /\ \A i \in DOMAIN outputs : outputs[i] \in Outs
  BY <1>1
<1>4. \A i \in DOMAIN rest : rest[i] = outputs[i + 1] /\ i + 1 \in DOMAIN outputs /\ i \in Nat
  BY <1>1, <1>3
<1>5. \A i \in DOMAIN outputs : i # 1 => i - 1 \in DOMAIN rest /\ rest[i - 1] = outputs[i]
                                         /\ 1 < i
  BY <1>1, <1>3
<1>6. \A i \in DOMAIN outputs : outputs[i].p \in Watched /\ outputs[i].n \in Nat
  BY <1>3 DEF Outs
<1>7. n \in Nat
  BY <1>3 DEF Outs
<1> HIDE DEF rest
<1>8. said[p] \in Seq(Said) /\ Len(said[p]) \in Nat
  BY <1>1, <1>7
<1>9. n > h /\ n <= Len(said[p])
  BY <1>2, <1>3 DEF Waits
<1>10. PICK i \in DOMAIN outputs : outputs[i] = [p |-> p, n |-> h + 1]
  <2>1. h + 1 \in (h + 1)..Len(said[p])
    BY <1>7, <1>8, <1>9
  <2> QED BY <2>1 DEF Waits
<1>11. i = 1
  <2>1. CASE i # 1
    <3>1. 1 < i /\ outputs[i].p = outputs[1].p /\ outputs[i].n = h + 1
      BY <1>3, <1>5, <1>10, <2>1
    <3>2. n < h + 1
      BY <1>2, <1>3, <3>1
    <3> QED BY <1>7, <1>9, <3>2
  <2> QED BY <2>1
<1>12. n = h + 1
  BY <1>3, <1>10, <1>11
<1>13. Waits(p, h + 1)'
  <2>1. ASSUME NEW k \in DOMAIN rest, rest[k].p = p PROVE rest[k].n > h + 1
    <3>1. k + 1 \in DOMAIN outputs /\ 1 < k + 1 /\ rest[k] = outputs[k + 1]
      BY <1>3, <1>4
    <3>2. n < outputs[k + 1].n
      BY <1>2, <1>3, <2>1, <3>1
    <3> QED BY <1>6, <1>12, <3>1, <3>2
  <2>2. ASSUME NEW k \in (h + 2)..Len(said[p])
        PROVE  \E j \in DOMAIN rest : rest[j] = [p |-> p, n |-> k]
    <3>1. k \in (h + 1)..Len(said[p])
      BY <1>8
    <3>2. PICK j \in DOMAIN outputs : outputs[j] = [p |-> p, n |-> k]
      BY <3>1 DEF Waits
    <3>3. j # 1
      BY <1>8, <1>10, <1>11, <3>2
    <3> QED BY <1>5, <3>2, <3>3
  <2>3. (h + 1) + 1 = h + 2
    OBVIOUS
  <2>4. outputs' = rest /\ said' = said
    BY DEF rest
  <2> QED BY <2>1, <2>2, <2>3, <2>4 DEF Waits
<1>14. ASSUME NEW q \in Watched, NEW k \in Nat, q # p, Waits(q, k) PROVE Waits(q, k)'
  <2>1. \A j \in DOMAIN rest : rest[j].p = q => rest[j].n > k
    BY <1>4, <1>14 DEF Waits
  <2>2. ASSUME NEW l \in (k + 1)..Len(said[q])
        PROVE  \E j \in DOMAIN rest : rest[j] = [p |-> q, n |-> l]
    <3>1. PICK j \in DOMAIN outputs : outputs[j] = [p |-> q, n |-> l]
      BY <1>14 DEF Waits
    <3>2. j # 1
      BY <1>3, <1>14, <3>1
    <3> QED BY <1>5, <3>1, <3>2
  <2>3. outputs' = rest /\ said' = said
    BY DEF rest
  <2> QED BY <2>1, <2>2, <2>3 DEF Waits
<1>15. \A i_1, j \in DOMAIN rest : (i_1 < j /\ rest[i_1].p = rest[j].p) => rest[i_1].n < rest[j].n
  BY <1>2, <1>4
<1>16. \A j \in DOMAIN rest : rest[j].n <= Len(said[rest[j].p])
  BY <1>2, <1>4
<1>17. h + 1 \in 1..Len(said[p])
  BY <1>8, <1>9, <1>12
<1> QED BY <1>3, <1>12, <1>13, <1>14, <1>15, <1>16, <1>17 DEF rest

\* The calls a session has in its count, with one that is new to the map too.
LEMMA CountedSoFar ==
  ASSUME StallInv, NEW p \in Watched, NEW h \in 0..Len(said[p]), Counts(p, h)
  PROVE  \E m \in 1..(h + 1) :
           /\ Cardinality(ToolCalls(p, m, h)) = StateOf(p, now).count
           /\ \A i \in ToolCalls(p, m, h) : said[p][i].tool = StateOf(p, now).tool
<1>1. now \in Nat /\ Len(said[p]) \in Nat
  <2>1. now \in Nat /\ said[p] \in Seq(Said)
    BY DEF StallInv, StallShapes
  <2> QED BY <2>1
<1>2. CASE p \in DOMAIN sessions
  <2>1. StateOf(p, now) = sessions[p]
    BY <1>1, <1>2, StateOfShape
  <2> QED BY <1>2, <2>1 DEF Counts
<1>3. CASE p \notin DOMAIN sessions
  <2>1. StateOf(p, now).count = 0
    BY <1>1, <1>3, StateOfShape
  <2>2. ToolCalls(p, h + 1, h) = {} /\ h + 1 \in 1..(h + 1)
    BY <1>1 DEF ToolCalls
  <2> QED BY <2>1, <2>2, FS_EmptySet
<1> QED BY <1>2, <1>3

LEMMA OneMoreCall ==
  ASSUME NEW p \in Watched, NEW h \in Nat, NEW m \in 1..(h + 1)
  PROVE  /\ said[p][h + 1].tool = NoTool => ToolCalls(p, m, h + 1) = ToolCalls(p, m, h)
         /\ said[p][h + 1].tool # NoTool =>
              /\ ToolCalls(p, m, h + 1) = ToolCalls(p, m, h) \union {h + 1}
              /\ Cardinality(ToolCalls(p, m, h + 1)) = Cardinality(ToolCalls(p, m, h)) + 1
              /\ ToolCalls(p, h + 1, h + 1) = {h + 1}
<1>1. IsFiniteSet(ToolCalls(p, m, h)) /\ h + 1 \notin ToolCalls(p, m, h)
  <2>1. IsFiniteSet(m..h) /\ ToolCalls(p, m, h) \in SUBSET (m..h)
    BY FS_Interval DEF ToolCalls
  <2>2. h + 1 \notin m..h
    OBVIOUS
  <2> QED BY <2>1, <2>2, FS_Subset
<1>2. Cardinality(ToolCalls(p, m, h) \union {h + 1}) = Cardinality(ToolCalls(p, m, h)) + 1
  BY <1>1, FS_AddElement
<1>3. ASSUME NEW i PROVE (i \in m..(h + 1) <=> i \in m..h \/ i = h + 1)
                         /\ (i \in (h + 1)..(h + 1) <=> i = h + 1)
  OBVIOUS
<1>4. said[p][h + 1].tool = NoTool => ToolCalls(p, m, h + 1) = ToolCalls(p, m, h)
  BY <1>3 DEF ToolCalls
<1>5. said[p][h + 1].tool # NoTool =>
        /\ ToolCalls(p, m, h + 1) = ToolCalls(p, m, h) \union {h + 1}
        /\ ToolCalls(p, h + 1, h + 1) = {h + 1}
  BY <1>3 DEF ToolCalls
<1> QED BY <1>2, <1>4, <1>5

LEMMA OutputKept == ASSUME StallInv, HandleOutput PROVE StallInv'
<1>0. /\ outputs # <<>> /\ outputs' = Tail(outputs) /\ stalls = <<>>
      /\ UNCHANGED <<now, said, exited, lives, stalled>>
  BY DEF HandleOutput
<1>3. StallShapes /\ outputs \in Seq(Outs) /\ said \in [Watched -> Seq(Said)] /\ now \in Nat
  BY DEF StallInv, StallShapes
<1>4. Head(outputs) \in Outs
  BY <1>0, <1>3
<1>5. PICK p \in Watched, n \in Nat : p = Head(outputs).p /\ n = Head(outputs).n
  BY <1>4 DEF Outs
<1> DEFINE out == said[p][n]
           old == StateOf(p, now)
           state == IF out.tool = NoTool THEN [old EXCEPT !.last = out.at]
                    ELSE CountedTool(old, out.tool)
           loops == state.count >= LoopLength /\ out.tool # NoTool
                    /\ "tool-loop" \notin state.emitted
           new == IF ~loops THEN state
                  ELSE [state EXCEPT !.emitted = state.emitted \union {"tool-loop"}]
<1>2. sessions' = With(p, new) /\ reports' = Born(p)
      /\ stalls' = IF loops THEN <<[p |-> p, kind |-> "tool-loop", n |-> n]>> ELSE <<>>
  BY <1>5 DEF HandleOutput
<1>6. PICK h \in 0..Len(said[p]) : Waits(p, h) /\ Counts(p, h)
  BY <1>5 DEF StallInv, OutputsInv
<1>7. /\ n = h + 1 /\ h + 1 \in 1..Len(said[p])
      /\ Waits(p, h + 1)' /\ outputs' \in Seq(Outs)
      /\ \A q \in Watched : \A k \in Nat : q # p /\ Waits(q, k) => Waits(q, k)'
      /\ \A i, j \in DOMAIN outputs' :
           (i < j /\ outputs'[i].p = outputs'[j].p) => outputs'[i].n < outputs'[j].n
      /\ \A i \in DOMAIN outputs' : outputs'[i].n <= Len(said[outputs'[i].p])
  BY <1>0, <1>5, <1>6, HeadOutput
<1>8. said[p] \in Seq(Said) /\ h \in Nat
  BY <1>3, <1>5
<1>9. out \in Said
  BY <1>7, <1>8
<1>10. out.tool \in Signatures \union {NoTool} /\ out.at \in Nat /\ out = said[p][h + 1]
  BY <1>7, <1>9 DEF Said
<1>11. old \in Detected
  BY <1>3, <1>5, StateOfShape
<1> HIDE DEF out, old
<1>12. PICK k \in 1..(h + 1) : /\ Cardinality(ToolCalls(p, k, h)) = old.count
                               /\ \A i \in ToolCalls(p, k, h) : said[p][i].tool = old.tool
  BY <1>5, <1>6, CountedSoFar DEF old
<1>13. /\ out.tool = NoTool => ToolCalls(p, k, h + 1) = ToolCalls(p, k, h)
       /\ out.tool # NoTool =>
            /\ ToolCalls(p, k, h + 1) = ToolCalls(p, k, h) \union {h + 1}
            /\ Cardinality(ToolCalls(p, k, h + 1)) = Cardinality(ToolCalls(p, k, h)) + 1
            /\ ToolCalls(p, h + 1, h + 1) = {h + 1}
  BY <1>5, <1>8, <1>10, <1>12, OneMoreCall
<1>14. /\ state \in Detected /\ state.emitted = old.emitted
       /\ \E l \in 1..(h + 1) : /\ Cardinality(ToolCalls(p, l, h + 1)) = state.count
                                /\ \A i \in ToolCalls(p, l, h + 1) : said[p][i].tool = state.tool
  <2>1. CASE out.tool = NoTool
    <3>1. state = [old EXCEPT !.last = out.at]
      BY <2>1
    <3> HIDE DEF state
    <3>2. state \in Detected /\ state.emitted = old.emitted /\ state.count = old.count
          /\ state.tool = old.tool
      BY <1>10, <1>11, <3>1 DEF Detected
    <3> QED BY <1>12, <1>13, <2>1, <3>2
  <2>2. CASE out.tool # NoTool /\ old.tool = out.tool
    <3>1. state = [old EXCEPT !.tool = out.tool, !.count = old.count + 1]
      BY <2>2 DEF CountedTool
    <3> HIDE DEF state
    <3>2. state \in Detected /\ state.emitted = old.emitted /\ state.count = old.count + 1
          /\ state.tool = out.tool
      <4>1. old.count + 1 \in Nat /\ out.tool \in Signatures \union {NoTool}
        BY <1>10, <1>11 DEF Detected
      <4> QED BY <1>11, <3>1, <4>1 DEF Detected
    <3> QED BY <1>10, <1>12, <1>13, <2>2, <3>2
  <2>3. CASE out.tool # NoTool /\ old.tool # out.tool
    <3>1. state = [old EXCEPT !.tool = out.tool, !.count = 1]
      BY <2>3 DEF CountedTool
    <3> HIDE DEF state
    <3>2. state \in Detected /\ state.emitted = old.emitted /\ state.count = 1
          /\ state.tool = out.tool
      BY <1>10, <1>11, <2>3, <3>1 DEF Detected
    <3>3. Cardinality(ToolCalls(p, h + 1, h + 1)) = 1
      BY <1>13, <2>3, FS_Singleton
    <3>4. h + 1 \in 1..(h + 1)
          /\ \A i \in ToolCalls(p, h + 1, h + 1) : said[p][i].tool = state.tool
      BY <1>8, <1>10, <1>13, <2>3, <3>2
    <3> QED BY <3>2, <3>3, <3>4
  <2> QED BY <2>1, <2>2, <2>3
<1> HIDE DEF state
<1>15. PICK l \in 1..(h + 1) : /\ Cardinality(ToolCalls(p, l, h + 1)) = state.count
                               /\ \A i \in ToolCalls(p, l, h + 1) : said[p][i].tool = state.tool
  BY <1>14
<1>16. new \in Detected /\ new.tool = state.tool /\ new.count = state.count
       /\ ("token-idle" \in new.emitted <=> "token-idle" \in old.emitted)
  <2>1. CASE loops
    <3> DEFINE more == [state EXCEPT !.emitted = state.emitted \union {"tool-loop"}]
    <3>1. more \in Detected /\ more.tool = state.tool /\ more.count = state.count
          /\ more.emitted = state.emitted \union {"tool-loop"}
      BY <1>14 DEF Detected
    <3>2. new = more
      BY <2>1
    <3> HIDE DEF more, new
    <3> QED BY <1>14, <3>1, <3>2
  <2>2. CASE ~loops
    BY <1>14, <2>2
  <2> QED BY <2>1, <2>2
<1>17. /\ stalls' \in Seq(Stalls) /\ \A i \in DOMAIN stalls' : stalls'[i].kind = "tool-loop"
       /\ (\A i \in DOMAIN stalls : IsLoop(stalls[i]))'
  <2>1. CASE loops
    <3> DEFINE s == [p |-> p, kind |-> "tool-loop", n |-> h + 1]
    <3>1. stalls' = <<s>>
      BY <1>2, <1>7, <2>1
    <3>2. Loops(p, h + 1)
      BY <1>15, <2>1 DEF Loops
    <3>3. s \in Stalls /\ s.p = p /\ s.n = h + 1 /\ s.kind = "tool-loop"
      BY <1>5, <1>8 DEF Stalls
    <3> HIDE DEF s
    <3>4. Loops(p, h + 1)'
      <4>1. \A a : ToolCalls(p, a, h + 1)' = ToolCalls(p, a, h + 1)
        BY <1>0 DEF ToolCalls
      <4> QED BY <1>0, <3>2, <4>1 DEF Loops
    <3>5. (IsLoop(stalls[1]))'
      BY <1>0, <1>7, <3>1, <3>3, <3>4 DEF IsLoop
    <3> QED BY <3>1, <3>3, <3>5
  <2>2. CASE ~loops
    BY <1>2, <2>2
  <2> QED BY <2>1, <2>2
<1> HIDE DEF new, loops
<1>18. LoopsInv'
  <2>1. ASSUME NEW s \in stalled PROVE s.p \in Watched /\ IsLoop(s)'
    <3>1. \A a, b : ToolCalls(s.p, a, b)' = ToolCalls(s.p, a, b)
      BY <1>0 DEF ToolCalls
    <3>2. Loops(s.p, s.n)' <=> Loops(s.p, s.n)
      BY <1>0, <3>1 DEF Loops
    <3> QED BY <1>0, <3>2 DEF StallInv, LoopsInv, IsLoop
  <2> QED BY <1>0, <1>17, <2>1 DEF LoopsInv
<1>19. SilenceInv'
  BY <1>2, <1>3, <1>5, <1>16, <1>17, SilenceUpdated DEF old
<1>20. /\ DOMAIN sessions' = DOMAIN sessions \union {p} /\ sessions'[p] = new
       /\ \A q \in DOMAIN sessions : q # p => sessions'[q] = sessions[q]
       /\ DOMAIN sessions' \subseteq Watched /\ IsFiniteSet(DOMAIN sessions')
       /\ \A q \in DOMAIN sessions' : sessions'[q] \in Detected
  BY <1>2, <1>5, <1>16, WithShape
<1>21. reports' \in [Watched -> [idle : Nat, lives : Nat]]
  BY <1>2, <1>5, BornOwes
<1>22. StallShapes'
  BY <1>0, <1>3, <1>7, <1>17, <1>20, <1>21 DEF StallShapes
<1>23. ASSUME NEW q \in Watched PROVE \E k_1 \in 0..Len(said[q]) : Waits(q, k_1)' /\ Counts(q, k_1)'
  <2>1. CASE q = p
    <3>1. Counts(p, h + 1)'
      <4>1. l \in 1..((h + 1) + 1) /\ ToolCalls(p, l, h + 1)' = ToolCalls(p, l, h + 1)
        BY <1>0, <1>8 DEF ToolCalls
      <4>2. sessions'[p].count = state.count /\ sessions'[p].tool = state.tool
        BY <1>16, <1>20
      <4> QED BY <1>0, <1>15, <4>1, <4>2 DEF Counts
    <3>2. h + 1 \in 0..Len(said[p])
      BY <1>7, <1>8
    <3> QED BY <1>7, <2>1, <3>1, <3>2
  <2>2. CASE q # p
    <3>1. PICK g \in 0..Len(said[q]) : Waits(q, g) /\ Counts(q, g)
      BY DEF StallInv, OutputsInv
    <3>2. said[q] \in Seq(Said)
      BY <1>3
    <3>3. g \in Nat
      BY <3>2
    <3>4. Counts(q, g)'
      <4>1. \A a : ToolCalls(q, a, g)' = ToolCalls(q, a, g)
        BY <1>0 DEF ToolCalls
      <4>2. q \in DOMAIN sessions' => q \in DOMAIN sessions /\ sessions'[q] = sessions[q]
        BY <1>20, <2>2
      <4> QED BY <1>0, <3>1, <4>1, <4>2 DEF Counts
    <3> QED BY <1>7, <2>2, <3>1, <3>3, <3>4
  <2> QED BY <2>1, <2>2
<1>24. OutputsInv'
  BY <1>0, <1>7, <1>23 DEF OutputsInv
<1> QED BY <1>18, <1>19, <1>22, <1>24 DEF StallInv

\* What is counted depends on nothing but what was said and the counts.
LEMMA OutputsSame ==
  ASSUME StallInv, UNCHANGED <<said, outputs>>,
         \A p \in DOMAIN sessions' : /\ p \in DOMAIN sessions
                                     /\ sessions'[p].count = sessions[p].count
                                     /\ sessions'[p].tool = sessions[p].tool
  PROVE  OutputsInv'
<1>1. \A p, m, n : ToolCalls(p, m, n)' = ToolCalls(p, m, n)
  BY DEF ToolCalls
<1>2. ASSUME NEW p, NEW h PROVE (Counts(p, h) => Counts(p, h)') /\ (Waits(p, h) => Waits(p, h)')
  BY <1>1 DEF Counts, Waits
<1> QED BY <1>2 DEF StallInv, OutputsInv

LEMMA IdleKept == ASSUME StallInv, DetectIdle PROVE StallInv'
<1> DEFINE idle == {p \in DOMAIN sessions :
                      IsIdle(sessions[p]) /\ "token-idle" \notin sessions[p].emitted}
           stall(p) == [p |-> p, kind |-> "token-idle", n |-> now - sessions[p].last]
<1>1. /\ stalls = <<>> /\ UNCHANGED <<now, said, exited, lives, outputs, stalled, reports>>
      /\ sessions' = [p \in DOMAIN sessions |->
           IF p \in idle THEN RememberIdle(sessions[p]) ELSE sessions[p]]
  BY DEF DetectIdle
<1>2. PICK order \in SetToSeqs(idle) : stalls' = [i \in DOMAIN order |-> stall(order[i])]
  BY DEF DetectIdle
<1>3. StallShapes
  BY DEF StallInv
<1>4. IsFiniteSet(idle)
  <2>1. IsFiniteSet(DOMAIN sessions)
    BY <1>3 DEF StallShapes
  <2> QED BY <2>1, FS_Subset
<1>5. Cardinality(idle) \in Nat
  BY <1>4, FS_CardinalityType
<1>6. \A p \in DOMAIN sessions : p \in Watched /\ sessions[p] \in Detected
  BY <1>3 DEF StallShapes
<1>7. \A p \in idle : p \in DOMAIN sessions /\ "token-idle" \notin sessions[p].emitted
  OBVIOUS
<1> HIDE DEF idle
<1>8. order \in [1..Cardinality(idle) -> idle]
      /\ \A i, j \in 1..Cardinality(idle) : i # j => order[i] # order[j]
  BY DEF SetToSeqs
<1>9. ASSUME NEW p \in idle PROVE stall(p) \in Stalls
  <2>1. now \in Nat
    BY <1>3 DEF StallShapes
  <2>2. p \in Watched /\ now - sessions[p].last \in Int
    BY <1>6, <1>7, <2>1 DEF Detected
  <2> QED BY <2>2 DEF Stalls
<1>10. \A p : stall(p).p = p /\ stall(p).kind = "token-idle"
  OBVIOUS
<1> HIDE DEF stall
<1>11. /\ DOMAIN stalls' = 1..Cardinality(idle) /\ stalls' \in Seq(Stalls)
       /\ \A i \in DOMAIN stalls' : /\ order[i] \in idle /\ stalls'[i].p = order[i]
                                    /\ stalls'[i].kind = "token-idle"
  BY <1>2, <1>5, <1>8, <1>9, <1>10
<1>12. ASSUME NEW p \in DOMAIN sessions
       PROVE  /\ RememberIdle(sessions[p]) \in Detected
              /\ RememberIdle(sessions[p]).count = sessions[p].count
              /\ RememberIdle(sessions[p]).tool = sessions[p].tool
              /\ RememberIdle(sessions[p]).emitted = sessions[p].emitted \union {"token-idle"}
  BY <1>6 DEF RememberIdle, Detected
<1>13. DOMAIN sessions' = DOMAIN sessions /\ \A p \in DOMAIN sessions :
         /\ sessions'[p] \in Detected
         /\ sessions'[p].count = sessions[p].count
         /\ sessions'[p].tool = sessions[p].tool
         /\ p \in idle => "token-idle" \in sessions'[p].emitted
         /\ "token-idle" \notin sessions'[p].emitted => "token-idle" \notin sessions[p].emitted
  BY <1>1, <1>6, <1>12
<1>14. StallShapes'
  BY <1>1, <1>3, <1>11, <1>13 DEF StallShapes
<1>15. OutputsInv'
  BY <1>1, <1>13, OutputsSame
<1>16. LoopsInv'
  <2>1. ASSUME NEW s \in stalled PROVE s.p \in Watched /\ IsLoop(s)'
    <3>1. \A a, b : ToolCalls(s.p, a, b)' = ToolCalls(s.p, a, b)
      BY <1>1 DEF ToolCalls
    <3>2. Loops(s.p, s.n)' <=> Loops(s.p, s.n)
      BY <1>1, <3>1 DEF Loops
    <3> QED BY <1>1, <3>2 DEF StallInv, LoopsInv, IsLoop
  <2> QED BY <1>1, <1>11, <2>1 DEF LoopsInv
<1>17. SilenceInv'
  <2>1. \A p \in DOMAIN sessions : "token-idle" \notin sessions[p].emitted => Owed(p)
    BY DEF StallInv, SilenceInv
  <2>2. \A p \in Watched : reports'[p].idle <= reports'[p].lives
    BY <1>1 DEF StallInv, SilenceInv
  <2>3. \A p : Owed(p)' <=> Owed(p)
    BY <1>1 DEF Owed
  <2>4. \A p \in DOMAIN sessions' : "token-idle" \notin sessions'[p].emitted => Owed(p)'
    BY <1>13, <2>1, <2>3
  <2>5. \A i \in DOMAIN stalls' : /\ stalls'[i].p \in DOMAIN sessions'
                                  /\ "token-idle" \in sessions'[stalls'[i].p].emitted
    BY <1>7, <1>11, <1>13
  <2>6. (\A i \in DOMAIN stalls : Owed(stalls[i].p))'
    <3>1. \A i \in DOMAIN stalls' : Owed(stalls'[i].p)
      BY <1>7, <1>11, <2>1
    <3> QED BY <1>1, <3>1 DEF Owed
  <2>7. \A i, j \in DOMAIN stalls' : stalls'[i].p = stalls'[j].p => i = j
    BY <1>8, <1>11
  <2> QED BY <2>2, <2>4, <2>5, <2>6, <2>7 DEF SilenceInv
<1> QED BY <1>14, <1>15, <1>16, <1>17 DEF StallInv

LEMMA EmptyMap == DOMAIN <<>> = {} /\ IsFiniteSet({})
BY FS_EmptySet

LEMMA PublishStallKept == ASSUME StallInv, PublishStall PROVE StallInv'
<1>1. UNCHANGED <<now, said, exited>> /\ stalls # <<>> /\ StallShapes
  BY DEF PublishStall, StallInv
<1>2. \A s : s.p \in Watched /\ IsLoop(s) => IsLoop(s)'
  <2>1. \A p, m, n : ToolCalls(p, m, n)' = ToolCalls(p, m, n)
    BY <1>1 DEF ToolCalls
  <2> QED BY <1>1, <2>1 DEF IsLoop, Loops
<1>3. CASE /\ stalls' = <<>> /\ lives' = <<>> /\ outputs' = <<>> /\ sessions' = <<>>
           /\ UNCHANGED <<stalled, reports>>
  <2>1. StallShapes'
    BY <1>1, <1>3, EmptyMap DEF StallShapes
  <2>2. LoopsInv'
    BY <1>2, <1>3 DEF StallInv, LoopsInv
  <2>3. SilenceInv'
    BY <1>3 DEF StallInv, SilenceInv
  <2>4. ASSUME NEW p \in Watched
        PROVE  \E h \in 0..Len(said'[p]) : Waits(p, h)' /\ Counts(p, h)'
    <3>1. said'[p] \in Seq(Said)
      BY <2>1 DEF StallShapes
    <3> DEFINE h == Len(said'[p])
    <3>2. PICK k \in Nat : k = Len(said'[p])
      BY <3>1
    <3>3. Waits(p, k)' /\ Counts(p, k)' /\ k \in 0..Len(said'[p])
      BY <1>3, <3>2 DEF Waits, Counts
    <3> QED BY <3>3
  <2>5. OutputsInv'
    BY <1>3, <2>4 DEF OutputsInv
  <2> QED BY <2>1, <2>2, <2>3, <2>5 DEF StallInv
<1>4. CASE /\ IF Head(stalls).kind = "tool-loop"
                THEN stalled' = stalled \union {Head(stalls)} /\ UNCHANGED reports
                ELSE /\ reports' = [reports EXCEPT ![Head(stalls).p].idle =
                                      reports[Head(stalls).p].idle + 1]
                     /\ UNCHANGED stalled
           /\ stalls' = Tail(stalls) /\ UNCHANGED <<lives, outputs, sessions>>
  <2>1. stalls \in Seq(Stalls) /\ reports \in [Watched -> [idle : Nat, lives : Nat]]
    BY <1>1 DEF StallShapes
  <2>2. /\ Head(stalls) \in Stalls /\ 1 \in DOMAIN stalls /\ Head(stalls) = stalls[1]
        /\ stalls' \in Seq(Stalls)
        /\ \A i \in DOMAIN stalls' : /\ i + 1 \in DOMAIN stalls /\ i + 1 # 1 /\ i \in Nat
                                     /\ stalls'[i] = stalls[i + 1]
    BY <1>1, <1>4, <2>1
  <2>3. PICK p \in Watched : p = Head(stalls).p
    BY <2>2 DEF Stalls
  <2>4. /\ \A i \in DOMAIN stalls : stalls[i].kind = "token-idle" =>
             /\ stalls[i].p \in DOMAIN sessions /\ "token-idle" \in sessions[stalls[i].p].emitted
             /\ Owed(stalls[i].p)
        /\ \A i, j \in DOMAIN stalls :
             (stalls[i].kind = "token-idle" /\ stalls[j].kind = "token-idle"
              /\ stalls[i].p = stalls[j].p) => i = j
    BY DEF StallInv, SilenceInv
  <2>5. OutputsInv'
    BY <1>1, <1>4, OutputsSame
  <2>6. \A i \in DOMAIN stalls : stalls[i].kind = "tool-loop" =>
          stalls[i].p \in Watched /\ IsLoop(stalls[i])
    <3>1. \A i \in DOMAIN stalls : stalls[i] \in Stalls
      BY <2>1
    <3> QED BY <3>1 DEF StallInv, LoopsInv, Stalls
  <2>7. LoopsInv'
    <3>1. ASSUME NEW s \in stalled' PROVE s.p \in Watched /\ IsLoop(s)'
      <4>1. s.p \in Watched /\ IsLoop(s)
        BY <1>4, <2>2, <2>6 DEF StallInv, LoopsInv
      <4> QED BY <1>2, <4>1
    <3>2. ASSUME NEW i \in DOMAIN stalls', stalls'[i].kind = "tool-loop"
          PROVE  (i \in DOMAIN stalls => IsLoop(stalls[i]))'
      <4>1. PICK s : s = stalls[i + 1]
        OBVIOUS
      <4>2. s.p \in Watched /\ IsLoop(s)
        BY <2>2, <2>6, <3>2, <4>1
      <4>3. IsLoop(s)' /\ stalls'[i] = s
        BY <1>2, <2>2, <4>1, <4>2
      <4> QED BY <4>3
    <3> QED BY <3>1, <3>2 DEF LoopsInv
  <2>8. CASE Head(stalls).kind = "tool-loop"
    <3>1. reports' = reports
      BY <1>4, <2>8
    <3>2. StallShapes'
      BY <1>1, <1>4, <2>2, <3>1 DEF StallShapes
    <3>3. \A q : Owed(q)' <=> Owed(q)
      BY <3>1 DEF Owed
    <3>4. SilenceInv'
      <4>1. (\A i \in DOMAIN stalls : stalls[i].kind = "token-idle" =>
               /\ stalls[i].p \in DOMAIN sessions /\ "token-idle" \in sessions[stalls[i].p].emitted
               /\ Owed(stalls[i].p))'
        BY <1>4, <2>2, <2>4, <3>1 DEF Owed
      <4>2. \A i, j \in DOMAIN stalls' :
              (stalls'[i].kind = "token-idle" /\ stalls'[j].kind = "token-idle"
               /\ stalls'[i].p = stalls'[j].p) => i = j
        BY <2>2, <2>4
      <4> QED BY <1>4, <3>1, <3>3, <4>1, <4>2 DEF StallInv, SilenceInv
    <3> QED BY <2>5, <2>7, <3>2, <3>4 DEF StallInv
  <2>9. CASE Head(stalls).kind # "tool-loop"
    <3> DEFINE r == [reports[p] EXCEPT !.idle = reports[p].idle + 1]
    <3>1. r \in [idle : Nat, lives : Nat] /\ r.idle = reports[p].idle + 1
          /\ r.lives = reports[p].lives /\ reports[p].idle \in Nat /\ reports[p].lives \in Nat
      BY <2>1
    <3>2. reports' = [reports EXCEPT ![p] = r]
      BY <1>4, <2>3, <2>9
    <3> HIDE DEF r
    <3>3. reports' \in [Watched -> [idle : Nat, lives : Nat]] /\ reports'[p] = r
          /\ \A q \in Watched : q # p => reports'[q] = reports[q]
      BY <2>1, <3>1, <3>2
    <3>4. StallShapes'
      BY <1>1, <1>4, <2>2, <3>3 DEF StallShapes
    <3>5. Head(stalls).kind = "token-idle"
      BY <2>2, <2>9 DEF Stalls
    <3>6. p \in DOMAIN sessions /\ "token-idle" \in sessions[p].emitted /\ Owed(p)
      BY <2>2, <2>3, <2>4, <3>5
    <3>7. reports'[p].idle <= reports'[p].lives
      BY <3>1, <3>3, <3>6 DEF Owed
    <3>8. \A q \in Watched : q # p => (Owed(q)' <=> Owed(q))
      BY <3>3 DEF Owed
    <3>9. \A q \in Watched : reports'[q].idle <= reports'[q].lives
      BY <3>3, <3>7 DEF StallInv, SilenceInv
    <3>10. \A q \in DOMAIN sessions' : "token-idle" \notin sessions'[q].emitted => Owed(q)'
      BY <1>1, <1>4, <3>6, <3>8 DEF StallInv, SilenceInv, StallShapes
    <3>11. \A i \in DOMAIN stalls' : stalls'[i].kind = "token-idle" =>
             /\ stalls'[i].p # p /\ stalls'[i].p \in DOMAIN sessions
             /\ "token-idle" \in sessions[stalls'[i].p].emitted /\ Owed(stalls'[i].p)
      BY <2>2, <2>3, <2>4, <3>5
    <3>12. (\A i \in DOMAIN stalls : stalls[i].kind = "token-idle" =>
               /\ stalls[i].p \in DOMAIN sessions /\ "token-idle" \in sessions[stalls[i].p].emitted
               /\ Owed(stalls[i].p))'
      <4>1. DOMAIN sessions \subseteq Watched
        BY <1>1 DEF StallShapes
      <4> QED BY <1>4, <3>3, <3>11, <4>1 DEF Owed
    <3>13. \A i, j \in DOMAIN stalls' :
             (stalls'[i].kind = "token-idle" /\ stalls'[j].kind = "token-idle"
              /\ stalls'[i].p = stalls'[j].p) => i = j
      BY <2>2, <2>4
    <3>14. SilenceInv'
      BY <3>9, <3>10, <3>12, <3>13 DEF SilenceInv
    <3> QED BY <2>5, <2>7, <3>4, <3>14 DEF StallInv
  <2> QED BY <2>8, <2>9
<1> QED BY <1>3, <1>4 DEF PublishStall

LEMMA StallInvKept == StallInv /\ [StallNext]_stallVars => StallInv'
BY WatchedMove, SaysKept, LifecycleKept, OutputKept, IdleKept, PublishStallKept
DEF StallNext

-----------------------------------------------------------------------------
(***************************************************************************)
(* The trunk fetcher.                                                      *)
(***************************************************************************)
\* f holds the worktrees known after each of the first n lines of the journal.
Reads(f, type, known, n) ==
  f = [i \in 0..n |-> IF i = 0 THEN known
                      ELSE IF journal[i].type = type THEN ApplyJournaled(f[i - 1], journal[i])
                      ELSE f[i - 1]]

LEMMA ReadsSomehow ==
  ASSUME NEW type, NEW known
  PROVE  \A n \in Nat : \E f : Reads(f, type, known, n)
<1> DEFINE S == {n \in Nat : \E f : Reads(f, type, known, n)}
           Next1(k, i) == IF journal[i].type = type THEN ApplyJournaled(k, journal[i]) ELSE k
<1>1. 0 \in S
  <2> DEFINE g == [i \in 0..0 |-> known]
  <2>1. g = [i \in 0..0 |-> IF i = 0 THEN known ELSE Next1(g[i - 1], i)]
    OBVIOUS
  <2> QED BY <2>1 DEF Reads
<1>2. ASSUME NEW n \in Nat, n \in S PROVE n + 1 \in S
  <2>1. PICK f : Reads(f, type, known, n)
    BY <1>2
  <2>2. f = [i \in 0..n |-> IF i = 0 THEN known ELSE Next1(f[i - 1], i)]
    BY <2>1 DEF Reads
  <2> DEFINE g == [i \in 0..(n + 1) |-> IF i = n + 1 THEN Next1(f[n], n + 1) ELSE f[i]]
  <2>3. ASSUME NEW i \in 0..(n + 1)
        PROVE  g[i] = IF i = 0 THEN known ELSE Next1(g[i - 1], i)
    <3> HIDE DEF Next1
    <3>1. CASE i = n + 1
      <4>1. g[i - 1] = f[n] /\ i # 0
        BY <3>1
      <4> QED BY <3>1, <4>1
    <3>2. CASE i # n + 1 /\ i # 0
      <4>1. i \in 0..n /\ i - 1 \in 0..n /\ i - 1 # n + 1 /\ i - 1 \in 0..(n + 1)
        BY <3>2
      <4>2. g[i] = f[i] /\ g[i - 1] = f[i - 1]
        BY <3>2, <4>1
      <4>3. f[i] = Next1(f[i - 1], i)
        BY <2>2, <3>2, <4>1
      <4> QED BY <3>2, <4>2, <4>3
    <3>3. CASE i = 0
      <4>1. 0 \in 0..n /\ i # n + 1
        BY <3>3
      <4>2. f[0] = known
        BY <2>2, <4>1
      <4> QED BY <3>3, <4>1, <4>2
    <3> QED BY <3>1, <3>2, <3>3
  <2> HIDE DEF Next1
  <2>4. g = [i \in 0..(n + 1) |-> IF i = 0 THEN known ELSE Next1(g[i - 1], i)]
    BY <2>3
  <2> HIDE DEF g
  <2>5. Reads(g, type, known, n + 1)
    BY <2>4 DEF Reads, Next1
  <2> QED BY <2>5
<1> HIDE DEF S
<1>3. Nat \subseteq S
  BY <1>1, <1>2, SetInduction
<1> QED BY <1>3 DEF S

LEMMA ReplayFileReads ==
  ASSUME NEW type, NEW known, Len(journal) \in Nat
  PROVE  \E f : Reads(f, type, known, Len(journal)) /\ ReplayFile(type, known) = f[Len(journal)]
<1> DEFINE f == CHOOSE f : Reads(f, type, known, Len(journal))
<1>1. Reads(f, type, known, Len(journal))
  BY ReadsSomehow
<1>2. ReplayFile(type, known) = f[Len(journal)]
  BY Zenon DEF ReplayFile, Reads
<1> QED BY <1>1, <1>2

CountValues == {Unknown} \union (Int \X Nat)
Trees == UNION {[S -> CountValues] : S \in SUBSET FetchTasks}
JournalLines == [type : {"created"}, task : FetchTasks] \union
                [type : {"counts"}, task : FetchTasks, counts : Int \X Nat]

LEMMA TreesFacts ==
  /\ \A k \in Trees : /\ DOMAIN k \subseteq FetchTasks /\ \A t \in DOMAIN k : k[t] \in CountValues
                      /\ k = [t \in DOMAIN k |-> k[t]]
  /\ \A k : ( /\ DOMAIN k \subseteq FetchTasks /\ \A t \in DOMAIN k : k[t] \in CountValues
              /\ k = [t \in DOMAIN k |-> k[t]] ) => k \in Trees
<1>1. ASSUME NEW k \in Trees
      PROVE  /\ DOMAIN k \subseteq FetchTasks /\ \A t \in DOMAIN k : k[t] \in CountValues
             /\ k = [t \in DOMAIN k |-> k[t]]
  <2>1. PICK S \in SUBSET FetchTasks : k \in [S -> CountValues]
    BY DEF Trees
  <2> QED BY <2>1
<1>2. ASSUME NEW k, DOMAIN k \subseteq FetchTasks, \A t \in DOMAIN k : k[t] \in CountValues,
             k = [t \in DOMAIN k |-> k[t]]
      PROVE  k \in Trees
  <2>1. k \in [DOMAIN k -> CountValues]
    BY <1>2
  <2> QED BY <1>2, <2>1 DEF Trees
<1> QED BY <1>1, <1>2

LEMMA AppliesType ==
  ASSUME NEW k \in Trees, NEW e \in JournalLines
  PROVE  /\ ApplyJournaled(k, e) \in Trees
         /\ DOMAIN ApplyJournaled(k, e) =
              IF e.type = "created" THEN DOMAIN k \union {e.task} ELSE DOMAIN k
         /\ \A t \in DOMAIN ApplyJournaled(k, e) :
              ApplyJournaled(k, e)[t] =
                IF t # e.task THEN k[t] ELSE IF e.type = "created" THEN Unknown ELSE e.counts
<1>1. /\ DOMAIN k \subseteq FetchTasks /\ \A t \in DOMAIN k : k[t] \in CountValues
      /\ k = [t \in DOMAIN k |-> k[t]]
  BY TreesFacts
<1>2. e.task \in FetchTasks /\ e.type \in {"created", "counts"}
  BY DEF JournalLines
<1> DEFINE new == ApplyJournaled(k, e)
<1>3. CASE e.type = "created"
  <2>1. new = [t \in DOMAIN k \union {e.task} |-> IF t = e.task THEN Unknown ELSE k[t]]
    BY <1>3 DEF ApplyJournaled
  <2> HIDE DEF new
  <2>2. /\ DOMAIN new = DOMAIN k \union {e.task} /\ new = [t \in DOMAIN new |-> new[t]]
        /\ \A t \in DOMAIN new : new[t] = IF t = e.task THEN Unknown ELSE k[t]
    BY <2>1
  <2>3. \A t \in DOMAIN new : new[t] \in CountValues
    BY <1>1, <2>2 DEF CountValues
  <2>4. new \in Trees
    BY <1>1, <1>2, <2>2, <2>3, TreesFacts
  <2> QED BY <1>3, <2>2, <2>4 DEF new
<1>4. CASE e.type = "counts"
  <2>1. e.counts \in CountValues
    BY <1>4 DEF JournalLines, CountValues
  <2>2. new = IF e.task \in DOMAIN k THEN [k EXCEPT ![e.task] = e.counts] ELSE k
    BY <1>4 DEF ApplyJournaled
  <2> HIDE DEF new
  <2>3. /\ DOMAIN new = DOMAIN k /\ new = [t \in DOMAIN new |-> new[t]]
        /\ \A t \in DOMAIN new : new[t] = IF t = e.task THEN e.counts ELSE k[t]
    <3>1. CASE e.task \in DOMAIN k
      <4>1. new = [k EXCEPT ![e.task] = e.counts]
        BY <2>2, <3>1
      <4> QED BY <1>1, <4>1
    <3>2. CASE e.task \notin DOMAIN k
      <4>1. new = k
        BY <2>2, <3>2
      <4> QED BY <1>1, <3>2, <4>1
    <3> QED BY <3>1, <3>2
  <2>4. \A t \in DOMAIN new : new[t] \in CountValues
    BY <1>1, <2>1, <2>3
  <2>5. new \in Trees
    BY <1>1, <2>3, <2>4, TreesFacts
  <2> QED BY <1>4, <2>3, <2>5 DEF new
<1> QED BY <1>2, <1>3, <1>4

\* The created file leaves a worktree for each of its lines.
LEMMA CreatedRead ==
  ASSUME journal \in Seq(JournalLines)
  PROVE  LET known == ReplayFile("created", None)
         IN /\ known \in Trees
            /\ \A t : t \in DOMAIN known <=>
                 \E i \in DOMAIN journal : journal[i].type = "created" /\ journal[i].task = t
            /\ \A t \in DOMAIN known : known[t] = Unknown
<1>1. Len(journal) \in Nat /\ DOMAIN journal = 1..Len(journal)
      /\ \A i \in DOMAIN journal : journal[i] \in JournalLines
  OBVIOUS
<1>2. PICK f : Reads(f, "created", None, Len(journal))
               /\ ReplayFile("created", None) = f[Len(journal)]
  BY <1>1, ReplayFileReads
<1> DEFINE Good(n) ==
      /\ f[n] \in Trees /\ \A t \in DOMAIN f[n] : f[n][t] = Unknown
      /\ \A t : t \in DOMAIN f[n] <=>
           \E i \in 1..n : journal[i].type = "created" /\ journal[i].task = t
    S == {n \in Nat : n <= Len(journal) => Good(n)}
<1>3. 0 \in S
  <2>1. f[0] = None
    BY <1>1, <1>2 DEF Reads
  <2>2. DOMAIN None = {} /\ None = [t \in DOMAIN None |-> None[t]]
    BY DEF None
  <2>3. None \in Trees
    BY <2>2, TreesFacts
  <2> QED BY <2>1, <2>2, <2>3
<1>4. ASSUME NEW n \in Nat, n \in S PROVE n + 1 \in S
  <2> SUFFICES ASSUME n + 1 <= Len(journal) PROVE Good(n + 1)
    OBVIOUS
  <2>1. Good(n) /\ n + 1 \in 0..Len(journal) /\ n + 1 \in DOMAIN journal /\ n + 1 # 0
        /\ (n + 1) - 1 = n
    BY <1>1, <1>4
  <2> DEFINE e == journal[n + 1]
  <2>2. f[n + 1] = IF e.type = "created" THEN ApplyJournaled(f[n], e) ELSE f[n]
    BY <1>2, <2>1 DEF Reads
  <2>3. e \in JournalLines
    BY <1>1, <2>1
  <2>4. \A i : i \in 1..(n + 1) <=> i \in 1..n \/ i = n + 1
    OBVIOUS
  <2>5. CASE e.type = "created"
    <3>1. f[n + 1] = ApplyJournaled(f[n], e)
      BY <2>2, <2>5
    <3>2. /\ f[n + 1] \in Trees /\ DOMAIN f[n + 1] = DOMAIN f[n] \union {e.task}
          /\ \A t \in DOMAIN f[n + 1] : f[n + 1][t] = IF t # e.task THEN f[n][t] ELSE Unknown
      <4>1. /\ ApplyJournaled(f[n], e) \in Trees
            /\ DOMAIN ApplyJournaled(f[n], e) =
                 IF e.type = "created" THEN DOMAIN f[n] \union {e.task} ELSE DOMAIN f[n]
            /\ \A t \in DOMAIN ApplyJournaled(f[n], e) :
                 ApplyJournaled(f[n], e)[t] =
                   IF t # e.task THEN f[n][t] ELSE IF e.type = "created" THEN Unknown ELSE e.counts
        BY <2>1, <2>3, AppliesType
      <4> HIDE DEF e
      <4> QED BY <2>5, <3>1, <4>1
    <3> QED BY <2>1, <2>4, <2>5, <3>2
  <2>6. CASE e.type # "created"
    <3>1. f[n + 1] = f[n]
      BY <2>2, <2>6
    <3> QED BY <2>1, <2>4, <2>6, <3>1
  <2> QED BY <2>5, <2>6
<1>5. Len(journal) \in S
  <2> HIDE DEF S
  <2> QED BY <1>1, <1>3, <1>4, SetInduction
<1> QED BY <1>1, <1>2, <1>5

\* The branch file leaves each of them with what its last line says.
LEMMA CountsRead ==
  ASSUME journal \in Seq(JournalLines), NEW known \in Trees, \A t \in DOMAIN known : known[t] = Unknown
  PROVE  LET after == ReplayFile("counts", known)
         IN /\ after \in Trees /\ DOMAIN after = DOMAIN known
            /\ \A t \in DOMAIN known :
                 \/ /\ after[t] = Unknown
                    /\ \A j \in DOMAIN journal : ~(journal[j].type = "counts" /\ journal[j].task = t)
                 \/ \E i \in DOMAIN journal :
                      /\ journal[i].type = "counts" /\ journal[i].task = t
                      /\ after[t] = journal[i].counts
                      /\ \A j \in DOMAIN journal :
                           journal[j].type = "counts" /\ journal[j].task = t => j <= i
<1>1. Len(journal) \in Nat /\ DOMAIN journal = 1..Len(journal)
      /\ \A i \in DOMAIN journal : journal[i] \in JournalLines
  OBVIOUS
<1>2. PICK f : Reads(f, "counts", known, Len(journal))
               /\ ReplayFile("counts", known) = f[Len(journal)]
  BY <1>1, ReplayFileReads
<1> DEFINE Counts1(i, t) == journal[i].type = "counts" /\ journal[i].task = t
           Good(n) ==
      /\ f[n] \in Trees /\ DOMAIN f[n] = DOMAIN known
      /\ \A t \in DOMAIN known :
           \/ f[n][t] = Unknown /\ \A j \in 1..n : ~Counts1(j, t)
           \/ \E i \in 1..n : /\ Counts1(i, t) /\ f[n][t] = journal[i].counts
                              /\ \A j \in 1..n : Counts1(j, t) => j <= i
    S == {n \in Nat : n <= Len(journal) => Good(n)}
<1>3. 0 \in S
  <2>1. f[0] = known
    BY <1>1, <1>2 DEF Reads
  <2> QED BY <2>1
<1>4. ASSUME NEW n \in Nat, n \in S PROVE n + 1 \in S
  <2> SUFFICES ASSUME n + 1 <= Len(journal) PROVE Good(n + 1)
    OBVIOUS
  <2>1. Good(n) /\ n + 1 \in 0..Len(journal) /\ n + 1 \in DOMAIN journal /\ n + 1 # 0
        /\ (n + 1) - 1 = n
    BY <1>1, <1>4
  <2> DEFINE e == journal[n + 1]
  <2>2. f[n + 1] = IF e.type = "counts" THEN ApplyJournaled(f[n], e) ELSE f[n]
    <3>1. f = [i \in 0..Len(journal) |->
                 IF i = 0 THEN known
                 ELSE IF journal[i].type = "counts" THEN ApplyJournaled(f[i - 1], journal[i])
                 ELSE f[i - 1]]
      BY <1>2 DEF Reads
    <3> HIDE DEF Good
    <3> QED BY <2>1, <3>1
  <2>3. e \in JournalLines
    BY <1>1, <2>1
  <2>4. \A i : i \in 1..(n + 1) <=> i \in 1..n \/ i = n + 1
    OBVIOUS
  <2>5. \A i \in 1..n : i <= n + 1
    OBVIOUS
  <2>6. CASE e.type = "counts"
    <3>1. f[n + 1] = ApplyJournaled(f[n], e)
      BY <2>2, <2>6
    <3>2. /\ f[n + 1] \in Trees /\ DOMAIN f[n + 1] = DOMAIN f[n]
          /\ \A t \in DOMAIN f[n + 1] : f[n + 1][t] = IF t # e.task THEN f[n][t] ELSE e.counts
      <4>1. /\ ApplyJournaled(f[n], e) \in Trees
            /\ DOMAIN ApplyJournaled(f[n], e) =
                 IF e.type = "created" THEN DOMAIN f[n] \union {e.task} ELSE DOMAIN f[n]
            /\ \A t \in DOMAIN ApplyJournaled(f[n], e) :
                 ApplyJournaled(f[n], e)[t] =
                   IF t # e.task THEN f[n][t] ELSE IF e.type = "created" THEN Unknown ELSE e.counts
        BY <2>1, <2>3, AppliesType
      <4> HIDE DEF e
      <4> QED BY <2>6, <3>1, <4>1
    <3>3. ASSUME NEW t \in DOMAIN known
          PROVE  \/ f[n + 1][t] = Unknown /\ \A j \in 1..(n + 1) : ~Counts1(j, t)
                 \/ \E i \in 1..(n + 1) : /\ Counts1(i, t) /\ f[n + 1][t] = journal[i].counts
                                          /\ \A j \in 1..(n + 1) : Counts1(j, t) => j <= i
      <4>1. CASE t = e.task
        <5>1. Counts1(n + 1, t) /\ f[n + 1][t] = journal[n + 1].counts
          BY <2>1, <2>6, <3>2, <4>1
        <5> QED BY <2>4, <2>5, <5>1
      <4>2. CASE t # e.task
        <5>1. f[n + 1][t] = f[n][t] /\ ~Counts1(n + 1, t)
          BY <2>1, <3>2, <4>2
        <5> QED BY <2>1, <2>4, <5>1
      <4> QED BY <4>1, <4>2
    <3> QED BY <2>1, <3>2, <3>3
  <2>7. CASE e.type # "counts"
    <3>1. f[n + 1] = f[n] /\ \A t : ~Counts1(n + 1, t)
      BY <2>2, <2>7
    <3> QED BY <2>1, <2>4, <3>1
  <2> QED BY <2>6, <2>7
<1>5. Len(journal) \in S
  <2> HIDE DEF S
  <2> QED BY <1>1, <1>3, <1>4, SetInduction
<1> QED BY <1>1, <1>2, <1>5

TreeTold(t) == \E i \in DOMAIN journal : journal[i].type = "created" /\ journal[i].task = t
Moving == {"fetching", "comparing"}

\* A worktree is told of once, before any count, and only while it is there.
JournalInv ==
  /\ journal \in Seq(JournalLines) /\ head \in [FetchTasks -> [base : Nat, ahead : Nat]]
  /\ trunk \in Nat \ {0} /\ remote \in Nat /\ trunk <= remote /\ remote <= MaxTrunkRev
  /\ \A i, j \in DOMAIN journal :
       (journal[i].type = "created" /\ journal[j].task = journal[i].task) => i <= j
  /\ \A i \in DOMAIN journal : TreeTold(journal[i].task)
  /\ \A t \in FetchTasks : (head[t] # NoTree => head[t].base # 0) /\ (head[t] # NoTree <=> TreeTold(t))

Fetchers ==
  {Ended} \union [at : {"starting"}, known : Trees] \union
  [at : {"waiting"}, known : Trees, inbox : Seq(FetchTasks)] \union
  [at : Moving, known : Trees, inbox : Seq(FetchTasks), before : Nat \ {0}] \union
  [at : {"counting"}, known : Trees, inbox : Seq(FetchTasks), todo : SUBSET FetchTasks]

KnownIsTold(known) == \A t \in DOMAIN known : ToldLast(t, known[t])

\* What was told and not yet handled is of worktrees the fetcher does not know
\* and has never counted, each once.
Awaits(known, arrived) ==
  /\ \A k \in DOMAIN arrived :
       /\ arrived[k] \notin DOMAIN known /\ TreeTold(arrived[k])
       /\ \A j \in DOMAIN journal : journal[j].task = arrived[k] => journal[j].type = "created"
  /\ \A k, l \in DOMAIN arrived : arrived[k] = arrived[l] => k = l

FetcherInv ==
  /\ fetcher \in Fetchers
  /\ fetcher.at # "down" => KnownIsTold(fetcher.known)
  /\ "inbox" \in DOMAIN fetcher => Awaits(fetcher.known, fetcher.inbox)
  /\ fetcher.at = "counting" => fetcher.todo \subseteq DOMAIN fetcher.known

\* Every move told ends where trunk was when the fetch under way began, or before.
MovesInv ==
  /\ moves \in Seq(Nat \X Nat)
  /\ \A i \in DOMAIN moves : /\ moves[i][1] < moves[i][2] /\ moves[i][2] <= trunk
                             /\ i > 1 => moves[i - 1][2] <= moves[i][1]
  /\ fetcher.at \in Moving => /\ fetcher.before <= trunk
                              /\ \A i \in DOMAIN moves : moves[i][2] <= fetcher.before

TrunkInv == JournalInv /\ FetcherInv /\ MovesInv

LEMMA FetchersFacts ==
  ASSUME fetcher \in Fetchers
  PROVE  /\ fetcher.at \in {"down", "starting", "waiting", "fetching", "comparing", "counting"}
         /\ fetcher.at = "down" => fetcher = Ended
         /\ fetcher.at # "down" => fetcher.known \in Trees
         /\ fetcher.at = "starting" => fetcher \in [at : {"starting"}, known : Trees]
         /\ fetcher.at = "waiting" =>
              fetcher \in [at : {"waiting"}, known : Trees, inbox : Seq(FetchTasks)]
         /\ fetcher.at \in Moving =>
              fetcher \in [at : Moving, known : Trees, inbox : Seq(FetchTasks), before : Nat \ {0}]
         /\ fetcher.at = "counting" =>
              fetcher \in [at : {"counting"}, known : Trees, inbox : Seq(FetchTasks),
                           todo : SUBSET FetchTasks]
         /\ "inbox" \in DOMAIN fetcher <=> fetcher.at \notin {"down", "starting"}
BY DEF Fetchers, Ended, Moving

LEMMA TrunkStarts == TrunkInit => TrunkInv
<1> SUFFICES ASSUME TrunkInit PROVE TrunkInv
  OBVIOUS
<1>1. JournalInv
  <2>1. head \in [FetchTasks -> [base : Nat, ahead : Nat]]
    BY DEF TrunkInit, NoTree
  <2> QED BY <2>1, FetchAssumption DEF TrunkInit, JournalInv, TreeTold
<1>2. FetcherInv
  BY DEF TrunkInit, FetcherInv, Fetchers, Ended
<1>3. MovesInv
  BY DEF TrunkInit, MovesInv, Ended, Moving
<1> QED BY <1>1, <1>2, <1>3 DEF TrunkInv

LEMMA TrunkInvImplies == TrunkInv => TrunkTypeOK /\ StalenessIsTold
<1> SUFFICES ASSUME TrunkInv PROVE TrunkTypeOK /\ StalenessIsTold
  OBVIOUS
<1>1. TrunkTypeOK
  BY FetchersFacts, FetchAssumption
  DEF TrunkInv, JournalInv, FetcherInv, TrunkTypeOK
<1>2. StalenessIsTold
  BY DEF TrunkInv, FetcherInv, KnownIsTold, MovesInv, StalenessIsTold
<1> QED BY <1>1, <1>2

\* What a replay leaves is what the journal said last.
LEMMA ReplayedIsTold ==
  ASSUME TrunkInv
  PROVE  TreesReplayed \in Trees /\ KnownIsTold(TreesReplayed)
<1> DEFINE known == ReplayFile("created", None)
           after == ReplayFile("counts", known)
<1>1. journal \in Seq(JournalLines)
  BY DEF TrunkInv, JournalInv
<1>2. /\ known \in Trees
      /\ \A t : t \in DOMAIN known <=>
           \E i \in DOMAIN journal : journal[i].type = "created" /\ journal[i].task = t
      /\ \A t \in DOMAIN known : known[t] = Unknown
  BY <1>1, CreatedRead
<1> HIDE DEF known
<1>3. /\ after \in Trees /\ DOMAIN after = DOMAIN known
      /\ \A t \in DOMAIN known :
           \/ /\ after[t] = Unknown
              /\ \A j \in DOMAIN journal : ~(journal[j].type = "counts" /\ journal[j].task = t)
           \/ \E i \in DOMAIN journal :
                /\ journal[i].type = "counts" /\ journal[i].task = t
                /\ after[t] = journal[i].counts
                /\ \A j \in DOMAIN journal :
                     journal[j].type = "counts" /\ journal[j].task = t => j <= i
  BY <1>1, <1>2, CountsRead
<1>4. TreesReplayed = after
  BY DEF TreesReplayed, known
<1> HIDE DEF after
<1>5. /\ DOMAIN journal = 1..Len(journal) /\ Len(journal) \in Nat
      /\ \A i \in DOMAIN journal : journal[i] \in JournalLines
  BY <1>1
<1>6. \A i \in DOMAIN journal : journal[i].type \in {"created", "counts"} /\ i \in Nat
  BY <1>5 DEF JournalLines
<1>7. \A i, j \in DOMAIN journal :
        (journal[i].type = "created" /\ journal[j].task = journal[i].task) => i <= j
  BY DEF TrunkInv, JournalInv
<1>8. ASSUME NEW t \in DOMAIN after PROVE ToldLast(t, after[t])
  <2>1. PICK c \in DOMAIN journal : journal[c].type = "created" /\ journal[c].task = t
    BY <1>2, <1>3
  <2>2. CASE /\ after[t] = Unknown
             /\ \A j \in DOMAIN journal : ~(journal[j].type = "counts" /\ journal[j].task = t)
    <3>1. ASSUME NEW j \in DOMAIN journal, journal[j].task = t PROVE j <= c
      <4>1. journal[j].type = "created"
        BY <1>6, <2>2, <3>1
      <4> QED BY <1>7, <2>1, <3>1, <4>1
    <3> QED BY <2>1, <2>2, <3>1 DEF ToldLast
  <2>3. CASE \E i \in DOMAIN journal :
               /\ journal[i].type = "counts" /\ journal[i].task = t
               /\ after[t] = journal[i].counts
               /\ \A j \in DOMAIN journal :
                    journal[j].type = "counts" /\ journal[j].task = t => j <= i
    <3>1. PICK i \in DOMAIN journal :
               /\ journal[i].type = "counts" /\ journal[i].task = t
               /\ after[t] = journal[i].counts
               /\ \A j \in DOMAIN journal :
                    journal[j].type = "counts" /\ journal[j].task = t => j <= i
      BY <2>3
    <3>2. ASSUME NEW j \in DOMAIN journal, journal[j].task = t PROVE j <= i
      BY <1>6, <1>7, <3>1, <3>2
    <3> QED BY <3>1, <3>2 DEF ToldLast
  <2> QED BY <1>3, <2>2, <2>3
<1> QED BY <1>3, <1>4, <1>8 DEF KnownIsTold

LEMMA JournalSame ==
  ASSUME TrunkInv, UNCHANGED journal
  PROVE  /\ \A t : TreeTold(t)' <=> TreeTold(t)
         /\ \A k : KnownIsTold(k)' <=> KnownIsTold(k)
         /\ \A k, q : Awaits(k, q)' <=> Awaits(k, q)
BY DEF ToldLast, TreeTold, KnownIsTold, Awaits

LEMMA JournalGrows ==
  ASSUME TrunkInv, NEW e \in JournalLines, journal' = Append(journal, e)
  PROVE  /\ journal' \in Seq(JournalLines) /\ DOMAIN journal' = DOMAIN journal \union {Len(journal) + 1}
         /\ Len(journal) + 1 \notin DOMAIN journal /\ Len(journal) \in Nat
         /\ journal'[Len(journal) + 1] = e
         /\ \A i \in DOMAIN journal : journal'[i] = journal[i] /\ i < Len(journal) + 1 /\ i \in Nat
         /\ \A t, c : t # e.task /\ ToldLast(t, c) => ToldLast(t, c)'
         /\ \A t : TreeTold(t)' <=> TreeTold(t) \/ (e.type = "created" /\ e.task = t)
         /\ ToldLast(e.task, IF e.type = "created" THEN Unknown ELSE e.counts)'
<1> DEFINE n == Len(journal)
<1>1. journal \in Seq(JournalLines)
  BY DEF TrunkInv, JournalInv
<1>2. /\ journal' \in Seq(JournalLines) /\ DOMAIN journal' = DOMAIN journal \union {n + 1}
      /\ n + 1 \notin DOMAIN journal /\ n \in Nat /\ journal'[n + 1] = e
      /\ \A i \in DOMAIN journal : journal'[i] = journal[i] /\ i < n + 1 /\ i \in Nat
  BY <1>1
<1>3. PICK m \in Nat : m = n + 1
  BY <1>2
<1> HIDE DEF n
<1>4. ASSUME NEW t, NEW c, t # e.task, ToldLast(t, c) PROVE ToldLast(t, c)'
  <2>1. PICK i \in DOMAIN journal :
          /\ journal[i].task = t /\ \A j \in DOMAIN journal : journal[j].task = t => j <= i
          /\ c = IF journal[i].type = "created" THEN Unknown ELSE journal[i].counts
    BY <1>4 DEF ToldLast
  <2>2. i \in DOMAIN journal' /\ journal'[i] = journal[i]
    BY <1>2
  <2>3. \A j \in DOMAIN journal' : journal'[j].task = t => j <= i
    BY <1>2, <1>4, <2>1
  <2> QED BY <2>1, <2>2, <2>3 DEF ToldLast
<1>5. \A t : TreeTold(t)' <=> TreeTold(t) \/ (e.type = "created" /\ e.task = t)
  BY <1>2 DEF TreeTold
<1>6. ToldLast(e.task, IF e.type = "created" THEN Unknown ELSE e.counts)'
  <2>1. m \in DOMAIN journal' /\ journal'[m] = e /\ \A j \in DOMAIN journal' : j <= m
    BY <1>2, <1>3
  <2> QED BY <2>1 DEF ToldLast
<1> QED BY <1>2, <1>4, <1>5, <1>6 DEF n

\* Trunk moves, at the remote or in the clone.
LEMMA TrunkMoves ==
  ASSUME TrunkInv, RemoteMoves \/ OtherFetch \/ UNCHANGED trunkVars
  PROVE  TrunkInv'
<1>1. UNCHANGED <<head, fetcher, journal, moves>>
  BY DEF RemoteMoves, OtherFetch, trunkVars
<1>2. trunk' \in Nat \ {0} /\ remote' \in Nat /\ trunk' <= remote' /\ remote' <= MaxTrunkRev
      /\ trunk <= trunk' /\ trunk \in Nat \ {0}
  BY FetchAssumption DEF RemoteMoves, OtherFetch, trunkVars, TrunkInv, JournalInv
<1>3. JournalInv'
  BY <1>1, <1>2 DEF TrunkInv, JournalInv, TreeTold
<1>4. FetcherInv'
  BY <1>1 DEF TrunkInv, FetcherInv, KnownIsTold, ToldLast, Awaits, TreeTold
<1>5. MovesInv'
  <2>1. moves \in Seq(Nat \X Nat) /\ \A i \in DOMAIN moves : moves[i][2] <= trunk
    BY DEF TrunkInv, MovesInv
  <2>2. \A i \in DOMAIN moves : moves[i] \in Nat \X Nat
    BY <2>1
  <2>3. \A i \in DOMAIN moves : moves[i][2] <= trunk'
    BY <1>2, <2>1, <2>2
  <2>4. fetcher.at \in Moving => fetcher.before <= trunk'
    <3>1. fetcher.at \in Moving => fetcher.before \in Nat /\ fetcher.before <= trunk
      BY FetchersFacts DEF TrunkInv, FetcherInv, MovesInv
    <3> QED BY <1>2, <3>1
  <2> QED BY <1>1, <2>3, <2>4 DEF TrunkInv, MovesInv
<1> QED BY <1>3, <1>4, <1>5 DEF TrunkInv

LEMMA TreeMovesKept == ASSUME TrunkInv, NEW t \in FetchTasks, TreeMoves(t) PROVE TrunkInv'
<1>1. UNCHANGED <<remote, trunk, fetcher, journal, moves>> /\ head[t] # NoTree
  BY DEF TreeMoves
<1>2. head \in [FetchTasks -> [base : Nat, ahead : Nat]] /\ trunk \in Nat \ {0}
      /\ head[t].base # 0
  BY <1>1 DEF TrunkInv, JournalInv
<1>3. /\ head' \in [FetchTasks -> [base : Nat, ahead : Nat]] /\ head'[t].base # 0
      /\ \A u \in FetchTasks : u # t => head'[u] = head[u]
  <2>1. CASE head' = [head EXCEPT ![t].ahead = 1]
    <3> DEFINE r == [head[t] EXCEPT !.ahead = 1]
    <3>1. r \in [base : Nat, ahead : Nat] /\ r.base = head[t].base
      BY <1>2
    <3>2. head' = [head EXCEPT ![t] = r]
      BY <2>1
    <3> HIDE DEF r
    <3> QED BY <1>2, <3>1, <3>2
  <2>2. CASE head' = [head EXCEPT ![t].base = trunk]
    <3> DEFINE r == [head[t] EXCEPT !.base = trunk]
    <3>1. r \in [base : Nat, ahead : Nat] /\ r.base = trunk
      BY <1>2
    <3>2. head' = [head EXCEPT ![t] = r]
      BY <2>2
    <3> HIDE DEF r
    <3> QED BY <1>2, <3>1, <3>2
  <2> QED BY <2>1, <2>2 DEF TreeMoves
<1>4. head'[t] # NoTree
  BY <1>3 DEF NoTree
<1>5. \A u \in FetchTasks : (head'[u] # NoTree => head'[u].base # 0)
                            /\ (head'[u] # NoTree <=> head[u] # NoTree)
  BY <1>1, <1>3, <1>4 DEF TrunkInv, JournalInv
<1>6. JournalInv'
  BY <1>1, <1>3, <1>5 DEF TrunkInv, JournalInv, TreeTold
<1>7. FetcherInv'
  BY <1>1 DEF TrunkInv, FetcherInv, KnownIsTold, ToldLast, Awaits, TreeTold
<1>8. MovesInv'
  BY <1>1 DEF TrunkInv, MovesInv
<1> QED BY <1>6, <1>7, <1>8 DEF TrunkInv

\* The journal is as it was and trunk has not gone back.
LEMMA FetcherSteps ==
  ASSUME TrunkInv, UNCHANGED <<remote, head, journal>>, trunk' \in {trunk, remote},
         FetcherInv', MovesInv'
  PROVE  TrunkInv'
<1>1. JournalInv'
  BY DEF TrunkInv, JournalInv, TreeTold
<1> QED BY <1>1 DEF TrunkInv

LEMMA CreatedKept == ASSUME TrunkInv, NEW t \in FetchTasks, TreeCreated(t) PROVE TrunkInv'
<1> DEFINE e == [type |-> "created", task |-> t]
<1>1. UNCHANGED <<remote, trunk, moves>> /\ head[t] = NoTree /\ journal' = Append(journal, e)
      /\ head' = [head EXCEPT ![t] = [base |-> trunk, ahead |-> 0]]
      /\ fetcher' = IF "inbox" \in DOMAIN fetcher
                      THEN [fetcher EXCEPT !.inbox = Append(fetcher.inbox, t)] ELSE fetcher
  BY DEF TreeCreated
<1>2. e \in JournalLines /\ e.type = "created" /\ e.task = t
  BY DEF JournalLines
<1> HIDE DEF e
<1> DEFINE n == Len(journal) + 1
<1>3. /\ journal' \in Seq(JournalLines) /\ DOMAIN journal' = DOMAIN journal \union {n}
      /\ n \notin DOMAIN journal /\ Len(journal) \in Nat /\ journal'[n] = e
      /\ \A i \in DOMAIN journal : journal'[i] = journal[i] /\ i < n /\ i \in Nat
      /\ \A u, c : u # t /\ ToldLast(u, c) => ToldLast(u, c)'
      /\ \A u : TreeTold(u)' <=> TreeTold(u) \/ u = t
  BY <1>1, <1>2, JournalGrows
<1>4. n \in Nat
  BY <1>3
<1> HIDE DEF n
<1>5. ~TreeTold(t) /\ \A i \in DOMAIN journal : journal[i].task # t
  BY <1>1 DEF TrunkInv, JournalInv
<1>6. head \in [FetchTasks -> [base : Nat, ahead : Nat]] /\ trunk \in Nat \ {0}
  BY DEF TrunkInv, JournalInv
<1>7. /\ head' \in [FetchTasks -> [base : Nat, ahead : Nat]] /\ head'[t].base # 0
      /\ head'[t] # NoTree /\ \A u \in FetchTasks : u # t => head'[u] = head[u]
  BY <1>1, <1>6 DEF NoTree
<1>8. \A i, j \in DOMAIN journal' :
        (journal'[i].type = "created" /\ journal'[j].task = journal'[i].task) => i <= j
  <2> SUFFICES ASSUME NEW i \in DOMAIN journal', NEW j \in DOMAIN journal',
                      journal'[i].type = "created", journal'[j].task = journal'[i].task
               PROVE  i <= j
    OBVIOUS
  <2>1. CASE i \in DOMAIN journal /\ j \in DOMAIN journal
    BY <1>3, <2>1 DEF TrunkInv, JournalInv
  <2>2. CASE j = n
    BY <1>3, <1>4, <2>2
  <2>3. CASE i = n /\ j \in DOMAIN journal
    BY <1>2, <1>3, <1>5, <2>3
  <2> QED BY <1>3, <2>1, <2>2, <2>3
<1>9. (\A i \in DOMAIN journal : TreeTold(journal[i].task))'
  <2> SUFFICES ASSUME NEW i \in DOMAIN journal' PROVE TreeTold(journal[i].task)'
    OBVIOUS
  <2>1. PICK u : u = journal'[i].task
    OBVIOUS
  <2>2. \A k \in DOMAIN journal : TreeTold(journal[k].task)
    BY DEF TrunkInv, JournalInv
  <2>3. TreeTold(u)'
    BY <1>2, <1>3, <2>1, <2>2
  <2> QED BY <2>1, <2>3 DEF TreeTold
<1>10. \A u \in FetchTasks : (head'[u] # NoTree => head'[u].base # 0)
                              /\ (head'[u] # NoTree <=> TreeTold(u)')
  BY <1>3, <1>5, <1>7 DEF TrunkInv, JournalInv
<1>11. JournalInv'
  BY <1>1, <1>3, <1>7, <1>8, <1>9, <1>10 DEF TrunkInv, JournalInv
<1>12. fetcher \in Fetchers /\ FetcherInv
  BY DEF TrunkInv, FetcherInv
<1>13. ASSUME NEW k, KnownIsTold(k) PROVE t \notin DOMAIN k /\ KnownIsTold(k)'
  <2>1. \A u, c : ToldLast(u, c) => u # t
    BY <1>5 DEF ToldLast
  <2> QED BY <1>3, <1>13, <2>1 DEF KnownIsTold
<1>14. ASSUME NEW k, NEW q \in Seq(FetchTasks), Awaits(k, q), t \notin DOMAIN k
       PROVE  Awaits(k, q)' /\ Awaits(k, Append(q, t))'
  <2> DEFINE more == Append(q, t)
  <2>1. /\ DOMAIN more = DOMAIN q \union {Len(q) + 1} /\ more[Len(q) + 1] = t
        /\ \A i \in DOMAIN q : more[i] = q[i]
    OBVIOUS
  <2> HIDE DEF more
  <2>2. ASSUME NEW i \in DOMAIN q
        PROVE  /\ q[i] \notin DOMAIN k /\ q[i] # t /\ TreeTold(q[i])'
               /\ \A j \in DOMAIN journal' : journal'[j].task = q[i] => journal'[j].type = "created"
    BY <1>2, <1>3, <1>5, <1>14 DEF Awaits
  <2>3. TreeTold(t)' /\ \A j \in DOMAIN journal' : journal'[j].task = t => journal'[j].type = "created"
    BY <1>2, <1>3, <1>5
  <2>4. Awaits(k, q)'
    BY <1>14, <2>2 DEF Awaits
  <2>5. \A i \in DOMAIN more :
          /\ more[i] \notin DOMAIN k /\ TreeTold(more[i])'
          /\ \A j \in DOMAIN journal' : journal'[j].task = more[i] => journal'[j].type = "created"
    BY <1>14, <2>1, <2>2, <2>3
  <2>6. \A i, j \in DOMAIN more : more[i] = more[j] => i = j
    BY <1>14, <2>1, <2>2 DEF Awaits
  <2>7. Awaits(k, more)'
    BY <2>5, <2>6 DEF Awaits
  <2> QED BY <2>4, <2>7 DEF more
<1>15. CASE "inbox" \notin DOMAIN fetcher
  <2>1. fetcher' = fetcher
    BY <1>1, <1>15
  <2>2. PICK k : k = fetcher.known
    OBVIOUS
  <2>3. fetcher.at # "down" => KnownIsTold(k)'
    BY <1>12, <1>13, <2>2 DEF FetcherInv
  <2>4. fetcher.at # "down" => KnownIsTold(fetcher.known)'
    BY <2>1, <2>2, <2>3 DEF KnownIsTold
  <2>5. FetcherInv'
    BY <1>12, <1>15, <2>1, <2>4 DEF FetcherInv
  <2>6. MovesInv'
    BY <1>1, <2>1 DEF TrunkInv, MovesInv
  <2> QED BY <1>11, <2>5, <2>6 DEF TrunkInv
<1>16. CASE "inbox" \in DOMAIN fetcher
  <2>1. fetcher' = [fetcher EXCEPT !.inbox = Append(fetcher.inbox, t)]
    BY <1>1, <1>16
  <2>2. PICK k, q : k = fetcher.known /\ q = fetcher.inbox
    OBVIOUS
  <2>3. fetcher.at # "down" /\ q \in Seq(FetchTasks)
    <3>1. fetcher.at \notin {"down", "starting"}
      BY <1>12, <1>16, FetchersFacts
    <3>2. fetcher.inbox \in Seq(FetchTasks)
      BY <1>12, <3>1, FetchersFacts DEF Moving
    <3> QED BY <2>2, <3>1, <3>2
  <2>4. KnownIsTold(k) /\ Awaits(k, q)
    BY <1>12, <1>16, <2>2, <2>3 DEF FetcherInv
  <2>5. KnownIsTold(k)' /\ t \notin DOMAIN k
    BY <1>13, <2>4
  <2>6. Awaits(k, Append(q, t))'
    BY <1>14, <2>3, <2>4, <2>5
  <2>7. PICK more \in Seq(FetchTasks) : more = Append(q, t)
    <3>1. Append(q, t) \in Seq(FetchTasks)
      BY <2>3
    <3> QED BY <3>1
  <2>8. fetcher' = [fetcher EXCEPT !.inbox = more]
    BY <2>1, <2>2, <2>7
  <2>9. /\ fetcher' \in Fetchers /\ fetcher'.at = fetcher.at /\ fetcher'.known = k
        /\ fetcher'.inbox = more
        /\ fetcher.at = "counting" => fetcher'.todo = fetcher.todo
        /\ fetcher.at \in Moving => fetcher'.before = fetcher.before
    BY <1>12, <1>16, <2>2, <2>8 DEF Fetchers, Ended, Moving
  <2>10. Awaits(k, more)'
    BY <2>6, <2>7
  <2>11. FetcherInv'
    BY <1>12, <2>2, <2>5, <2>9, <2>10 DEF FetcherInv
  <2>12. MovesInv'
    BY <1>1, <2>9 DEF TrunkInv, MovesInv
  <2> QED BY <1>11, <2>11, <2>12 DEF TrunkInv
<1> QED BY <1>15, <1>16

\* A step that moves neither the journal nor what is known and awaited.
LEMMA FetcherKept ==
  ASSUME TrunkInv, UNCHANGED journal, fetcher' \in Fetchers,
         fetcher'.at # "down" => fetcher.at # "down" /\ fetcher'.known = fetcher.known,
         "inbox" \in DOMAIN fetcher' => "inbox" \in DOMAIN fetcher /\ fetcher'.inbox = fetcher.inbox,
         fetcher'.at = "counting" => fetcher'.todo \subseteq DOMAIN fetcher.known
  PROVE  FetcherInv'
<1>1. PICK k, q : k = fetcher.known /\ q = fetcher.inbox
  OBVIOUS
<1>2. fetcher'.at # "down" => fetcher'.known = k /\ KnownIsTold(k)'
  BY <1>1, JournalSame DEF TrunkInv, FetcherInv
<1>3. "inbox" \in DOMAIN fetcher' => fetcher'.at # "down" /\ fetcher'.inbox = q /\ Awaits(k, q)'
  <2> SUFFICES ASSUME "inbox" \in DOMAIN fetcher'
               PROVE  fetcher'.at # "down" /\ fetcher'.inbox = q /\ Awaits(k, q)'
    OBVIOUS
  <2>1. fetcher'.at # "down"
    <3>1. fetcher'.at = "down" => fetcher' = Ended
      BY DEF Fetchers, Moving
    <3>2. "inbox" \notin DOMAIN Ended
      BY DEF Ended
    <3> QED BY <3>1, <3>2
  <2> QED BY <1>1, <2>1, JournalSame DEF TrunkInv, FetcherInv
<1> QED BY <1>1, <1>2, <1>3 DEF FetcherInv

LEMMA LoadKept == ASSUME TrunkInv, LoadTrees \/ SubscribeTrees PROVE TrunkInv'
<1>1. UNCHANGED <<remote, trunk, head, journal, moves>>
  BY DEF LoadTrees, SubscribeTrees
<1>2. ASSUME FetcherInv', fetcher'.at \notin Moving PROVE TrunkInv'
  BY <1>1, <1>2, FetcherSteps DEF TrunkInv, MovesInv
<1>3. CASE LoadTrees
  <2>1. PICK k : k = TreesReplayed
    OBVIOUS
  <2>2. fetcher' = [at |-> "starting", known |-> k]
    BY <1>3, <2>1 DEF LoadTrees
  <2>3. k \in Trees /\ KnownIsTold(k)
    BY <2>1, ReplayedIsTold
  <2>4. KnownIsTold(k)'
    BY <1>1, <2>3, JournalSame
  <2>5. /\ fetcher' \in Fetchers /\ fetcher'.at = "starting" /\ fetcher'.known = k
        /\ "inbox" \notin DOMAIN fetcher'
    BY <2>2, <2>3 DEF Fetchers
  <2>6. FetcherInv'
    BY <2>4, <2>5 DEF FetcherInv
  <2> QED BY <1>2, <2>5, <2>6 DEF Moving
<1>4. CASE SubscribeTrees
  <2>1. PICK k : k = fetcher.known
    OBVIOUS
  <2>2. fetcher' = [at |-> "waiting", known |-> k, inbox |-> <<>>] /\ fetcher.at = "starting"
    BY <1>4, <2>1 DEF SubscribeTrees
  <2>3. k \in Trees /\ KnownIsTold(k)
    BY <2>1, <2>2, FetchersFacts DEF TrunkInv, FetcherInv
  <2>4. KnownIsTold(k)'
    BY <1>1, <2>3, JournalSame
  <2>5. /\ fetcher' \in Fetchers /\ fetcher'.at = "waiting" /\ fetcher'.known = k
        /\ fetcher'.inbox = <<>>
    BY <2>2, <2>3 DEF Fetchers
  <2>6. Awaits(k, <<>>)'
    BY DEF Awaits
  <2>7. FetcherInv'
    BY <2>4, <2>5, <2>6 DEF FetcherInv
  <2> QED BY <1>2, <2>5, <2>7 DEF Moving
<1> QED BY <1>3, <1>4

LEMMA HandleCreatedKept == ASSUME TrunkInv, HandleCreated PROVE TrunkInv'
<1>1. UNCHANGED <<remote, trunk, head, journal, moves>> /\ fetcher.at = "waiting"
      /\ fetcher.inbox # <<>>
  BY DEF HandleCreated
<1>2. fetcher \in [at : {"waiting"}, known : Trees, inbox : Seq(FetchTasks)] /\ FetcherInv
      /\ "inbox" \in DOMAIN fetcher
  BY <1>1, FetchersFacts DEF TrunkInv, FetcherInv
<1>3. PICK k \in Trees, q \in Seq(FetchTasks) : k = fetcher.known /\ q = fetcher.inbox
  BY <1>2
<1>4. q # <<>> /\ KnownIsTold(k) /\ Awaits(k, q)
  BY <1>1, <1>2, <1>3 DEF FetcherInv
<1>5. PICK t \in FetchTasks, rest \in Seq(FetchTasks) : t = Head(q) /\ rest = Tail(q)
  <2>1. Head(q) \in FetchTasks /\ Tail(q) \in Seq(FetchTasks)
    BY <1>4
  <2> QED BY <2>1
<1>6. /\ t = q[1] /\ 1 \in DOMAIN q
      /\ \A i \in DOMAIN rest : rest[i] = q[i + 1] /\ i + 1 \in DOMAIN q /\ i + 1 # 1
  BY <1>4, <1>5
<1> DEFINE e == [type |-> "created", task |-> t]
<1>7. e \in JournalLines /\ e.type = "created" /\ e.task = t
  BY DEF JournalLines
<1>8. fetcher' = [fetcher EXCEPT !.inbox = rest, !.known = ApplyJournaled(k, e)]
  BY <1>3, <1>5 DEF HandleCreated
<1> HIDE DEF e
<1>9. PICK n : n = ApplyJournaled(k, e)
  OBVIOUS
<1>10. /\ n \in Trees /\ DOMAIN n = DOMAIN k \union {t}
       /\ \A u \in DOMAIN n : n[u] = IF u # t THEN k[u] ELSE Unknown
  <2>1. /\ ApplyJournaled(k, e) \in Trees
        /\ DOMAIN ApplyJournaled(k, e) =
             IF e.type = "created" THEN DOMAIN k \union {e.task} ELSE DOMAIN k
        /\ \A u \in DOMAIN ApplyJournaled(k, e) :
             ApplyJournaled(k, e)[u] =
               IF u # e.task THEN k[u] ELSE IF e.type = "created" THEN Unknown ELSE e.counts
    BY <1>7, AppliesType
  <2> QED BY <1>7, <1>9, <2>1
<1>11. fetcher' \in [at : {"waiting"}, known : Trees, inbox : Seq(FetchTasks)]
       /\ fetcher'.at = "waiting" /\ fetcher'.known = n /\ fetcher'.inbox = rest
  BY <1>2, <1>8, <1>9, <1>10
<1>12. ToldLast(t, Unknown)
  <2>1. TreeTold(t) /\ \A j \in DOMAIN journal : journal[j].task = t => journal[j].type = "created"
    BY <1>4, <1>6 DEF Awaits
  <2>2. PICK i \in DOMAIN journal : journal[i].type = "created" /\ journal[i].task = t
    BY <2>1 DEF TreeTold
  <2>3. \A j \in DOMAIN journal : journal[j].task = t => j <= i
    BY <2>1, <2>2 DEF TrunkInv, JournalInv
  <2> QED BY <2>2, <2>3 DEF ToldLast
<1>13. KnownIsTold(n)
  BY <1>4, <1>10, <1>12 DEF KnownIsTold
<1>14. Awaits(n, rest)
  <2>1. \A i, j \in DOMAIN q : q[i] = q[j] => i = j
    BY <1>4 DEF Awaits
  <2>2. \A i \in DOMAIN rest : rest[i] # t
    BY <1>6, <2>1
  <2>3. \A i, j \in DOMAIN rest : rest[i] = rest[j] => i = j
    <3>1. \A i \in DOMAIN rest : i \in Int
      BY <1>5
    <3> QED BY <1>6, <2>1, <3>1
  <2> QED BY <1>4, <1>6, <1>10, <2>2, <2>3 DEF Awaits
<1>15. KnownIsTold(n)' /\ Awaits(n, rest)'
  BY <1>1, <1>13, <1>14, JournalSame
<1>16. FetcherInv'
  BY <1>11, <1>15 DEF FetcherInv, Fetchers
<1>17. MovesInv'
  BY <1>1, <1>11 DEF TrunkInv, MovesInv, Moving
<1> QED BY <1>1, <1>16, <1>17, FetcherSteps

LEMMA CycleKept ==
  ASSUME TrunkInv, BeginFetchCycle \/ GitFetch \/ TellMoved \/ EndFetchCycle PROVE TrunkInv'
<1>1. UNCHANGED <<remote, head, journal>> /\ trunk' \in {trunk, remote}
  BY DEF BeginFetchCycle, GitFetch, TellMoved, EndFetchCycle
<1>2. fetcher \in Fetchers /\ trunk \in Nat \ {0} /\ remote \in Nat /\ trunk <= remote
      /\ moves \in Seq(Nat \X Nat)
      /\ (\A i \in DOMAIN moves : moves[i][1] < moves[i][2] /\ moves[i][2] <= trunk)
      /\ (\A i \in DOMAIN moves : i > 1 => moves[i - 1][2] <= moves[i][1])
  BY DEF TrunkInv, FetcherInv, JournalInv, MovesInv
<1>3. \A i \in DOMAIN moves : moves[i] \in Nat \X Nat
  BY <1>2
<1>4. CASE fetcher' = Ended /\ UNCHANGED <<trunk, moves>>
  <2>1. fetcher' \in Fetchers /\ fetcher'.at = "down" /\ "inbox" \notin DOMAIN fetcher'
    BY <1>4 DEF Fetchers, Ended
  <2>2. FetcherInv'
    BY <1>1, <2>1, FetcherKept
  <2>3. MovesInv'
    BY <1>4, <2>1 DEF TrunkInv, MovesInv, Moving
  <2> QED BY <1>1, <2>2, <2>3, FetcherSteps
<1>5. CASE BeginFetchCycle
  <2>1. fetcher.at = "waiting" /\ UNCHANGED <<trunk, moves>>
        /\ fetcher' = [at |-> "fetching", known |-> fetcher.known, inbox |-> fetcher.inbox,
                       before |-> trunk]
    BY <1>5 DEF BeginFetchCycle
  <2>2. fetcher \in [at : {"waiting"}, known : Trees, inbox : Seq(FetchTasks)]
    BY <1>2, <2>1, FetchersFacts
  <2>3. /\ fetcher' \in Fetchers /\ fetcher'.at = "fetching" /\ fetcher'.known = fetcher.known
        /\ fetcher'.inbox = fetcher.inbox /\ fetcher'.before = trunk
        /\ "inbox" \in DOMAIN fetcher
    BY <1>2, <2>1, <2>2 DEF Fetchers, Moving
  <2>4. FetcherInv'
    BY <1>1, <2>1, <2>3, FetcherKept
  <2>5. MovesInv'
    BY <1>2, <2>1, <2>3 DEF MovesInv
  <2> QED BY <1>1, <2>4, <2>5, FetcherSteps
<1>6. CASE GitFetch
  <2>1. CASE trunk' = remote /\ fetcher' = [fetcher EXCEPT !.at = "comparing"]
    <3>1. fetcher.at = "fetching" /\ UNCHANGED moves
      BY <1>6 DEF GitFetch
    <3>2. fetcher \in [at : Moving, known : Trees, inbox : Seq(FetchTasks), before : Nat \ {0}]
      BY <1>2, <3>1, FetchersFacts DEF Moving
    <3>3. /\ fetcher' \in Fetchers /\ fetcher'.at = "comparing" /\ fetcher'.known = fetcher.known
          /\ fetcher'.inbox = fetcher.inbox /\ fetcher'.before = fetcher.before
          /\ "inbox" \in DOMAIN fetcher /\ fetcher.before \in Nat
      BY <2>1, <3>2 DEF Fetchers, Moving
    <3>4. FetcherInv'
      BY <1>1, <3>1, <3>3, FetcherKept
    <3>5. fetcher.before <= trunk /\ \A i \in DOMAIN moves : moves[i][2] <= fetcher.before
      BY <3>1 DEF TrunkInv, MovesInv, Moving
    <3>6. fetcher.before <= trunk' /\ \A i \in DOMAIN moves : moves[i][2] <= trunk'
      BY <1>2, <1>3, <2>1, <3>3, <3>5
    <3>7. MovesInv'
      BY <1>2, <3>1, <3>3, <3>5, <3>6 DEF MovesInv
    <3> QED BY <1>1, <3>4, <3>7, FetcherSteps
  <2> QED BY <1>4, <1>6, <2>1 DEF GitFetch
<1>7. CASE TellMoved
  <2>1. CASE /\ moves' = IF fetcher.before # trunk
                           THEN Append(moves, <<fetcher.before, trunk>>) ELSE moves
             /\ fetcher' = [at |-> "counting", known |-> fetcher.known, inbox |-> fetcher.inbox,
                            todo |-> DOMAIN fetcher.known]
    <3>1. fetcher.at = "comparing" /\ trunk' = trunk
      BY <1>7 DEF TellMoved
    <3>2. fetcher \in [at : Moving, known : Trees, inbox : Seq(FetchTasks), before : Nat \ {0}]
      BY <1>2, <3>1, FetchersFacts DEF Moving
    <3>3. DOMAIN fetcher.known \in SUBSET FetchTasks
      BY <3>2, TreesFacts
    <3>4. /\ fetcher' \in Fetchers /\ fetcher'.at = "counting" /\ fetcher'.known = fetcher.known
          /\ fetcher'.inbox = fetcher.inbox /\ fetcher'.todo = DOMAIN fetcher.known
          /\ "inbox" \in DOMAIN fetcher /\ fetcher.before \in Nat
      BY <2>1, <3>2, <3>3 DEF Fetchers
    <3>5. FetcherInv'
      BY <1>1, <3>1, <3>4, FetcherKept
    <3>6. fetcher.before <= trunk /\ \A i \in DOMAIN moves : moves[i][2] <= fetcher.before
      BY <3>1 DEF TrunkInv, MovesInv, Moving
    <3>7. fetcher.before = trunk => MovesInv'
      BY <2>1, <3>1, <3>4 DEF TrunkInv, MovesInv, Moving
    <3>8. ASSUME fetcher.before # trunk PROVE MovesInv'
      <4>1. PICK m : m = <<fetcher.before, trunk>>
        OBVIOUS
      <4>2. m \in Nat \X Nat /\ m[1] = fetcher.before /\ m[2] = trunk /\ m[1] < m[2]
        BY <1>2, <3>4, <3>6, <3>8, <4>1
      <4>3. /\ moves' \in Seq(Nat \X Nat) /\ DOMAIN moves' = 1..(Len(moves) + 1)
            /\ DOMAIN moves = 1..Len(moves) /\ Len(moves) \in Nat
            /\ (\A i \in DOMAIN moves : moves'[i] = moves[i]) /\ moves'[Len(moves) + 1] = m
        BY <1>2, <2>1, <3>8, <4>1, <4>2
      <4>4. \A i \in DOMAIN moves' : moves'[i][1] < moves'[i][2] /\ moves'[i][2] <= trunk
        <5>1. \A i \in DOMAIN moves' : i \in DOMAIN moves \/ i = Len(moves) + 1
          BY <4>3
        <5>2. ASSUME NEW i \in DOMAIN moves
              PROVE  moves'[i][1] < moves'[i][2] /\ moves'[i][2] <= trunk
          BY <1>2, <4>3
        <5>3. m[1] < m[2] /\ m[2] <= trunk
          BY <1>2, <4>2
        <5> QED BY <4>3, <5>1, <5>2, <5>3
      <4>5. ASSUME NEW i \in DOMAIN moves', i > 1 PROVE moves'[i - 1][2] <= moves'[i][1]
        <5>1. i - 1 \in DOMAIN moves
          BY <4>3, <4>5
        <5>2. CASE i \in DOMAIN moves
          BY <1>2, <4>3, <4>5, <5>1, <5>2
        <5>3. CASE i = Len(moves) + 1
          BY <3>6, <4>2, <4>3, <5>1, <5>3
        <5> QED BY <4>3, <5>2, <5>3
      <4> QED BY <3>1, <3>4, <4>3, <4>4, <4>5 DEF MovesInv, Moving
    <3>9. MovesInv'
      BY <3>7, <3>8
    <3> QED BY <1>1, <3>5, <3>9, FetcherSteps
  <2> QED BY <1>4, <1>7, <2>1 DEF TellMoved
<1>8. CASE EndFetchCycle
  <2>1. fetcher.at = "counting" /\ UNCHANGED <<trunk, moves>>
        /\ fetcher' = [at |-> "waiting", known |-> fetcher.known, inbox |-> fetcher.inbox]
    BY <1>8 DEF EndFetchCycle
  <2>2. fetcher \in [at : {"counting"}, known : Trees, inbox : Seq(FetchTasks),
                     todo : SUBSET FetchTasks]
    BY <1>2, <2>1, FetchersFacts
  <2>3. /\ fetcher' \in Fetchers /\ fetcher'.at = "waiting" /\ fetcher'.known = fetcher.known
        /\ fetcher'.inbox = fetcher.inbox /\ "inbox" \in DOMAIN fetcher
    BY <2>1, <2>2 DEF Fetchers
  <2>4. FetcherInv'
    BY <1>1, <2>1, <2>3, FetcherKept
  <2>5. MovesInv'
    BY <2>1, <2>3 DEF TrunkInv, MovesInv, Moving
  <2> QED BY <1>1, <2>4, <2>5, FetcherSteps
<1> QED BY <1>5, <1>6, <1>7, <1>8

LEMMA CountKept == ASSUME TrunkInv, NEW t \in FetchTasks, CountTree(t) PROVE TrunkInv'
<1>1. UNCHANGED <<remote, trunk, head, moves>> /\ fetcher.at = "counting" /\ t \in fetcher.todo
  BY DEF CountTree
<1>2. fetcher \in Fetchers /\ FetcherInv
  BY DEF TrunkInv, FetcherInv
<1>3. fetcher \in [at : {"counting"}, known : Trees, inbox : Seq(FetchTasks),
                   todo : SUBSET FetchTasks] /\ "inbox" \in DOMAIN fetcher
  BY <1>1, <1>2, FetchersFacts
<1>4. PICK k \in Trees, q \in Seq(FetchTasks), todo \in SUBSET FetchTasks :
        k = fetcher.known /\ q = fetcher.inbox /\ todo = fetcher.todo
  BY <1>3
<1>5. t \in DOMAIN k /\ KnownIsTold(k) /\ Awaits(k, q) /\ todo \subseteq DOMAIN k
  BY <1>1, <1>2, <1>3, <1>4 DEF FetcherInv
<1> DEFINE rest == [fetcher EXCEPT !.todo = fetcher.todo \ {t}]
<1>6. CASE fetcher' = rest /\ UNCHANGED journal
  <2>1. /\ fetcher' \in Fetchers /\ fetcher'.at = "counting" /\ fetcher'.known = fetcher.known
        /\ fetcher'.inbox = fetcher.inbox /\ fetcher'.todo = todo \ {t}
    BY <1>3, <1>4, <1>6 DEF Fetchers
  <2>2. FetcherInv'
    BY <1>1, <1>3, <1>4, <1>5, <1>6, <2>1, FetcherKept
  <2>3. MovesInv'
    BY <1>1, <2>1 DEF TrunkInv, MovesInv, Moving
  <2> QED BY <1>1, <1>6, <2>2, <2>3, FetcherSteps
<1>7. CASE fetcher' = Ended /\ UNCHANGED journal
  <2>1. fetcher' \in Fetchers /\ fetcher'.at = "down" /\ "inbox" \notin DOMAIN fetcher'
    BY <1>7 DEF Fetchers, Ended
  <2>2. FetcherInv'
    BY <1>7, <2>1, FetcherKept
  <2>3. MovesInv'
    BY <1>1, <2>1 DEF TrunkInv, MovesInv, Moving
  <2> QED BY <1>1, <1>7, <2>2, <2>3, FetcherSteps
<1>8. CASE /\ journal' = Append(journal, [type |-> "counts", task |-> t, counts |-> CountsOf(t)])
           /\ fetcher' = [rest EXCEPT !.known[t] = CountsOf(t)]
  <2>1. PICK c : c = CountsOf(t)
    OBVIOUS
  <2>2. c \in Int \X Nat
    BY <2>1 DEF CountsOf, TrunkInv, JournalInv
  <2> DEFINE e == [type |-> "counts", task |-> t, counts |-> c]
  <2>3. e \in JournalLines /\ e.type = "counts" /\ e.task = t /\ e.counts = c
    BY <2>2 DEF JournalLines
  <2>4. journal' = Append(journal, e)
    BY <1>8, <2>1
  <2> HIDE DEF e
  <2> DEFINE n == Len(journal) + 1
  <2>5. /\ journal' \in Seq(JournalLines) /\ DOMAIN journal' = DOMAIN journal \union {n}
        /\ n \notin DOMAIN journal /\ Len(journal) \in Nat /\ journal'[n] = e
        /\ \A i \in DOMAIN journal : journal'[i] = journal[i] /\ i < n /\ i \in Nat
        /\ \A u, d : u # t /\ ToldLast(u, d) => ToldLast(u, d)'
        /\ \A u : TreeTold(u)' <=> TreeTold(u)
        /\ ToldLast(e.task, IF e.type = "created" THEN Unknown ELSE e.counts)'
    BY <2>3, <2>4, JournalGrows
  <2>6. n \in Nat
    BY <2>5
  <2> HIDE DEF n
  <2>7. ToldLast(t, c)'
    <3>1. n \in DOMAIN journal' /\ journal'[n].task = t /\ journal'[n].type # "created"
          /\ journal'[n].counts = c
      BY <2>3, <2>5
    <3>2. \A j \in DOMAIN journal' : j <= n
      BY <2>5, <2>6
    <3> QED BY <3>1, <3>2 DEF ToldLast
  <2>8. PICK m : m = [k EXCEPT ![t] = c]
    OBVIOUS
  <2>9. DOMAIN m = DOMAIN k /\ m \in Trees /\ \A u \in DOMAIN k : m[u] = IF u = t THEN c ELSE k[u]
    <3>1. /\ DOMAIN k \subseteq FetchTasks /\ \A u \in DOMAIN k : k[u] \in CountValues
          /\ k = [u \in DOMAIN k |-> k[u]]
      BY TreesFacts
    <3>2. DOMAIN m = DOMAIN k /\ m = [u \in DOMAIN m |-> m[u]]
          /\ \A u \in DOMAIN k : m[u] = IF u = t THEN c ELSE k[u]
      BY <2>8, <3>1
    <3>3. \A u \in DOMAIN m : m[u] \in CountValues
      BY <2>2, <3>1, <3>2 DEF CountValues
    <3> QED BY <3>1, <3>2, <3>3, TreesFacts
  <2>10. /\ rest \in [at : {"counting"}, known : Trees, inbox : Seq(FetchTasks),
                     todo : SUBSET FetchTasks]
         /\ rest.known = k /\ rest.inbox = q /\ rest.todo = todo \ {t}
    BY <1>3, <1>4
  <2>11. fetcher' = [rest EXCEPT !.known = m]
    BY <1>8, <2>1, <2>8, <2>10
  <2> HIDE DEF rest
  <2>12. /\ fetcher' \in [at : {"counting"}, known : Trees, inbox : Seq(FetchTasks),
                         todo : SUBSET FetchTasks]
         /\ fetcher'.at = "counting"
         /\ fetcher'.known = m /\ fetcher'.inbox = q /\ fetcher'.todo = todo \ {t}
    BY <2>9, <2>10, <2>11
  <2>13. KnownIsTold(m)'
    BY <1>5, <2>5, <2>7, <2>9 DEF KnownIsTold
  <2>14. Awaits(m, q)'
    <3>1. ASSUME NEW i \in DOMAIN q
          PROVE  /\ q[i] \notin DOMAIN m /\ q[i] # t /\ TreeTold(q[i])'
                 /\ \A j \in DOMAIN journal' : journal'[j].task = q[i] => journal'[j].type = "created"
      BY <1>5, <2>3, <2>5, <2>9 DEF Awaits
    <3> QED BY <1>5, <3>1 DEF Awaits
  <2>15. FetcherInv'
    BY <1>5, <2>9, <2>12, <2>13, <2>14 DEF FetcherInv, Fetchers
  <2>16. MovesInv'
    BY <1>1, <2>12 DEF TrunkInv, MovesInv, Moving
  <2>17. TreeTold(t)
    BY <1>5 DEF KnownIsTold, ToldLast, TrunkInv, JournalInv
  <2>18. \A i, j \in DOMAIN journal' :
           (journal'[i].type = "created" /\ journal'[j].task = journal'[i].task) => i <= j
    <3> SUFFICES ASSUME NEW i \in DOMAIN journal', NEW j \in DOMAIN journal',
                        journal'[i].type = "created", journal'[j].task = journal'[i].task
                 PROVE  i <= j
      OBVIOUS
    <3>1. i \in DOMAIN journal /\ journal[i].type = "created" /\ journal'[i] = journal[i]
      BY <2>3, <2>5
    <3>2. CASE j \in DOMAIN journal
      BY <2>5, <3>1, <3>2 DEF TrunkInv, JournalInv
    <3>3. CASE j = n
      BY <2>5, <2>6, <3>1, <3>3
    <3> QED BY <2>5, <3>2, <3>3
  <2>19. (\A i \in DOMAIN journal : TreeTold(journal[i].task))'
    <3> SUFFICES ASSUME NEW i \in DOMAIN journal' PROVE TreeTold(journal[i].task)'
      OBVIOUS
    <3>1. PICK u : u = journal'[i].task
      OBVIOUS
    <3>2. \A j \in DOMAIN journal : TreeTold(journal[j].task)
      BY DEF TrunkInv, JournalInv
    <3>3. TreeTold(u)'
      BY <2>3, <2>5, <2>17, <3>1, <3>2
    <3> QED BY <3>1, <3>3 DEF TreeTold
  <2>20. JournalInv'
    BY <1>1, <2>5, <2>18, <2>19 DEF TrunkInv, JournalInv
  <2> QED BY <2>15, <2>16, <2>20 DEF TrunkInv
<1> QED BY <1>6, <1>7, <1>8 DEF CountTree

LEMMA TrunkInvKept == TrunkInv /\ [TrunkNext]_trunkVars => TrunkInv'
BY TrunkMoves, TreeMovesKept, CreatedKept, LoadKept, HandleCreatedKept, CycleKept,
   CountKept
   DEF TrunkNext

-----------------------------------------------------------------------------
(***************************************************************************)
(* The skills that are watched.                                            *)
(***************************************************************************)
KernelEvents == [dir : Dirs, kind : {"edit", "dir", "gone"}]
DirNames == {"root", "sub"}

\* A change that is not told yet is in the channel, or in the queue as a change of
\* a directory the thread knows.
Handed(d) == \E i \in DOMAIN channel : channel[i] = NameOf(d)
Queued(d) == d \in byWatch /\ \E i \in DOMAIN queue : queue[i] = [dir |-> d, kind |-> "edit"]
ChangesInv ==
  alive => \A d \in Dirs : fair[d] <= heardAt[d] \/ Handed(d) \/ Queued(d)

\* The directory there is watched, unless one of its name is known or its making
\* has not been read.
DirsInv ==
  alive =>
    /\ 0 \in watches /\ watches \subseteq byWatch /\ byWatch \subseteq 0..made
    /\ subdir \in byWatch => subdir \in watches
    /\ subdir # 0 =>
         \/ subdir \in watches \/ (\E d \in byWatch : d # 0 /\ d # subdir)
         \/ \E i \in DOMAIN queue : queue[i].kind = "dir"

SkillWatchInv ==
  /\ made \in Dirs /\ subdir \in 0..made /\ edits \in 0..MaxEdits /\ alive \in BOOLEAN
  /\ fair \in [Dirs -> Nat] /\ heardAt \in [Dirs -> Nat] /\ \A d \in Dirs : fair[d] <= edits
  /\ queue \in Seq(KernelEvents) /\ channel \in Seq(DirNames)
  /\ watches \subseteq Dirs /\ byWatch \subseteq Dirs
  /\ ChangesInv /\ DirsInv

LEMMA SkillWatchStarts == SkillWatchInit => SkillWatchInv
<1> SUFFICES ASSUME SkillWatchInit PROVE SkillWatchInv
  OBVIOUS
<1>1. 0 \in Dirs /\ fair = [d \in Dirs |-> 0] /\ heardAt = [d \in Dirs |-> 0]
  BY SkillWatchAssumption DEF SkillWatchInit, Dirs
<1> QED
  BY <1>1, SkillWatchAssumption
  DEF SkillWatchInit, SkillWatchInv, ChangesInv, DirsInv

LEMMA SkillWatchInvImplies == SkillWatchInv => SkillWatchTypeOK /\ ChangeIsTold
<1> SUFFICES ASSUME SkillWatchInv PROVE SkillWatchTypeOK /\ ChangeIsTold
  OBVIOUS
<1>1. SkillWatchTypeOK
  BY DEF SkillWatchInv, SkillWatchTypeOK
<1>2. ASSUME alive, queue = <<>>, subdir # 0
      PROVE  subdir \in watches \/ \E d \in byWatch : d # 0 /\ d # subdir
  BY <1>2 DEF SkillWatchInv, DirsInv
<1>3. ASSUME alive, queue = <<>>, channel = <<>>, NEW d \in Dirs PROVE fair[d] <= heardAt[d]
  BY <1>3 DEF SkillWatchInv, ChangesInv, Handed, Queued
<1> QED
  BY <1>1, <1>2, <1>3 DEF ChangeIsTold

\* The kernel adds at most one event to the queue.
LEMMA NotifyAdds ==
  ASSUME SkillWatchInv, NEW d \in Dirs, NEW kind \in {"edit", "dir", "gone"},
         queue' = Notify(d, kind)
  PROVE  /\ queue' \in Seq(KernelEvents)
         /\ \A i \in DOMAIN queue : i \in DOMAIN queue' /\ queue'[i] = queue[i]
         /\ alive /\ d \in watches =>
              \E i \in DOMAIN queue' : queue'[i] = [dir |-> d, kind |-> kind]
<1>1. PICK e : e = [dir |-> d, kind |-> kind]
  OBVIOUS
<1>2. e \in KernelEvents
  BY <1>1 DEF KernelEvents
<1>3. queue \in Seq(KernelEvents) /\ Len(queue) \in Nat /\ DOMAIN queue = 1..Len(queue)
  BY DEF SkillWatchInv
<1>4. queue' = IF d \in watches /\ alive THEN Append(queue, e) ELSE queue
  BY <1>1 DEF Notify
<1>5. CASE d \in watches /\ alive
  <2>1. queue' = Append(queue, e)
    BY <1>4, <1>5
  <2>2. /\ queue' \in Seq(KernelEvents) /\ DOMAIN queue' = 1..(Len(queue) + 1)
        /\ queue'[Len(queue) + 1] = e /\ \A i \in 1..Len(queue) : queue'[i] = queue[i]
    BY <2>1, <1>2, <1>3
  <2> QED
    BY <2>2, <1>1, <1>3
<1>6. CASE ~(d \in watches /\ alive)
  BY <1>3, <1>4, <1>6
<1> QED
  BY <1>5, <1>6

LEMMA EditSkillKept == ASSUME SkillWatchInv, NEW d \in Dirs, EditSkill(d) PROVE SkillWatchInv'
<1>1. /\ queue' = Notify(d, "edit") /\ edits' = edits + 1 /\ edits' \in 0..MaxEdits /\ edits \in Nat
      /\ fair' = (IF d \in watches THEN [fair EXCEPT ![d] = edits + 1] ELSE fair)
      /\ UNCHANGED <<made, subdir, watches, byWatch, channel, heardAt, alive>>
  BY SkillWatchAssumption DEF EditSkill, SkillWatchInv
<1>2. /\ queue' \in Seq(KernelEvents)
      /\ \A i \in DOMAIN queue : i \in DOMAIN queue' /\ queue'[i] = queue[i]
      /\ alive /\ d \in watches =>
           \E i \in DOMAIN queue' : queue'[i] = [dir |-> d, kind |-> "edit"]
  BY <1>1, NotifyAdds
<1>3. /\ fair' \in [Dirs -> Nat] /\ \A e \in Dirs : fair'[e] <= edits'
      /\ \A e \in Dirs : fair'[e] = fair[e] \/ (e = d /\ d \in watches)
  BY <1>1 DEF SkillWatchInv
<1>4. ChangesInv'
  <2>1. ASSUME alive, NEW e \in Dirs PROVE fair'[e] <= heardAt[e] \/ Handed(e) \/ Queued(e)'
    <3>1. CASE e = d /\ d \in watches
      BY <2>1, <3>1, <1>1, <1>2 DEF SkillWatchInv, DirsInv, Queued
    <3>2. CASE ~(e = d /\ d \in watches)
      <4>1. Queued(e) => Queued(e)'
        BY <1>1, <1>2 DEF Queued
      <4> QED
        BY <2>1, <3>2, <4>1, <1>3 DEF SkillWatchInv, ChangesInv
    <3> QED
      BY <3>1, <3>2
  <2> QED
    BY <2>1, <1>1 DEF ChangesInv, Handed
<1>5. DirsInv'
  BY <1>1, <1>2 DEF SkillWatchInv, DirsInv
<1> QED
  BY <1>1, <1>2, <1>3, <1>4, <1>5 DEF SkillWatchInv

LEMMA MakeDirKept == ASSUME SkillWatchInv, MakeDir PROVE SkillWatchInv'
<1>1. /\ subdir = 0 /\ made' = made + 1 /\ subdir' = made + 1 /\ queue' = Notify(0, "dir")
      /\ made' \in Dirs /\ made \in Nat
      /\ UNCHANGED <<edits, fair, watches, byWatch, channel, heardAt, alive>>
  BY SkillWatchAssumption DEF MakeDir, SkillWatchInv, Dirs
<1>2. 0 \in Dirs
  BY SkillWatchAssumption DEF Dirs
<1>3. /\ queue' \in Seq(KernelEvents)
      /\ \A i \in DOMAIN queue : i \in DOMAIN queue' /\ queue'[i] = queue[i]
      /\ alive /\ 0 \in watches =>
           \E i \in DOMAIN queue' : queue'[i] = [dir |-> 0, kind |-> "dir"]
  BY <1>1, <1>2, NotifyAdds
<1>4. ChangesInv'
  <2>1. \A e \in Dirs : Queued(e) => Queued(e)'
    BY <1>1, <1>3 DEF Queued
  <2> QED
    BY <2>1, <1>1 DEF SkillWatchInv, ChangesInv, Handed
<1>5. DirsInv'
  <2>1. alive => subdir' \notin byWatch
    BY <1>1 DEF SkillWatchInv, DirsInv
  <2>2. alive => \E i \in DOMAIN queue' : queue'[i].kind = "dir"
    BY <1>3 DEF SkillWatchInv, DirsInv
  <2>3. alive => byWatch \subseteq 0..made'
    BY <1>1 DEF SkillWatchInv, DirsInv
  <2> QED
    BY <2>1, <2>2, <2>3, <1>1 DEF SkillWatchInv, DirsInv
<1>6. subdir' \in 0..made'
  BY <1>1
<1> QED
  BY <1>1, <1>3, <1>4, <1>5, <1>6 DEF SkillWatchInv

LEMMA RemoveDirKept == ASSUME SkillWatchInv, RemoveDir PROVE SkillWatchInv'
<1>1. /\ subdir # 0 /\ subdir' = 0 /\ watches' = watches \ {subdir}
      /\ queue' = Notify(subdir, "gone") /\ subdir \in Dirs /\ made \in Nat
      /\ UNCHANGED <<made, edits, fair, byWatch, channel, heardAt, alive>>
  BY SkillWatchAssumption DEF RemoveDir, SkillWatchInv, Dirs
<1>2. /\ queue' \in Seq(KernelEvents)
      /\ \A i \in DOMAIN queue : i \in DOMAIN queue' /\ queue'[i] = queue[i]
  BY <1>1, NotifyAdds
<1>3. ChangesInv'
  <2>1. \A e \in Dirs : Queued(e) => Queued(e)'
    BY <1>1, <1>2 DEF Queued
  <2> QED
    BY <2>1, <1>1 DEF SkillWatchInv, ChangesInv, Handed
<1>4. DirsInv'
  BY <1>1 DEF SkillWatchInv, DirsInv
<1> QED
  BY <1>1, <1>2, <1>3, <1>4 DEF SkillWatchInv

\* A sequence of the names of directories has each name of its set.
LEMMA NamesInOrder ==
  ASSUME NEW S, S \subseteq DirNames
  PROVE  /\ SetToSeq(S) \in Seq(DirNames)
         /\ \A n \in S : \E i \in DOMAIN SetToSeq(S) : SetToSeq(S)[i] = n
<1>1. /\ Cardinality({}) = 0 /\ Cardinality({"root"}) = 1 /\ Cardinality({"sub"}) = 1
      /\ Cardinality({"root", "sub"}) = 2
  <2>1. IsFiniteSet({"root"}) /\ Cardinality({"root"}) = 1 /\ Cardinality({"sub"}) = 1
    BY FS_Singleton
  <2>2. Cardinality({"root"} \union {"sub"}) = 2
    BY <2>1, FS_AddElement
  <2>3. {"root"} \union {"sub"} = {"root", "sub"}
    OBVIOUS
  <2> QED
    BY <2>1, <2>2, <2>3, FS_EmptySet
<1>2. PICK n : n = Cardinality(S)
  OBVIOUS
<1> DEFINE Ordered ==
      /\ n \in Nat
      /\ \E f \in [1..n -> S] : IsInjective(f)
      /\ \A f \in [1..n -> S] : IsInjective(f) => \A s \in S : \E i \in 1..n : f[i] = s
<1>3. Ordered
  <2>1. CASE S = {}
    <3>1. n = 0 /\ 1..n = {}
      BY <2>1, <1>1, <1>2
    <3>2. [i \in 1..n |-> "root"] \in [1..n -> S] /\ IsInjective([i \in 1..n |-> "root"])
      BY <3>1 DEF IsInjective
    <3> QED
      BY <3>1, <3>2, <2>1
  <2>2. ASSUME NEW s \in DirNames, S = {s} PROVE Ordered
    <3>1. n = 1 /\ 1..n = {1}
      BY <2>2, <1>1, <1>2 DEF DirNames
    <3>2. [i \in 1..n |-> s] \in [1..n -> S] /\ IsInjective([i \in 1..n |-> s])
      BY <2>2, <3>1 DEF IsInjective
    <3> QED
      BY <3>1, <3>2, <2>2
  <2>3. CASE S = {"root", "sub"}
    <3>1. n = 2 /\ 1..n = {1, 2}
      BY <2>3, <1>1, <1>2
    <3> DEFINE g == [i \in 1..n |-> IF i = 1 THEN "root" ELSE "sub"]
    <3>2. g \in [1..n -> S] /\ IsInjective(g)
      BY <2>3, <3>1 DEF IsInjective
    <3>3. ASSUME NEW f \in [1..n -> S], IsInjective(f), NEW s \in S PROVE \E i \in 1..n : f[i] = s
      <4>1. f[1] \in S /\ f[2] \in S /\ f[1] # f[2]
        BY <3>1, <3>3 DEF IsInjective
      <4> QED
        BY <4>1, <2>3, <3>1
    <3> HIDE DEF g
    <3> QED
      BY <3>1, <3>2, <3>3
  <2>4. S = {} \/ S = {"root"} \/ S = {"sub"} \/ S = {"root", "sub"}
    BY DEF DirNames
  <2> QED
    BY <2>1, <2>2, <2>3, <2>4 DEF DirNames
<1>4. SetToSeq(S) = CHOOSE f \in [1..n -> S] : IsInjective(f)
  BY <1>2 DEF SetToSeq
<1>5. PICK q : q = SetToSeq(S)
  OBVIOUS
<1>6. q \in [1..n -> S] /\ IsInjective(q)
  BY <1>3, <1>4, <1>5
<1>7. q \in Seq(DirNames)
  BY <1>3, <1>6
<1> QED
  BY <1>3, <1>5, <1>6, <1>7

LEMMA ReadEventsKept == ASSUME SkillWatchInv, ReadEvents PROVE SkillWatchInv'
<1>1. PICK n \in 1..Len(queue) :
        /\ queue' = SubSeq(queue, n + 1, Len(queue))
        /\ IF \E e \in Range(SubSeq(queue, 1, n)) : e.kind = "dir"
             THEN AddDir ELSE UNCHANGED <<watches, byWatch>>
        /\ channel' = channel \o SetToSeq(Changed(SubSeq(queue, 1, n)))
  BY DEF ReadEvents
<1>2. alive /\ UNCHANGED <<made, subdir, edits, fair, heardAt, alive>>
  BY DEF ReadEvents
<1>3. PICK batch : batch = SubSeq(queue, 1, n)
  OBVIOUS
<1>4. queue \in Seq(KernelEvents) /\ Len(queue) \in Nat /\ DOMAIN queue = 1..Len(queue) /\ n \in Nat
  BY DEF SkillWatchInv
<1>5. /\ queue' \in Seq(KernelEvents) /\ batch \in Seq(KernelEvents)
      /\ DOMAIN queue' = 1..(Len(queue) - n) /\ DOMAIN batch = 1..n
      /\ \A i \in 1..n : batch[i] = queue[i]
      /\ \A i \in 1..(Len(queue) - n) : queue'[i] = queue[i + n]
  BY <1>1, <1>3, <1>4
<1>6. \A i \in DOMAIN queue : queue[i] \in Range(batch) \/ \E k \in DOMAIN queue' : queue'[k] = queue[i]
  <2>1. ASSUME NEW i \in DOMAIN queue, i > n PROVE \E k \in DOMAIN queue' : queue'[k] = queue[i]
    <3>1. i - n \in 1..(Len(queue) - n) /\ (i - n) + n = i
      BY <2>1, <1>4
    <3> QED
      BY <3>1, <1>5
  <2>2. ASSUME NEW i \in DOMAIN queue, ~(i > n) PROVE queue[i] \in Range(batch)
    BY <2>2, <1>4, <1>5 DEF Range
  <2> QED
    BY <2>1, <2>2
<1>7. Changed(batch) \subseteq DirNames
  BY DEF Changed, NameOf, DirNames
<1>8. PICK new : new = SetToSeq(Changed(batch))
  OBVIOUS
<1>9. new \in Seq(DirNames) /\ \A m \in Changed(batch) : \E i \in DOMAIN new : new[i] = m
  BY <1>7, <1>8, NamesInOrder
<1>10. channel \in Seq(DirNames) /\ channel' = channel \o new
  BY <1>1, <1>3, <1>8 DEF SkillWatchInv
<1>11. /\ channel' \in Seq(DirNames)
       /\ \A i \in DOMAIN channel : i \in DOMAIN channel' /\ channel'[i] = channel[i]
       /\ \A i \in DOMAIN new : i + Len(channel) \in DOMAIN channel' /\ channel'[i + Len(channel)] = new[i]
  BY <1>9, <1>10
<1>12. /\ byWatch \subseteq byWatch' /\ watches \subseteq watches'
       /\ byWatch' \subseteq byWatch \union {subdir} /\ watches' \subseteq watches \union {subdir}
       /\ watches' \subseteq byWatch' \/ ~(watches \subseteq byWatch)
       /\ subdir \in byWatch' => subdir \in byWatch \/ subdir \in watches'
  BY <1>1 DEF AddDir
<1>13. ChangesInv'
  <2>1. ASSUME NEW d \in Dirs, Handed(d) PROVE Handed(d)'
    BY <2>1, <1>11 DEF Handed
  <2>2. ASSUME NEW d \in Dirs, Queued(d) PROVE Handed(d)' \/ Queued(d)'
    <3>1. PICK i \in DOMAIN queue : queue[i] = [dir |-> d, kind |-> "edit"]
      BY <2>2 DEF Queued
    <3>2. CASE queue[i] \in Range(batch)
      <4>1. NameOf(d) \in Changed(batch)
        BY <2>2, <3>1, <3>2 DEF Changed, Queued
      <4> QED
        BY <4>1, <1>9, <1>11 DEF Handed
    <3>3. CASE \E k \in DOMAIN queue' : queue'[k] = queue[i]
      BY <2>2, <3>1, <3>3, <1>12 DEF Queued
    <3> QED
      BY <3>2, <3>3, <1>6
  <2> QED
    BY <2>1, <2>2, <1>2 DEF SkillWatchInv, ChangesInv
<1>14. DirsInv'
  <2>1. /\ 0 \in watches /\ watches \subseteq byWatch /\ byWatch \subseteq 0..made
        /\ subdir \in byWatch => subdir \in watches
        /\ subdir # 0 =>
             \/ subdir \in watches \/ (\E d \in byWatch : d # 0 /\ d # subdir)
             \/ \E i \in DOMAIN queue : queue[i].kind = "dir"
    BY <1>2 DEF SkillWatchInv, DirsInv
  <2>2. ASSUME subdir # 0, NEW i \in DOMAIN queue, queue[i].kind = "dir"
        PROVE  \/ subdir \in watches' \/ (\E d \in byWatch' : d # 0 /\ d # subdir)
               \/ \E k \in DOMAIN queue' : queue'[k].kind = "dir"
    <3>1. CASE queue[i] \in Range(batch)
      <4>1. AddDir
        BY <2>2, <3>1, <1>1, <1>3
      <4>2. CASE \E d \in byWatch : NameOf(d) = "sub"
        BY <4>2, <2>1, <1>12 DEF NameOf
      <4>3. CASE ~(\E d \in byWatch : NameOf(d) = "sub")
        BY <4>1, <4>3, <2>2 DEF AddDir
      <4> QED
        BY <4>2, <4>3
    <3>2. CASE \E k \in DOMAIN queue' : queue'[k] = queue[i]
      BY <2>2, <3>2
    <3> QED
      BY <3>1, <3>2, <1>6
  <2>3. subdir \in 0..made
    BY DEF SkillWatchInv
  <2>4. subdir # 0 =>
          \/ subdir \in watches' \/ (\E d \in byWatch' : d # 0 /\ d # subdir)
          \/ \E k \in DOMAIN queue' : queue'[k].kind = "dir"
    BY <2>1, <2>2, <1>12
  <2> QED
    BY <2>1, <2>3, <2>4, <1>2, <1>12 DEF DirsInv
<1>15. watches' \subseteq Dirs /\ byWatch' \subseteq Dirs
  BY <1>12, SkillWatchAssumption DEF SkillWatchInv, Dirs
<1> QED
  BY <1>2, <1>5, <1>11, <1>13, <1>14, <1>15 DEF SkillWatchInv

LEMMA TellSkillKept == ASSUME SkillWatchInv, TellSkill PROVE SkillWatchInv'
<1>1. UNCHANGED <<made, subdir, edits, fair>> /\ alive /\ channel # <<>>
  BY DEF TellSkill
<1>2. CASE alive'
  <2>1. /\ heardAt' = [d \in Dirs |-> IF NameOf(d) = Head(channel) THEN edits ELSE heardAt[d]]
        /\ channel' = Tail(channel) /\ UNCHANGED <<alive, queue, watches, byWatch>>
    BY <1>2 DEF TellSkill
  <2>2. /\ channel \in Seq(DirNames) /\ Len(channel) \in Nat \ {0} /\ DOMAIN channel = 1..Len(channel)
        /\ Head(channel) = channel[1]
    BY <1>1 DEF SkillWatchInv
  <2>3. /\ channel' \in Seq(DirNames) /\ DOMAIN channel' = 1..(Len(channel) - 1)
        /\ \A i \in 1..(Len(channel) - 1) : channel'[i] = channel[i + 1]
    BY <2>1, <2>2
  <2>4. ASSUME NEW d \in Dirs PROVE fair[d] <= heardAt'[d] \/ Handed(d)' \/ Queued(d)'
    <3>1. CASE NameOf(d) = Head(channel)
      BY <2>1, <3>1 DEF SkillWatchInv
    <3>2. CASE NameOf(d) # Head(channel)
      <4>1. ASSUME NEW i \in DOMAIN channel, channel[i] = NameOf(d) PROVE Handed(d)'
        <5>1. i # 1 /\ i \in Nat
          BY <4>1, <3>2, <2>2
        <5>2. i - 1 \in 1..(Len(channel) - 1) /\ (i - 1) + 1 = i
          BY <4>1, <5>1, <2>2
        <5> QED
          BY <4>1, <5>2, <2>3 DEF Handed
      <4>2. Handed(d) => Handed(d)'
        BY <4>1 DEF Handed
      <4>3. Queued(d) => Queued(d)'
        BY <2>1 DEF Queued
      <4>4. heardAt'[d] = heardAt[d]
        BY <2>1, <3>2
      <4> QED
        BY <4>2, <4>3, <4>4, <1>1 DEF SkillWatchInv, ChangesInv
    <3> QED
      BY <3>1, <3>2
  <2>5. ChangesInv'
    BY <2>4, <1>1 DEF ChangesInv
  <2>6. heardAt' \in [Dirs -> Nat]
    BY <2>1 DEF SkillWatchInv
  <2>7. DirsInv'
    BY <2>1, <1>1 DEF SkillWatchInv, DirsInv
  <2> QED
    BY <2>1, <2>3, <2>5, <2>6, <2>7, <1>1 DEF SkillWatchInv
<1>3. CASE ~alive'
  <2>1. /\ alive' = FALSE /\ channel' = <<>> /\ queue' = <<>> /\ watches' = {} /\ byWatch' = {}
        /\ UNCHANGED heardAt
    BY <1>1, <1>3 DEF TellSkill
  <2>2. ChangesInv' /\ DirsInv'
    BY <2>1 DEF ChangesInv, DirsInv
  <2>3. queue' \in Seq(KernelEvents) /\ channel' \in Seq(DirNames)
    BY <2>1
  <2> QED
    BY <2>1, <2>2, <2>3, <1>1 DEF SkillWatchInv
<1> QED
  BY <1>2, <1>3

LEMMA RestartSkillWatchKept == ASSUME SkillWatchInv, RestartSkillWatch PROVE SkillWatchInv'
<1>1. /\ watches' = {d \in Dirs : Exists(d)} /\ byWatch' = watches' /\ fair' = [d \in Dirs |-> 0]
      /\ UNCHANGED <<made, subdir, edits, queue, channel, heardAt>> /\ alive' = TRUE
  BY DEF RestartSkillWatch
<1>2. subdir \in Dirs /\ 0 \in Dirs /\ made \in Nat /\ subdir \in 0..made
  BY SkillWatchAssumption DEF SkillWatchInv, Dirs
<1>3. watches' = {0, subdir}
  BY <1>1, <1>2 DEF Exists
<1>4. ChangesInv'
  BY <1>1 DEF SkillWatchInv, ChangesInv
<1>5. DirsInv'
  BY <1>1, <1>2, <1>3 DEF DirsInv
<1> QED
  BY <1>1, <1>2, <1>3, <1>4, <1>5 DEF SkillWatchInv

LEMMA SkillWatchInvKept == SkillWatchInv /\ [SkillWatchNext]_skillWatchVars => SkillWatchInv'
<1>1. ASSUME SkillWatchInv, UNCHANGED skillWatchVars PROVE SkillWatchInv'
  BY <1>1 DEF skillWatchVars, SkillWatchInv, ChangesInv, DirsInv, Handed, Queued
<1> QED
  BY <1>1, EditSkillKept, MakeDirKept, RemoveDirKept, ReadEventsKept, TellSkillKept,
     RestartSkillWatchKept DEF SkillWatchNext

-----------------------------------------------------------------------------
(***************************************************************************)
(* The skill that is evolved.                                              *)
(***************************************************************************)
Scans == [at : {"scanning"}, name : SkillNames, dry : BOOLEAN, files : SUBSET AllSkills]
Adaptations ==
  [at : {"adapting"}, name : SkillNames, dry : BOOLEAN, skill : AllSkills] \union
  [at : {"answered"}, name : SkillNames, dry : BOOLEAN, skill : AllSkills, candidate : BOOLEAN]

\* What goes by the name throughout is among the files yet to be looked at.
ScanInv ==
  evolve.at = "scanning" =>
    /\ evolve \in Scans /\ passed \subseteq evolve.files
    /\ \A f \in passed : Matches(f, evolve.name, scope)
    /\ \A f \in AllSkills : Matches(f, evolve.name, scope) => f \in matched
    /\ \A f \in evolve.files : StemOf[f] = evolve.name => f \in matched

EvolveInv ==
  /\ EvolveTypeOK /\ scope \in [AllSkills -> ScopeNames \union {"none"}]
  /\ evolve.at \in {"adapting", "answered"} => evolve \in Adaptations
  /\ ScanInv /\ EvolvedIsNamed

LEMMA EvolveStarts == EvolveInit => EvolveInv
BY DEF EvolveInit, EvolveInv, EvolveTypeOK, ScanInv, EvolvedIsNamed

LEMMA SkillMovesKept == ASSUME EvolveInv, SkillMoves PROVE EvolveInv'
<1>1. UNCHANGED evolve /\ scope' \in [AllSkills -> ScopeNames \union {"none"}]
  BY DEF SkillMoves, EvolveInv
<1>2. CASE evolve.at = "scanning"
  <2>1. /\ matched' = matched \union {f \in AllSkills : Matches(f, evolve.name, scope')}
        /\ passed' = {f \in passed : Matches(f, evolve.name, scope')}
    BY <1>2 DEF SkillMoves
  <2>2. ScanInv'
    BY <1>1, <1>2, <2>1 DEF EvolveInv, ScanInv
  <2>3. EvolvedIsNamed'
    BY <1>1, <1>2 DEF EvolvedIsNamed
  <2> QED
    BY <1>1, <1>2, <2>2, <2>3 DEF EvolveInv, EvolveTypeOK
<1>3. CASE evolve.at # "scanning"
  <2>1. UNCHANGED <<matched, passed>>
    BY <1>3 DEF SkillMoves
  <2>2. EvolvedIsNamed' /\ ScanInv'
    BY <1>1, <1>3, <2>1 DEF EvolveInv, ScanInv, EvolvedIsNamed
  <2> QED
    BY <1>1, <2>2 DEF EvolveInv, EvolveTypeOK
<1> QED
  BY <1>2, <1>3

LEMMA BeginEvolutionKept == ASSUME EvolveInv, BeginEvolution PROVE EvolveInv'
<1>1. PICK name \in SkillNames, dry \in BOOLEAN :
        /\ evolve' = [at |-> "scanning", name |-> name, dry |-> dry,
                      files |-> {f \in AllSkills : scope[f] # "none"}]
        /\ matched' = {f \in AllSkills : Matches(f, name, scope)}
        /\ passed' = matched'
  BY DEF BeginEvolution
<1>2. UNCHANGED scope
  BY DEF BeginEvolution
<1>3. evolve' \in Scans /\ evolve'.at = "scanning" /\ evolve'.name = name
      /\ evolve'.files = {f \in AllSkills : scope[f] # "none"}
  BY <1>1 DEF Scans
<1>4. ScanInv'
  BY <1>1, <1>2, <1>3 DEF ScanInv, Matches
<1> QED
  BY <1>2, <1>3, <1>4 DEF EvolveInv, EvolveTypeOK, EvolvedIsNamed

LEMMA NextFileIsFirst ==
  ASSUME NEW files \in SUBSET AllSkills, files # {}
  PROVE  \E f \in files : \A g \in files : Position(f) <= Position(g)
<1> DEFINE S == {Position(f) : f \in files}
<1>1. \A f \in files : Position(f) \in Nat
  <2>1. SkillFiles \in Seq(Range(SkillFiles)) /\ DOMAIN SkillFiles \subseteq Nat
    BY EvolveAssumption
  <2>2. \A f \in files : \E i \in DOMAIN SkillFiles : SkillFiles[i] = f
    BY DEF AllSkills, Range
  <2> QED
    BY <2>1, <2>2 DEF Position
<1>2. S \subseteq Nat /\ S # {}
  BY <1>1
<1>3. PICK n \in S : \A m \in S : n <= m
  BY <1>2, LeastNumber
<1> QED
  BY <1>3

LEMMA ScanSkillKept == ASSUME EvolveInv, ScanSkill PROVE EvolveInv'
<1>1. evolve.at = "scanning" /\ evolve.files # {} /\ UNCHANGED <<scope, matched, passed>>
  BY DEF ScanSkill
<1>2. /\ evolve \in Scans /\ passed \subseteq evolve.files
      /\ \A f \in passed : Matches(f, evolve.name, scope)
      /\ \A f \in AllSkills : Matches(f, evolve.name, scope) => f \in matched
      /\ \A f \in evolve.files : StemOf[f] = evolve.name => f \in matched
  BY <1>1 DEF EvolveInv, ScanInv
<1>3. evolve.files \in SUBSET AllSkills
  BY <1>2 DEF Scans
<1>4. PICK f : f = NextFile
  OBVIOUS
<1>5. f \in evolve.files /\ \A g \in evolve.files : Position(f) <= Position(g)
  BY <1>1, <1>3, <1>4, NextFileIsFirst DEF NextFile
<1>6. \/ evolve' = Found(f) /\ (StemOf[f] = evolve.name \/ Takes(f))
      \/ evolve' = [evolve EXCEPT !.files = evolve.files \ {f}] /\ ~Takes(f)
      \/ evolve' = [at |-> "failed"]
  BY <1>4 DEF ScanSkill
<1>7. CASE evolve' = [at |-> "failed"]
  BY <1>1, <1>7 DEF EvolveInv, EvolveTypeOK, ScanInv, EvolvedIsNamed
<1>8. CASE evolve' = [evolve EXCEPT !.files = evolve.files \ {f}] /\ ~Takes(f)
  <2>1. /\ evolve' \in Scans /\ evolve'.at = "scanning" /\ evolve'.name = evolve.name
        /\ evolve'.files = evolve.files \ {f}
    BY <1>2, <1>8 DEF Scans
  <2>2. f \notin passed
    BY <1>2, <1>8 DEF Takes
  <2>3. ScanInv'
    BY <1>1, <1>2, <2>1, <2>2 DEF ScanInv
  <2> QED
    BY <1>1, <2>1, <2>3 DEF EvolveInv, EvolveTypeOK, EvolvedIsNamed
<1>9. CASE evolve' = Found(f) /\ (StemOf[f] = evolve.name \/ Takes(f))
  <2>1. /\ evolve' \in Adaptations /\ evolve'.at = "adapting" /\ evolve'.skill = f
    BY <1>2, <1>3, <1>5, <1>9 DEF Scans, Adaptations, Found
  <2>2. f \in matched
    BY <1>2, <1>3, <1>5, <1>9 DEF Takes
  <2>3. \A g \in passed : Position(g) >= Position(f)
    BY <1>2, <1>5
  <2>4. EvolvedIsNamed'
    BY <1>1, <2>1, <2>2, <2>3 DEF EvolvedIsNamed
  <2> QED
    BY <1>1, <2>1, <2>4 DEF EvolveInv, EvolveTypeOK, ScanInv
<1> QED
  BY <1>6, <1>7, <1>8, <1>9

LEMMA RunAdapterKept == ASSUME EvolveInv, RunAdapter PROVE EvolveInv'
<1>1. evolve.at = "adapting" /\ UNCHANGED <<scope, matched, passed>> /\ evolve \in Adaptations
  BY DEF RunAdapter, EvolveInv
<1>2. evolve \in [at : {"adapting"}, name : SkillNames, dry : BOOLEAN, skill : AllSkills]
  BY <1>1 DEF Adaptations
<1>3. PICK diff \in BOOLEAN :
        evolve' = IF diff \/ evolve.dry
                    THEN [at |-> "answered", name |-> evolve.name, dry |-> evolve.dry,
                          skill |-> evolve.skill, candidate |-> diff]
                    ELSE [at |-> "failed"]
  BY DEF RunAdapter
<1>4. CASE diff \/ evolve.dry
  <2>1. /\ evolve' \in Adaptations /\ evolve'.at = "answered" /\ evolve'.skill = evolve.skill
        /\ evolve'.candidate = diff /\ evolve'.dry = evolve.dry
    BY <1>2, <1>3, <1>4 DEF Adaptations
  <2>2. EvolvedIsNamed'
    BY <1>1, <1>4, <2>1 DEF EvolveInv, EvolvedIsNamed
  <2> QED
    BY <1>1, <2>1, <2>2 DEF EvolveInv, EvolveTypeOK, ScanInv
<1>5. CASE ~(diff \/ evolve.dry)
  BY <1>1, <1>3, <1>5 DEF EvolveInv, EvolveTypeOK, ScanInv, EvolvedIsNamed
<1> QED
  BY <1>4, <1>5

LEMMA EvolveInvKept == EvolveInv /\ [EvolveNext]_evolveVars => EvolveInv'
<1>1. ASSUME EvolveInv, UNCHANGED evolveVars PROVE EvolveInv'
  BY <1>1 DEF evolveVars, EvolveInv, EvolveTypeOK, ScanInv, EvolvedIsNamed
<1>2. ASSUME EvolveInv, RefuseEvolution \/ AdapterFails PROVE EvolveInv'
  <2>1. evolve' \in {[at |-> "refused"], [at |-> "failed"]} /\ UNCHANGED <<scope, matched, passed>>
    BY <1>2 DEF RefuseEvolution, AdapterFails
  <2>2. evolve'.at \in {"refused", "failed"}
    BY <2>1
  <2> QED
    BY <1>2, <2>1, <2>2 DEF EvolveInv, EvolveTypeOK, ScanInv, EvolvedIsNamed
<1>3. ASSUME EvolveInv, SkillNotFound PROVE EvolveInv'
  BY <1>3 DEF SkillNotFound, EvolveInv, EvolveTypeOK, ScanInv, EvolvedIsNamed
<1> QED
  BY <1>1, <1>2, <1>3, SkillMovesKept, BeginEvolutionKept, ScanSkillKept,
     RunAdapterKept
     DEF EvolveNext

-----------------------------------------------------------------------------
(***************************************************************************)
(* The theorems, of the run that holds every component.                    *)
(***************************************************************************)

\* What is proved to hold of every part at once. The poller and the stream have
\* invariants of their own in PickerProofs and LifecycleProofs, for their own
\* specifications; the nodes that are rebuilt from the journal have none.
DaemonsInv ==
  /\ SearchInv /\ CrawlInv /\ ResearchInv /\ WatchInv /\ NtfyInv /\ StallInv /\ TrunkInv
  /\ WriteInv /\ PrSyncInv /\ SkillWatchInv /\ EvolveInv /\ PreCheckInv /\ WorldInv
  /\ WorldReadInv /\ ReviewInv /\ EditsInv /\ DeployInv

LEMMA DaemonsStart == DaemonsInit => DaemonsInv
<1> SUFFICES ASSUME DaemonsInit PROVE DaemonsInv
  OBVIOUS
<1>1. /\ GraphInit /\ PreCheckInit /\ SearchInit /\ CrawlInit /\ ResearchInit /\ PrSyncInit
      /\ EvolveInit /\ WorldInit /\ WatchInit /\ NtfyInit /\ StallInit /\ TrunkInit
      /\ WriteInit /\ SkillWatchInit /\ ReviewInit /\ DeployInit
  BY DEF DaemonsInit
<1> QED
  BY <1>1, SearchInvInductive, CrawlStarts, ResearchStarts, WatchInvInductive,
     NtfyStarts,
     StallStarts, TrunkStarts, WriteStarts, PrSyncStarts, SkillWatchStarts, EvolveStarts,
     PreCheckStarts, WorldStarts, WorldReadStarts, ReviewStarts, EditsStart, DeployStarts
     DEF DaemonsInv

\* Why each invariant is kept by every step of the run, whichever part takes it.
LEMMA DaemonsStep == DaemonsInv /\ [DaemonsNext]_daemonVars => DaemonsInv'
<1> SUFFICES ASSUME DaemonsInv, [DaemonsNext]_daemonVars PROVE DaemonsInv'
  OBVIOUS
<1>1. /\ SearchInv' /\ WatchInv' /\ NtfyInv' /\ StallInv' /\ TrunkInv'
  BY PartSteps, SearchInvInductive, WatchInvInductive, NtfyInvKept, StallInvKept,
     TrunkInvKept
     DEF DaemonsInv
<1>2. /\ CrawlInv' /\ ResearchInv' /\ WriteInv' /\ PrSyncInv' /\ SkillWatchInv'
  BY PartSteps, CrawlInvKept, ResearchInvKept, WriteInvKept, PrSyncInvKept,
     SkillWatchInvKept
     DEF DaemonsInv
<1>3. /\ EvolveInv' /\ PreCheckInv' /\ WorldInv' /\ ReviewInv' /\ EditsInv'
  BY PartSteps, EvolveInvKept, PreCheckInvKept, WorldInvKept, ReviewInvKept,
     EditsInvKept
     DEF DaemonsInv
<1>4. WorldReadInv' /\ DeployInv'
  BY PartSteps, WorldReadInvKept, DeployStep DEF DaemonsInv
<1> QED BY <1>1, <1>2, <1>3, <1>4 DEF DaemonsInv

LEMMA DaemonsInvariant == DaemonsSpec => []DaemonsInv
BY DaemonsStart, DaemonsStep, PTL DEF DaemonsSpec

\* The state of the search, the crawl, research, the watchers, the bridge to the
\* phone, the stall detector, the fetcher, the writes and merges of the graph,
\* the skills, the checks before a PR, the snapshots, the review artifacts and the
\* deploys keeps its type.
THEOREM DaemonsTypeCorrect ==
  DaemonsSpec => []( /\ SearchTypeOK /\ CrawlTypeOK /\ ResearchTypeOK /\ WatchTypeOK
                     /\ NtfyTypeOK /\ StallTypeOK /\ TrunkTypeOK /\ WriteTypeOK
                     /\ PrSyncTypeOK /\ SkillWatchTypeOK /\ EvolveTypeOK
                     /\ PreCheckTypeOK /\ WorldTypeOK /\ ReviewTypeOK /\ DeployTypeOK)
<1> DEFINE Typed == /\ SearchTypeOK /\ CrawlTypeOK /\ ResearchTypeOK /\ WatchTypeOK
                    /\ NtfyTypeOK /\ StallTypeOK /\ TrunkTypeOK /\ WriteTypeOK
                    /\ PrSyncTypeOK /\ SkillWatchTypeOK /\ EvolveTypeOK
                    /\ PreCheckTypeOK /\ WorldTypeOK /\ ReviewTypeOK /\ DeployTypeOK
<1>1. DaemonsInv => Typed
  <2> SUFFICES ASSUME DaemonsInv PROVE Typed
    OBVIOUS
  <2>1. EvolveTypeOK
    BY DEF DaemonsInv, EvolveInv
  <2> QED
    BY <2>1, SearchInvImplies, CrawlInvImplies, ResearchInvImplies, WatchInvImplies,
       NtfyInvImplies, StallInvImplies, TrunkInvImplies, WriteInvImplies, PrSyncInvImplies,
       SkillWatchInvImplies, PreCheckInvImplies, WorldReadTypes, ReviewInvImplies,
       DeployIsSafe
       DEF DaemonsInv
<1> HIDE DEF Typed
<1>2. DaemonsSpec => []Typed
  BY <1>1, DaemonsInvariant, PTL
<1> QED BY <1>2 DEF Typed

\* No call goes to Brave within the cooldown of the call to it that ended last,
\* if that failed, in whatever order calls start and end.
THEOREM CooldownKeptHolds == DaemonsSpec => CooldownKept
<1> DEFINE Rested ==
      \A s \in Searches :
        (search[s].at = "idle" /\ search'[s].at = "calling" /\ search'[s].backend = "brave") =>
          lastBrave.ok \/ clock >= lastBrave.start + CooldownSecs
<1>1. DaemonsInv /\ [DaemonsNext]_daemonVars => [Rested]_searchVars
  BY PartSteps, CooldownStep DEF DaemonsInv
<1>2. CooldownKept <=> [][Rested]_searchVars
  BY DEF CooldownKept
<1> HIDE DEF Rested
<1> QED
  BY <1>1, <1>2, DaemonsInvariant, PTL DEF DaemonsSpec

\* What is brought in from outside is what was asked for and what is told of it
\* is so, and an alarm has a cause, is given once and is not left out, for any
\* sizes of what is searched, crawled, watched, written and read.
THEOREM DaemonsSafetyHolds == DaemonsSpec => []DaemonsSafety
<1>1. DaemonsInv => DaemonsSafety
  <2> SUFFICES ASSUME DaemonsInv PROVE DaemonsSafety
    OBVIOUS
  <2>1. SearchSafety /\ CrawlSafety /\ CompletedIsStored /\ ChangeIsTold
    BY SearchInvImplies, CrawlInvImplies, ResearchInvImplies, SkillWatchInvImplies
       DEF DaemonsInv
  <2>2. EvolvedIsNamed /\ ReadyIsSound
    BY DEF DaemonsInv, EvolveInv, WorldInv
  <2>3. /\ OutcomeIsTrue /\ CandidatesFollow /\ ChecksAreTrue /\ ReadIsCurrent /\ MarksAreKept
        /\ EditsKept
    BY WriteInvImplies, PrSyncInvImplies, PreCheckInvImplies, ReviewInvImplies,
       EditsInvImplies
       DEF DaemonsInv
  <2>4. /\ ClockIsReal /\ DriftIsReal /\ SuspectedOnce
        /\ NotifiedOnce /\ StallIsReal /\ StalenessIsTold
    BY WatchInvImplies, NtfyInvImplies, StallInvImplies, TrunkInvImplies
    DEF DaemonsInv
  <2>5. WorldIsTold /\ DeploySafety
    BY WorldReadTells, DeployIsSafe DEF DaemonsInv
  <2> QED BY <2>1, <2>2, <2>3, <2>4, <2>5 DEF DaemonsSafety
<1> QED
  BY <1>1, DaemonsInvariant, PTL

\* What a search is answered is in the journal, and a private query has gone to
\* the private backend alone.
THEOREM SearchSafetyHolds == DaemonsSpec => []SearchSafety
<1>1. DaemonsSafety => SearchSafety
  BY DEF DaemonsSafety
<1> QED
  BY <1>1, DaemonsSafetyHolds, PTL

\* The pages of a crawl are those nearest to its root, each once and within the
\* depth, and all of them when it ended below its limit; a crawl by Firecrawl
\* never has more pages than asked, however its answers are cut.
THEOREM CrawlSafetyHolds == DaemonsSpec => []CrawlSafety
<1>1. DaemonsSafety => CrawlSafety
  BY DEF DaemonsSafety
<1> QED
  BY <1>1, DaemonsSafetyHolds, PTL

\* A task is called ready only if the journal was there and no write to the graph
\* had failed when the snapshot was asked for, whatever was appended twice or while
\* its files were read.
THEOREM ReadyIsSoundHolds == DaemonsSpec => []ReadyIsSound
<1>1. DaemonsSafety => ReadyIsSound
  BY DEF DaemonsSafety
<1> QED
  BY <1>1, DaemonsSafetyHolds, PTL

\* A snapshot says of every file what its lines said at some time between the
\* request and the answer, although the files grow while they are read one after
\* another, for any number of lines, Pickers and writes.
THEOREM WorldIsToldHolds == DaemonsSpec => []WorldIsTold
<1>1. DaemonsSafety => WorldIsTold
  BY DEF DaemonsSafety
<1> QED
  BY <1>1, DaemonsSafetyHolds, PTL
=============================================================================
