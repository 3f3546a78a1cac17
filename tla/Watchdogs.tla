------------------------------ MODULE Watchdogs ------------------------------
(***************************************************************************)
(* The daemons that look around at every tick and tell the journal what is *)
(* amiss or has moved: three that look at something outside, below them    *)
(* the stall detector, which looks at Pickers, and the trunk fetcher,      *)
(* which looks at the remote.  They share nothing.                         *)
(***************************************************************************)
EXTENDS Integers, Sequences, FiniteSets, SequencesExt

(***************************************************************************)
(* The daemons that look at something outside at every tick and tell the   *)
(* journal: jam-clock-watcher (is the clock synchronized), jam-harness-    *)
(* watcher (is the installed codex the pinned one) and jam-skill-suspicion *)
(* (which skills have dead ends enough).  Any error ends the process,      *)
(* which is started again with nothing remembered.                         *)
(***************************************************************************)
CONSTANTS
  MaxBuild,     \* builds of the harness
  Entries,      \* dead_end entries of the Tempyr journal
  TagsOf,       \* TagsOf[e]: the skills an entry is tagged with
  SkillOrder,   \* the scopes in the order of their names
  Threshold,    \* dead ends that make a skill suspect
  SearchLimit,  \* entries one search returns at most
  WatchFaults   \* what may fail: "read", "publish"

Skills == Range(SkillOrder)

ASSUME WatchAssumption ==
  /\ MaxBuild \in Nat \ {0} /\ Threshold \in Nat \ {0} /\ SearchLimit \in Nat
  /\ TagsOf \in [Entries -> SUBSET Skills]
  /\ WatchFaults \subseteq {"read", "publish"}

VARIABLES
  synced,    \* what timedatectl shows: [ntp, system], system may be missing
  clockSaw,  \* the clock watcher: [at, saw, told] of its last check
  lock,      \* build the lockfile pins, by version and checksum
  installed, \* build of the codex binary
  drift,     \* the harness watcher's check: [at, lock, version, told]
  apart,     \* history of the check: the two differed at some moment; they stayed so
  entries,   \* dead ends in the window
  suspicion, \* the suspicion check: [at, pending, emitted]
  suspected  \* what this process has published, in order

clockVars == <<synced, clockSaw>>
driftVars == <<lock, installed, drift, apart>>
skillVars == <<entries, suspicion, suspected>>
watchVars == <<clockVars, driftVars, skillVars>>

WatchErr(kind) == kind \in WatchFaults
Restarted == [at |-> "waiting", pending |-> {}, emitted |-> {}]

WatchInit ==
  /\ synced = [ntp |-> "yes", system |-> "yes"] /\ clockSaw = [at |-> "waiting"]
  /\ lock = 1 /\ installed = 1 /\ drift = [at |-> "waiting"]
  /\ apart = [ever |-> FALSE, stayed |-> FALSE]
  /\ entries = {} /\ suspicion = Restarted /\ suspected = <<>>

(***************************************************************************)
(* The clock                                                               *)
(***************************************************************************)

ClockMoves ==
  /\ \E ntp \in {"yes", "no", "missing"}, system \in {"yes", "no", "missing"} :
       synced' = [ntp |-> ntp, system |-> system]
  /\ UNCHANGED <<clockSaw, driftVars, skillVars>>

\* Faulty variant: a field that is missing counts as no.
UnsyncedIfMissing(saw) == saw.ntp # "yes" \/ saw.system # "yes"

\* check_once: a field about the system clock that is missing counts as yes.
Unsynced(saw) == saw.ntp = "no" \/ saw.system = "no"

\* timedatectl_show and parse_timedatectl_sync; without NTPSynchronized the
\* check fails.
CheckClock ==
  /\ clockSaw.at = "waiting"
  /\ \/ clockSaw' = [at |-> IF synced.ntp = "missing" THEN "down"
                            ELSE IF Unsynced(synced) THEN "telling" ELSE "checked",
                     saw |-> synced]
     \/ WatchErr("read") /\ clockSaw' = [at |-> "down"]
  /\ UNCHANGED <<synced, driftVars, skillVars>>

TellClock ==
  /\ clockSaw.at = "telling"
  /\ \/ clockSaw' = [clockSaw EXCEPT !.at = "told"]
     \/ WatchErr("publish") /\ clockSaw' = [at |-> "down"]
  /\ UNCHANGED <<synced, driftVars, skillVars>>

\* The next tick, or the next life.
NextClockTick ==
  /\ clockSaw.at \in {"checked", "told", "down"}
  /\ clockSaw' = [at |-> "waiting"]
  /\ UNCHANGED <<synced, driftVars, skillVars>>

(***************************************************************************)
(* The harness                                                             *)
(***************************************************************************)

\* A build, which its checksum tells, reports a version; the next build may
\* report the same.
VersionOf(build) == build \div 2

\* An operator upgrades the harness or moves the pin, one after the other.
MoveHarness ==
  /\ \E build \in 1..MaxBuild :
       \/ lock' = build /\ UNCHANGED installed
       \/ installed' = build /\ UNCHANGED lock
  /\ <<lock', installed'>> # <<lock, installed>>
  /\ apart' = [ever |-> apart.ever \/ lock' # installed', stayed |-> FALSE]
  /\ UNCHANGED <<drift, clockVars, skillVars>>

\* detect_codex_drift reads the lockfile first.
ReadLockfile ==
  /\ drift.at = "waiting"
  /\ \/ drift' = [at |-> "version", lock |-> lock]
     \/ WatchErr("read") /\ drift' = [at |-> "down"]
  /\ apart' = [ever |-> lock # installed, stayed |-> lock # installed]
  /\ UNCHANGED <<lock, installed, clockVars, skillVars>>

\* codex_version runs the binary.
ReadVersion ==
  /\ drift.at = "version"
  /\ \/ drift' = [at |-> "checksum", lock |-> drift.lock, version |-> VersionOf(installed)]
     \/ WatchErr("read") /\ drift' = [at |-> "down"]
  /\ UNCHANGED <<lock, installed, apart, clockVars, skillVars>>

\* Faulty variant: the version alone is compared.
DriftedByVersion(pinned, version, checksum) == version # VersionOf(pinned)

\* harness_fingerprint of the pin and of what was read differ.
Drifted(pinned, version, checksum) ==
  version # VersionOf(pinned) \/ checksum # pinned

\* sha256_file reads the binary, which may be another one by now.
ReadChecksum ==
  /\ drift.at = "checksum"
  /\ \/ drift' = [at |-> IF Drifted(drift.lock, drift.version, installed)
                           THEN "telling" ELSE "matched"]
     \/ WatchErr("read") /\ drift' = [at |-> "down"]
  /\ UNCHANGED <<lock, installed, apart, clockVars, skillVars>>

TellDrift ==
  /\ drift.at = "telling"
  /\ \/ drift' = [at |-> "waiting"]
     \/ WatchErr("publish") /\ drift' = [at |-> "down"]
  /\ UNCHANGED <<lock, installed, apart, clockVars, skillVars>>

NextHarnessTick ==
  /\ drift.at \in {"matched", "down"}
  /\ drift' = [at |-> "waiting"]
  /\ UNCHANGED <<lock, installed, apart, clockVars, skillVars>>

(***************************************************************************)
(* The skills                                                              *)
(***************************************************************************)

\* Entries are written, and leave the window of since_days.
DeadEndsMove ==
  /\ \E e \in Entries : entries' = (entries \ {e}) \union ({e} \ entries)
  /\ UNCHANGED <<suspicion, suspected, clockVars, driftVars>>

Implicating(hits, skill) == {e \in hits : skill \in TagsOf[e]}

\* suspicions_from_search_json: the scopes with entries enough.
Suspicions(hits) ==
  LET Suspect(skill) == Cardinality(Implicating(hits, skill)) >= Threshold
  IN {<<skill, Implicating(hits, skill)>> : skill \in {k \in Skills : Suspect(k)}}

\* They are sorted by scope.
ComesFirst(fingerprint, pending) ==
  LET Place(skill) == CHOOSE i \in DOMAIN SkillOrder : SkillOrder[i] = skill
  IN \A other \in pending : Place(fingerprint[1]) <= Place(other[1])

\* tempyr_dead_ends returns what fits in the limit.
SearchDeadEnds ==
  /\ suspicion.at = "waiting"
  /\ \/ \E hits \in SUBSET entries :
          /\ Cardinality(hits) = IF Cardinality(entries) <= SearchLimit
                                   THEN Cardinality(entries) ELSE SearchLimit
          /\ suspicion' = [suspicion EXCEPT !.at = "telling", !.pending = Suspicions(hits)]
          /\ UNCHANGED suspected
     \/ WatchErr("read") /\ suspicion' = Restarted /\ suspected' = <<>>
  /\ UNCHANGED <<entries, clockVars, driftVars>>

\* Faulty variant: a scope is told for every search.
IsNewAlways(fingerprint) == TRUE

\* emitted.insert
IsNew(fingerprint) == fingerprint \notin suspicion.emitted

\* The fingerprint is remembered before the event is published; a failed
\* publish ends the process and with it what was remembered.
TellSuspicion ==
  /\ suspicion.at = "telling"
  /\ \E next \in suspicion.pending :
       LET rest == [suspicion EXCEPT !.pending = @ \ {next}, !.emitted = @ \union {next}]
       IN /\ ComesFirst(next, suspicion.pending)
          /\ IF IsNew(next)
               THEN \/ suspicion' = rest /\ suspected' = Append(suspected, next)
                    \/ WatchErr("publish") /\ suspicion' = Restarted /\ suspected' = <<>>
               ELSE suspicion' = rest /\ UNCHANGED suspected
  /\ UNCHANGED <<entries, clockVars, driftVars>>

NextSkillTick ==
  /\ suspicion.at = "telling" /\ suspicion.pending = {}
  /\ suspicion' = [suspicion EXCEPT !.at = "waiting"]
  /\ UNCHANGED <<entries, suspected, clockVars, driftVars>>

ClockNext == ClockMoves \/ CheckClock \/ TellClock \/ NextClockTick

HarnessNext ==
  MoveHarness \/ ReadLockfile \/ ReadVersion \/ ReadChecksum \/ TellDrift \/ NextHarnessTick

SkillNext == DeadEndsMove \/ SearchDeadEnds \/ TellSuspicion \/ NextSkillTick
-----------------------------------------------------------------------------

WatchTypeOK ==
  /\ clockSaw.at \in {"waiting", "telling", "checked", "told", "down"}
  /\ drift.at \in {"waiting", "version", "checksum", "telling", "matched", "down"}
  /\ suspicion.at \in {"waiting", "telling"} /\ entries \subseteq Entries

\* An event about the clock reports a clock that was seen unsynchronized, and a
\* clock that was seen so is not passed over (clock-watcher main.rs:160-193).
ClockIsReal ==
  /\ clockSaw.at \in {"telling", "told"} => "no" \in {clockSaw.saw.ntp, clockSaw.saw.system}
  /\ clockSaw.at = "checked" => "no" \notin {clockSaw.saw.ntp, clockSaw.saw.system}

\* The lockfile, the version and the checksum are read one after another while
\* an operator changes them: a drift that is told was there at some moment of
\* the check, and one that stayed as it was from the first read on is told
\* (harness-watcher main.rs:198-278).
DriftIsReal ==
  /\ drift.at = "telling" => apart.ever
  /\ drift.at = "matched" => ~apart.stayed

\* A process tells no skill twice with the same dead ends, and none with fewer
\* than the threshold (skill-suspicion main.rs:190-211, 306-350).
SuspectedOnce ==
  /\ \A i, j \in DOMAIN suspected : suspected[i] = suspected[j] => i = j
  /\ \A i \in DOMAIN suspected : Cardinality(suspected[i][2]) >= Threshold

-----------------------------------------------------------------------------
(***************************************************************************)
(* jam-stall-detector: what Pickers say and how they live comes in over two *)
(* subscriptions, each in its order; a tick looks for sessions that have   *)
(* been silent too long, an output for a tool that is called again and     *)
(* again.  A failed publish ends the process, which starts again with      *)
(* nothing remembered and whatever was not handled lost.                   *)
(***************************************************************************)
CONSTANTS
  Watched,      \* Picker sessions
  IdleSecs,     \* token_idle_secs, in ticks
  LoopLength,   \* tool_loop_threshold
  Signatures,   \* tool calls with their arguments
  MaxNow,       \* ticks the model looks at
  MaxSaid,      \* outputs of one session
  StallFaults   \* what may fail: "publish"

ASSUME StallAssumption ==
  /\ IdleSecs \in Nat \ {0} /\ LoopLength \in Nat \ {0}
  /\ MaxNow \in Nat /\ MaxSaid \in Nat /\ StallFaults \subseteq {"publish"}

VARIABLES
  now,       \* Utc::now()
  said,      \* said[p]: what the session has put out, [tool, at]
  exited,    \* sessions that have ended
  lives,     \* the lifecycle subscription: [p, at, end]
  outputs,   \* the output subscription: [p, n], the n-th output of p
  sessions,  \* Detector.sessions: [last, tool, count, emitted] by session
  stalls,    \* found, not yet published: [p, kind, n]
  stalled,   \* published tool-loop events
  reports    \* [idle, lives]: how often told silent, how often put in the map

stallVars == <<now, said, exited, lives, outputs, sessions, stalls, stalled, reports>>

NoTool == "no tool"
Fresh(at) == [last |-> at, tool |-> NoTool, count |-> 0, emitted |-> {}]
StallErr(kind) == kind \in StallFaults

StallInit ==
  /\ now = 0 /\ said = [p \in Watched |-> <<>>] /\ exited = {}
  /\ lives = <<>> /\ outputs = <<>> /\ sessions = <<>>
  /\ stalls = <<>> /\ stalled = {}
  /\ reports = [p \in Watched |-> [idle |-> 0, lives |-> 0]]

TimePasses ==
  /\ now < MaxNow /\ now' = now + 1
  /\ UNCHANGED <<said, exited, lives, outputs, sessions, stalls, stalled, reports>>

\* A Picker puts out text, or calls a tool; its first output is told on the
\* other subject too.
PickerSays(p) ==
  /\ p \notin exited /\ Len(said[p]) < MaxSaid
  /\ \E tool \in Signatures \union {NoTool} :
       said' = [said EXCEPT ![p] = Append(@, [tool |-> tool, at |-> now])]
  /\ outputs' = Append(outputs, [p |-> p, n |-> Len(said[p]) + 1])
  /\ lives' = IF said[p] = <<>> THEN Append(lives, [p |-> p, at |-> now, end |-> FALSE]) ELSE lives
  /\ UNCHANGED <<now, exited, sessions, stalls, stalled, reports>>

PickerExits(p) ==
  /\ p \notin exited /\ exited' = exited \union {p}
  /\ lives' = Append(lives, [p |-> p, at |-> now, end |-> TRUE])
  /\ UNCHANGED <<now, said, outputs, sessions, stalls, stalled, reports>>

\* The session as it is, or SessionState::new.
StateOf(p, at) == IF p \in DOMAIN sessions THEN sessions[p] ELSE Fresh(at)
With(p, state) == [q \in DOMAIN sessions \union {p} |-> IF q = p THEN state ELSE sessions[q]]
Born(p) == IF p \in DOMAIN sessions THEN reports ELSE [reports EXCEPT ![p].lives = @ + 1]

Forget(p) == [q \in DOMAIN sessions \ {p} |-> sessions[q]]

\* handle_lifecycle: an end removes the session, anything else sets the time of
\* its last output to that of the event, also when an output was later.
HandleLifecycle ==
  /\ stalls = <<>> /\ lives # <<>>
  /\ LET m == Head(lives)
     IN /\ sessions' = IF m.end THEN Forget(m.p)
                       ELSE With(m.p, [StateOf(m.p, now) EXCEPT !.last = m.at])
        /\ reports' = IF m.end THEN reports ELSE Born(m.p)
  /\ lives' = Tail(lives)
  /\ UNCHANGED <<now, said, exited, outputs, stalls, stalled>>

\* Faulty variant: another tool in between does not end the count.
CountedKeeping(state, tool) ==
  [state EXCEPT !.tool = tool, !.count = @ + 1]

\* Calls of the same tool with the same arguments in a row; outputs without a
\* tool do not come between.
CountedTool(state, tool) ==
  [state EXCEPT !.tool = tool, !.count = IF state.tool = tool THEN @ + 1 ELSE 1]

\* handle_output: only text moves the time of the last output, so a session
\* that does nothing but call tools goes idle.
HandleOutput ==
  /\ stalls = <<>> /\ outputs # <<>>
  /\ LET m     == Head(outputs)
         out   == said[m.p][m.n]
         old   == StateOf(m.p, now)
         state == IF out.tool = NoTool THEN [old EXCEPT !.last = out.at]
                  ELSE CountedTool(old, out.tool)
         loops == state.count >= LoopLength /\ out.tool # NoTool /\ "tool-loop" \notin state.emitted
     IN /\ sessions' = With(m.p, IF ~loops THEN state
                                ELSE [state EXCEPT !.emitted = @ \union {"tool-loop"}])
        /\ reports' = Born(m.p)
        /\ stalls' = IF loops THEN <<[p |-> m.p, kind |-> "tool-loop", n |-> m.n]>> ELSE <<>>
  /\ outputs' = Tail(outputs)
  /\ UNCHANGED <<now, said, exited, lives, stalled>>

IsIdle(state) == now - state.last >= IdleSecs

\* Faulty variant: what was told is not remembered.
ToldAlready(state) == state

RememberIdle(state) == [state EXCEPT !.emitted = @ \union {"token-idle"}]

\* detect_idle of every session, each once, in the order of a hash map.
DetectIdle ==
  LET idle == {p \in DOMAIN sessions :
                 IsIdle(sessions[p]) /\ "token-idle" \notin sessions[p].emitted}
      stall(p) == [p |-> p, kind |-> "token-idle", n |-> now - sessions[p].last]
  IN /\ stalls = <<>> /\ idle # {}
     /\ sessions' = [p \in DOMAIN sessions |->
          IF p \in idle THEN RememberIdle(sessions[p]) ELSE sessions[p]]
     /\ \E order \in SetToSeqs(idle) : stalls' = [i \in DOMAIN order |-> stall(order[i])]
     /\ UNCHANGED <<now, said, exited, lives, outputs, stalled, reports>>

\* publish_stalls: one that cannot be published ends the process, with the
\* rest, the sessions and what both subscriptions held.
PublishStall ==
  /\ stalls # <<>>
  /\ \/ /\ LET s == Head(stalls)
           IN IF s.kind = "tool-loop"
                THEN stalled' = stalled \union {s} /\ UNCHANGED reports
                ELSE reports' = [reports EXCEPT ![s.p].idle = @ + 1] /\ UNCHANGED stalled
        /\ stalls' = Tail(stalls)
        /\ UNCHANGED <<lives, outputs, sessions>>
     \/ /\ StallErr("publish")
        /\ stalls' = <<>> /\ lives' = <<>> /\ outputs' = <<>> /\ sessions' = <<>>
        /\ UNCHANGED <<stalled, reports>>
  /\ UNCHANGED <<now, said, exited>>

StallNext ==
  \/ TimePasses \/ \E p \in Watched : PickerSays(p) \/ PickerExits(p)
  \/ HandleLifecycle \/ HandleOutput \/ DetectIdle \/ PublishStall
-----------------------------------------------------------------------------

StallTypeOK ==
  /\ now \in 0..MaxNow /\ exited \subseteq Watched
  /\ DOMAIN sessions \subseteq Watched

ToolCalls(p, m, n) == {i \in m..n : said[p][i].tool # NoTool}

\* The last calls up to an output, LoopLength of them or more, are the same.
Loops(p, n) ==
  \E m \in 1..n :
    /\ Cardinality(ToolCalls(p, m, n)) >= LoopLength
    /\ \A i, j \in ToolCalls(p, m, n) : said[p][i].tool = said[p][j].tool

\* A tool loop that is reported was one: the last calls the session made up to
\* that output are the same, whatever text, restart or other session came
\* between; and one session is told silent once for each time it entered the
\* map, however often it falls silent (main.rs:254-326).
StallIsReal ==
  /\ \A s \in stalled : Loops(s.p, s.n)
  /\ \A p \in Watched : reports[p].idle <= reports[p].lives

(***************************************************************************)
(* jam-trunk-fetcher: at every tick it fetches the remote, tells when      *)
(* trunk has moved, and for every worktree it knows how far it is behind   *)
(* and ahead when that has changed.  It knows worktrees from the journal,  *)
(* replayed at the start, and from worktree.created afterwards.  Other     *)
(* services fetch into the same clone.  Any other failure than that of a   *)
(* count ends the process.                                                 *)
(***************************************************************************)
CONSTANTS
  FetchTasks,    \* tasks with a worktree
  MaxTrunkRev,   \* revisions of trunk
  MaxCounts,     \* staleness events the model looks at
  FetchFaults    \* what may fail: "fetch", "count", "publish"

ASSUME FetchAssumption ==
  /\ MaxTrunkRev \in Nat \ {0} /\ MaxCounts \in Nat
  /\ FetchFaults \subseteq {"fetch", "count", "publish"}

VARIABLES
  remote,   \* trunk at the remote
  trunk,    \* trunk in the clone that all services share
  head,     \* head[t]: [base, ahead] of a task's worktree, none before it is created
  fetcher,  \* the process: [at, before, todo, inbox, known]
  journal,  \* worktree.created and branch.* events, [type, ...], in order
  moves     \* branch.trunk-moved events: <<old, new>>

trunkVars == <<remote, trunk, head, fetcher, journal, moves>>

NoTree == [base |-> 0, ahead |-> 0]
Unknown == <<>>   \* last_counts of a worktree not yet counted
FetchErr(kind) == kind \in FetchFaults
Ended == [at |-> "down"]

TrunkInit ==
  /\ remote = 1 /\ trunk = 1
  /\ head = [t \in FetchTasks |-> NoTree]
  /\ fetcher = Ended /\ journal = <<>> /\ moves = <<>>

\* Somebody merges at the remote.
RemoteMoves ==
  /\ remote < MaxTrunkRev /\ remote' = remote + 1
  /\ UNCHANGED <<trunk, head, fetcher, journal, moves>>

\* Another service of the same clone fetches.
OtherFetch ==
  /\ trunk # remote /\ trunk' = remote
  /\ UNCHANGED <<remote, head, fetcher, journal, moves>>

\* A worktree is made at trunk and told.
TreeCreated(t) ==
  /\ head[t] = NoTree
  /\ head' = [head EXCEPT ![t] = [base |-> trunk, ahead |-> 0]]
  /\ journal' = Append(journal, [type |-> "created", task |-> t])
  /\ fetcher' = IF "inbox" \in DOMAIN fetcher
                  THEN [fetcher EXCEPT !.inbox = Append(@, t)] ELSE fetcher
  /\ UNCHANGED <<remote, trunk, moves>>

\* A Picker commits once, or rebases.
TreeMoves(t) ==
  /\ head[t] # NoTree
  /\ \/ head[t].ahead = 0 /\ head' = [head EXCEPT ![t].ahead = 1]
     \/ head[t].base < trunk /\ head' = [head EXCEPT ![t].base = trunk]
  /\ UNCHANGED <<remote, trunk, fetcher, journal, moves>>

\* apply_journal_envelope: an update of a worktree not known is passed over.
ApplyJournaled(known, e) ==
  IF e.type = "created"
    THEN [t \in DOMAIN known \union {e.task} |-> IF t = e.task THEN Unknown ELSE known[t]]
    ELSE IF e.task \in DOMAIN known THEN [known EXCEPT ![e.task] = e.counts] ELSE known

\* The lines of one of the files a day has, read in their order.
ReplayFile(type, known) ==
  LET trees[i \in 0..Len(journal)] ==
        IF i = 0 THEN known
        ELSE IF journal[i].type = type THEN ApplyJournaled(trees[i - 1], journal[i])
        ELSE trees[i - 1]
  IN trees[Len(journal)]

None == [t \in {} |-> Unknown]

\* Faulty variant: the branch file is read first, as its name sorts.
ReplayedByName == ReplayFile("created", ReplayFile("counts", None))

\* load_journal: the worktree file, then the branch file of a day.
TreesReplayed == ReplayFile("counts", ReplayFile("created", None))

\* load_journal, before the subscription is made.
LoadTrees ==
  /\ fetcher.at = "down"
  /\ fetcher' = [at |-> "starting", known |-> TreesReplayed]
  /\ UNCHANGED <<remote, trunk, head, journal, moves>>

SubscribeTrees ==
  /\ fetcher.at = "starting"
  /\ fetcher' = [at |-> "waiting", known |-> fetcher.known, inbox |-> <<>>]
  /\ UNCHANGED <<remote, trunk, head, journal, moves>>

\* handle_worktree_created
HandleCreated ==
  /\ fetcher.at = "waiting" /\ fetcher.inbox # <<>>
  /\ fetcher' = [fetcher EXCEPT !.inbox = Tail(@),
                   !.known = ApplyJournaled(@, [type |-> "created", task |-> Head(fetcher.inbox)])]
  /\ UNCHANGED <<remote, trunk, head, journal, moves>>

\* run_cycle: rev_parse_optional before the fetch.
BeginFetchCycle ==
  /\ fetcher.at = "waiting"
  /\ fetcher' = [at |-> "fetching", known |-> fetcher.known, inbox |-> fetcher.inbox,
                 before |-> trunk]
  /\ UNCHANGED <<remote, trunk, head, journal, moves>>

GitFetch ==
  /\ fetcher.at = "fetching"
  /\ \/ trunk' = remote /\ fetcher' = [fetcher EXCEPT !.at = "comparing"]
     \/ FetchErr("fetch") /\ fetcher' = Ended /\ UNCHANGED trunk
  /\ UNCHANGED <<remote, head, journal, moves>>

\* rev_parse_required after it; a move is told before anything is counted.
TellMoved ==
  /\ fetcher.at = "comparing"
  /\ \/ /\ moves' = IF fetcher.before # trunk
                     THEN Append(moves, <<fetcher.before, trunk>>) ELSE moves
        /\ fetcher' = [at |-> "counting", known |-> fetcher.known, inbox |-> fetcher.inbox,
                       todo |-> DOMAIN fetcher.known]
     \/ FetchErr("publish") /\ fetcher.before # trunk /\ fetcher' = Ended /\ UNCHANGED moves
  /\ UNCHANGED <<remote, trunk, head, journal>>

\* staleness_counts: commits behind and ahead of trunk.
CountsOf(t) == <<trunk - head[t].base, head[t].ahead>>

\* One worktree, in any order: told when changed, remembered when told; a
\* failed count is logged and the worktree kept.
CountTree(t) ==
  /\ fetcher.at = "counting" /\ t \in fetcher.todo
  /\ LET rest == [fetcher EXCEPT !.todo = @ \ {t}]
     IN \/ /\ fetcher.known[t] = CountsOf(t)
           /\ fetcher' = rest /\ UNCHANGED journal
        \/ /\ fetcher.known[t] # CountsOf(t) /\ Len(journal) < MaxCounts
           /\ \/ /\ journal' = Append(journal,
                      [type |-> "counts", task |-> t, counts |-> CountsOf(t)])
                 /\ fetcher' = [rest EXCEPT !.known[t] = CountsOf(t)]
              \/ FetchErr("publish") /\ fetcher' = Ended /\ UNCHANGED journal
        \/ FetchErr("count") /\ fetcher' = rest /\ UNCHANGED journal
  /\ UNCHANGED <<remote, trunk, head, moves>>

EndFetchCycle ==
  /\ fetcher.at = "counting" /\ fetcher.todo = {}
  /\ fetcher' = [at |-> "waiting", known |-> fetcher.known, inbox |-> fetcher.inbox]
  /\ UNCHANGED <<remote, trunk, head, journal, moves>>

TrunkNext ==
  \/ RemoteMoves \/ OtherFetch
  \/ \E t \in FetchTasks : TreeCreated(t) \/ TreeMoves(t) \/ CountTree(t)
  \/ LoadTrees \/ SubscribeTrees \/ HandleCreated
  \/ BeginFetchCycle \/ GitFetch \/ TellMoved \/ EndFetchCycle
-----------------------------------------------------------------------------

TrunkTypeOK ==
  /\ trunk \in 1..remote /\ remote \in 1..MaxTrunkRev
  /\ fetcher.at \in {"down", "starting", "waiting", "fetching", "comparing", "counting"}

\* The last the journal holds of a task is that it has these counts, or that
\* its worktree was created.
ToldLast(t, counts) ==
  \E i \in DOMAIN journal :
    /\ journal[i].task = t /\ \A j \in DOMAIN journal : journal[j].task = t => j <= i
    /\ counts = IF journal[i].type = "created" THEN Unknown ELSE journal[i].counts

\* What the fetcher remembers of a worktree is what the journal says of it,
\* before and after any restart, so that a change is told once and no change is
\* kept back (main.rs:225-271, 318-370); and the moves of trunk it tells are in
\* order and never overlap, whoever else fetches into the clone (330-352).
StalenessIsTold ==
  /\ fetcher.at # "down" => \A t \in DOMAIN fetcher.known : ToldLast(t, fetcher.known[t])
  /\ \A i \in DOMAIN moves :
       /\ moves[i][1] < moves[i][2]
       /\ i > 1 => moves[i - 1][2] <= moves[i][1]
==============================================================================
