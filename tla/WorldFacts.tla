------------------------------ MODULE WorldFacts ------------------------------
(***************************************************************************)
(* What a world snapshot of jam-svc-observe says of one task               *)
(* (compile_snapshot): the journal's files are read one after another,     *)
(* while jam-nats-bridge appends to them, and folded line by line; GitHub  *)
(* is asked only where no PR was found; what each source gave is tagged    *)
(* fresh, deferred or unavailable, and the verdict follows from the tags.  *)
(***************************************************************************)
EXTENDS Naturals, Sequences, FiniteSets, SequencesExt

CONSTANTS
  Pickers,      \* session ids
  GraphWrites,  \* writes to the Tempyr graph
  NoPicker,     \* no Picker
  MaxLines,     \* bound: lines of the files
  MaxAgain      \* bound: lines that are written again

ASSUME WorldBoundsAssumption ==
  {MaxLines, MaxAgain} \subseteq Nat /\ NoPicker \notin Pickers /\ "dead_end" \notin GraphWrites

VARIABLES
  lines,    \* the lines of each file, of today
  again,    \* lines so far that repeat an earlier one
  rooted,   \* the journal's directory is there
  github,   \* what gh says of the branch's PR: "none", "open" or "fails"
  reading,  \* the files a compilation has yet to read, what it found, the lines then
  snapshot  \* the snapshot that has just been answered, or NoWorld

worldVars == <<lines, again, rooted, github, reading, snapshot>>

\* The files of a day in the order of their names; tempyr is read last.
FileOrder == <<"branch", "picker", "pr", "worktree", "tempyr">>
JournalFiles == Range(FileOrder)

NoFacts ==
  [session |-> NoPicker, status |-> "none", tree |-> FALSE, stale |-> "none", pr |-> "none",
   ci |-> "none", reviews |-> 0, pending |-> 0, failed |-> 0, deadEnds |-> 0, told |-> 0]
NoWorld == [facts |-> NoFacts, tags |-> [s \in {} |-> "none"], verdict |-> "none", merge |-> "none"]
NotReading == [todo |-> <<>>, facts |-> NoFacts, at |-> [f \in JournalFiles |-> <<>>]]

WorldInit ==
  /\ lines = [f \in JournalFiles |-> <<>>] /\ again = 0
  /\ rooted \in BOOLEAN
  /\ github \in {"none", "open", "fails"}
  /\ reading = NotReading
  /\ snapshot = NoWorld

Line(type, id) == [type |-> type, id |-> id]
Has(f, line) == line \in Range(lines[f])
Some(f, type) == \E line \in Range(lines[f]) : line.type = type

\* A line that may follow in the file f, as the services publish: a Picker ends
\* once and after it was spawned, a PR is opened first and merged last, a write
\* is settled once.
MayFollow(f, line) ==
  CASE line.type = "picker.spawned" -> ~Has(f, line)
    [] line.type \in {"picker.exited", "picker.killed"} ->
         /\ Has(f, Line("picker.spawned", line.id))
         /\ ~Has(f, Line("picker.exited", line.id)) /\ ~Has(f, Line("picker.killed", line.id))
    [] line.type = "pr.opened" -> ~Some(f, "pr.opened")
    [] f = "pr" /\ line.type # "pr.opened" -> Some(f, "pr.opened") /\ ~Some(f, "pr.merged")
    [] line.type = "tempyr.write-pending" -> ~Has(f, line)
    [] line.type \in {"tempyr.write-confirmed", "tempyr.write-permanently-failed"} ->
         /\ Has(f, Line("tempyr.write-pending", line.id))
         /\ ~Has(f, Line("tempyr.write-confirmed", line.id))
         /\ ~Has(f, Line("tempyr.write-permanently-failed", line.id))
    [] OTHER -> ~Has(f, line)

LinesOf(f) ==
  CASE f = "picker" -> {Line(t, s) : t \in {"picker.spawned", "picker.exited", "picker.killed"}, s \in Pickers}
    [] f = "pr" -> {Line(t, "none") : t \in {"pr.opened", "pr.review-received", "pr.merged"}}
                   \union {Line("pr.status-changed", s) : s \in {"open", "closed"}}
                   \union {Line("pr.ci.status-changed", c) : c \in {"success", "failure"}}
    [] f = "tempyr" -> {Line(t, w) : t \in {"tempyr.write-pending", "tempyr.write-confirmed",
                                            "tempyr.write-permanently-failed"}, w \in GraphWrites}
                       \union {Line("tempyr.node-changed", "dead_end")}
    [] f = "branch" -> {Line("branch.staleness-updated", "behind")}
    [] OTHER -> {Line("worktree.created", "none")}

Count(ls) == Len(ls["branch"]) + Len(ls["picker"]) + Len(ls["pr"]) + Len(ls["worktree"]) + Len(ls["tempyr"])
Adds(f, line) ==
  /\ lines' = [lines EXCEPT ![f] = Append(@, line)]
  /\ IF reading.todo = <<>> THEN reading' = NotReading ELSE UNCHANGED reading
  /\ snapshot' = NoWorld

Journal(f, line) ==
  /\ rooted /\ Count(lines) < MaxLines
  /\ line \in LinesOf(f) /\ MayFollow(f, line)
  /\ Adds(f, line)
  /\ UNCHANGED <<again, rooted, github>>

\* An event whose acknowledgement was lost is delivered again, and its line is
\* written behind those that have come since.
JournalAgain(f, line) ==
  /\ again < MaxAgain /\ again' = again + 1
  /\ Has(f, line)
  /\ Adds(f, line)
  /\ UNCHANGED <<rooted, github>>

\* apply_picker_terminal: whoever has ended, the session has.
EndPicker(facts, line) ==
  [facts EXCEPT !.session = IF @ = NoPicker THEN line.id ELSE @, !.status = line.type]

Less(n) == IF n = 0 THEN 0 ELSE n - 1

\* Faulty variant: a write that failed for good stays pending.
SettleConfirmed(facts, type) == [facts EXCEPT !.failed = @ + (IF type = "tempyr.write-confirmed" THEN 0 ELSE 1),
                                              !.pending = IF type = "tempyr.write-confirmed" THEN Less(@) ELSE @]
\* apply_tempyr_entry: pending is not taken below zero.
Settle(facts, type) ==
  [facts EXCEPT !.pending = Less(@),
                !.failed = IF type = "tempyr.write-permanently-failed" THEN @ + 1 ELSE @]

\* apply_journal_entry and apply_tempyr_entry
ApplyLine(facts, line) ==
  CASE line.type = "picker.spawned" ->
         [facts EXCEPT !.session = line.id, !.status = "running", !.tree = TRUE]
    [] line.type \in {"picker.exited", "picker.killed"} -> EndPicker(facts, line)
    [] line.type = "worktree.created" -> [facts EXCEPT !.tree = TRUE]
    [] line.type = "branch.staleness-updated" -> [facts EXCEPT !.stale = line.id]
    [] line.type = "pr.opened" -> [facts EXCEPT !.pr = "open"]
    [] line.type = "pr.status-changed" -> [facts EXCEPT !.pr = line.id]
    [] line.type = "pr.merged" -> [facts EXCEPT !.pr = "merged"]
    [] line.type = "pr.ci.status-changed" -> [facts EXCEPT !.ci = line.id]
    [] line.type = "pr.review-received" -> [facts EXCEPT !.reviews = @ + 1]
    [] line.type = "tempyr.write-pending" -> [facts EXCEPT !.pending = @ + 1, !.told = @ + 1]
    [] line.type \in {"tempyr.write-confirmed", "tempyr.write-permanently-failed"} ->
         [Settle(facts, line.type) EXCEPT !.told = @ + 1]
    [] OTHER -> [facts EXCEPT !.deadEnds = @ + 1, !.told = @ + 1]

\* What the lines of a file make of the facts, line by line.
ApplyFile(facts, file) ==
  LET after[i \in 0..Len(file)] ==
        IF i = 0 THEN facts ELSE ApplyLine(after[i - 1], file[i])
  IN after[Len(file)]

\* A request that the cache does not answer.
BeginSnapshot ==
  /\ reading.todo = <<>>
  /\ reading' = [todo |-> FileOrder, facts |-> NoFacts, at |-> lines]
  /\ snapshot' = NoWorld
  /\ UNCHANGED <<lines, again, rooted, github>>

\* read_journal_file, read_tempyr_journal_file
ReadFile ==
  /\ Len(reading.todo) > 0
  /\ reading.todo # <<"tempyr">>
  /\ reading' = [reading EXCEPT !.todo = Tail(@),
                                !.facts = ApplyFile(@, lines[Head(reading.todo)])]
  /\ UNCHANGED <<lines, again, rooted, github, snapshot>>

\* github_pr_for_task, and the PR of the snapshot
ShownPr(facts) ==
  IF facts.pr # "none" THEN facts.pr ELSE IF github = "fails" THEN "none" ELSE github

\* freshness_map, freshness_with_tempyr
Tag(available, fresh) == IF ~available THEN "unavailable" ELSE IF fresh THEN "fresh" ELSE "deferred"
Tags(facts) ==
  LET pr == ShownPr(facts)
  IN [session |-> Tag(rooted, facts.status # "none"),
      worktree |-> Tag(rooted, facts.tree),
      github |-> Tag(pr # "none" \/ facts.pr # "none" \/ github # "fails", pr # "none"),
      ci |-> Tag(rooted, facts.ci # "none"),
      reviews |-> Tag(rooted, facts.reviews > 0),
      tempyr |-> Tag(rooted /\ facts.failed = 0, facts.pending = 0 /\ facts.told > 0)]

\* Faulty variant: what the tools behind a task lack is no blocker either.
BlockersOfTask(tags) == {s \in DOMAIN tags : tags[s] = "unavailable" /\ s \notin {"github", "tempyr"}}
\* blockers_for: every one of them is a warning.
BlockersFor(tags) == {s \in DOMAIN tags : tags[s] = "unavailable" /\ s # "github"}
\* readiness_for: no blocker has the kind that makes a task not ready.
Readiness(blockers) == IF blockers = {} THEN "Ready" ELSE "ReadyWithWarnings"

\* branch_staleness: the worktree is asked only where the trunk fetcher has
\* journaled nothing, whose count says nothing of conflicts.
Mergeability(facts) ==
  IF facts.stale # "none" THEN "unknown" ELSE IF facts.tree THEN "asked" ELSE "none"

AnswerSnapshot ==
  /\ reading.todo = <<"tempyr">>
  /\ LET facts == ApplyFile(reading.facts, lines["tempyr"])
         tags == Tags(facts)
     IN snapshot' = [facts |-> [facts EXCEPT !.pr = ShownPr(facts)], tags |-> tags,
                     verdict |-> Readiness(BlockersFor(tags)), merge |-> Mergeability(facts)]
  /\ reading' = [reading EXCEPT !.todo = <<>>, !.facts = NoFacts]
  /\ UNCHANGED <<lines, again, rooted, github>>

WorldNext ==
  \/ \E f \in JournalFiles : \E line \in LinesOf(f) : Journal(f, line) \/ JournalAgain(f, line)
  \/ BeginSnapshot \/ ReadFile \/ AnswerSnapshot

WorldSpec == WorldInit /\ [][WorldNext]_worldVars

\* The state of jam-svc-observe and of its files keeps its type.
WorldTypeOK ==
  /\ DOMAIN lines = JournalFiles /\ \A f \in JournalFiles : Range(lines[f]) \subseteq LinesOf(f)
  /\ Count(lines) <= MaxLines + MaxAgain /\ again \in 0..MaxAgain
  /\ rooted \in BOOLEAN /\ github \in {"none", "open", "fails"}
  /\ IsSuffix(reading.todo, FileOrder)
  /\ \A f \in JournalFiles : IsPrefix(reading.at[f], lines[f])
  /\ reading.facts.session \in Pickers \union {NoPicker}
  /\ snapshot.verdict \in {"none", "Ready", "ReadyWithWarnings"}

\* What a file says of the task, told without its fold.
OfType(log, types) == {i \in DOMAIN log : log[i].type \in types}
LastId(log, types) == LET found == OfType(log, types) IN IF found = {} THEN "none" ELSE log[Max(found)].id
Ends(log) == OfType(log, {"picker.exited", "picker.killed"})
Overlap(log) ==
  \E j \in Ends(log) : log[Max({i \in OfType(log, {"picker.spawned"}) : i < j})].id # log[j].id
StatusTold(log, session) ==
  LET ends == {log[i].type : i \in {j \in Ends(log) : log[j].id = session}}
  IN IF ends = {} THEN "running" ELSE CHOOSE type \in ends : TRUE
Unsettled(log) == {w \in GraphWrites : \A i \in DOMAIN log : log[i].id = w => log[i].type = "tempyr.write-pending"}
Pending(log) == {w \in Unsettled(log) : \E i \in DOMAIN log : log[i].id = w}
Failed(log) == OfType(log, {"tempyr.write-permanently-failed"})

FileTold(f, log, facts) ==
  CASE f = "picker" ->
         IF log = <<>> THEN facts.session = NoPicker /\ facts.status = "none"
         ELSE /\ facts.session = LastId(log, {"picker.spawned"})
              /\ Overlap(log) \/ facts.status = StatusTold(log, facts.session)
    [] f = "pr" ->
         /\ facts.ci = LastId(log, {"pr.ci.status-changed"})
         /\ facts.reviews = Cardinality(OfType(log, {"pr.review-received"}))
         /\ facts.pr = (IF log = <<>> THEN ShownPr(NoFacts)
                        ELSE IF OfType(log, {"pr.merged"}) # {} THEN "merged"
                        ELSE IF OfType(log, {"pr.status-changed"}) = {} THEN "open"
                        ELSE LastId(log, {"pr.status-changed"}))
    [] f = "tempyr" ->
         /\ facts.pending = Cardinality(Pending(log)) /\ facts.failed = Cardinality(Failed(log))
         /\ facts.deadEnds = Cardinality(OfType(log, {"tempyr.node-changed"}))
    [] f = "branch" -> facts.stale = LastId(log, {"branch.staleness-updated"})
    [] OTHER -> log # <<>> => facts.tree

\* A snapshot says of every file what its lines said at some time between the
\* request and the answer, although the files grow meanwhile; where the lines
\* of two Pickers overlap, nothing is said of how the latest has ended.  (A
\* line that is written twice is counted twice: this holds without one.)
WorldIsTold ==
  snapshot # NoWorld /\ again = 0 =>
    \A f \in JournalFiles : \E n \in Len(reading.at[f])..Len(lines[f]) :
      FileTold(f, SubSeq(lines[f], 1, n), snapshot.facts)

\* compute-readiness says Ready of a task only if the journal was there and no
\* write to the graph had failed when it was asked; nothing but GitHub may be
\* unreachable, whatever was written twice.
ReadyIsSound ==
  snapshot.verdict = "Ready" => rooted /\ Failed(reading.at["tempyr"]) = {}
=============================================================================
