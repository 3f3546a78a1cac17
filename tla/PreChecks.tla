------------------------------ MODULE PreChecks ------------------------------
(***************************************************************************)
(* What jam-task-lifecycle does with a Picker that has ended well          *)
(* (post_picker.rs, handle_picker_exited): commands in the worktree, run   *)
(* by sudo one after another, decide whether a PR is asked for or the      *)
(* Picker is to go on.  Nothing locks the worktree meanwhile, and the      *)
(* output of a command that fails is taken as it is, that is as empty.     *)
(***************************************************************************)
EXTENDS Naturals, Sequences, FiniteSets, SequencesExt

CONSTANTS
  TrunkNames,  \* names of the trunk, in the order they are tried, none twice
  NoRef,       \* at: a candidate that the repository lacks
  MaxTrunk,    \* bound: commits of the trunk
  MaxWork,     \* bound: changes to the worktree during the checks
  MaxFailures  \* bound: commands that fail

ASSUME TrunkNamesAssumption ==
  TrunkNames \in Seq(Range(TrunkNames)) \ {<<>>} /\ IsInjective(TrunkNames)
ASSUME PreCheckBoundsAssumption == {MaxTrunk, MaxWork, MaxFailures} \subseteq Nat

VARIABLES
  worktree, \* the worktree: what the Picker left in it
  refs,     \* the trunk commit at which each candidate is, or NoRef
  exitCode, \* what the Picker ended with
  check,    \* the step of the checks, what they found, and the reason to go on
  request,  \* the open-pr request, or NoRequest
  works,    \* changes to the worktree so far
  failures  \* commands that failed so far

preCheckVars == <<worktree, refs, exitCode, check, request, works, failures>>

Trunks == Range(TrunkNames)

\* With main as the base branch: the names tried, but for the last, master.
FirstTrunkNames == <<"origin/main", "origin/master", "main">>
Texts == {"none", "bad", "good"}
NoRequest == [repo |-> "none", base |-> "none"]

\* from: where the branch left the trunk; own: commits of its own; a text of
\* .jam that is missing or blank is none; the default branch may be unknown.
Worktree ==
  [there: BOOLEAN, from: 0..MaxTrunk, own: 0..1, dirty: BOOLEAN,
   title: Texts, body: {"none", "good"},
   origin: {"none", "own"}, default: {"none", "own"}]

PreCheckInit ==
  /\ worktree \in Worktree
  /\ refs \in [Trunks -> 0..MaxTrunk \union {NoRef}]
  /\ exitCode \in {0, 1}
  /\ check = [step |-> "exited", found |-> {}, title |-> "none", reason |-> "none"]
  /\ request = NoRequest
  /\ works = 0 /\ failures = 0

\* The commits that a name of the trunk, and that the branch reaches.
Reach(r) == {<<"trunk", n>> : n \in 1..refs[r]}
HeadReach == {<<"trunk", n>> : n \in 1..worktree.from} \union {<<"own", n>> : n \in 1..worktree.own}

At(step) == check.step = step
GoTo(step) == check' = [check EXCEPT !.step = step]
\* NeedsContinuation: publish_continuation with the reason.
Continue(reason) == check' = [check EXCEPT !.step = "continued", !.reason = reason]
Keeps == UNCHANGED <<worktree, refs, exitCode, request, works>>

\* sudo_picker_check: a command says its answer, or nothing if it fails.
Says(said, answer, nothing) ==
  \/ said = (IF worktree.there THEN answer ELSE nothing) /\ UNCHANGED failures
  \/ failures < MaxFailures /\ failures' = failures + 1 /\ said = nothing

\* handle_picker_exited: a Picker that failed is to go on at once.
Exited ==
  /\ At("exited")
  /\ IF exitCode = 0 THEN GoTo("exists") ELSE Continue("picker-failed")
  /\ Keeps /\ UNCHANGED failures

CheckExists ==
  /\ At("exists")
  /\ \E yes \in BOOLEAN :
       Says(yes, TRUE, FALSE) /\ IF yes THEN GoTo("refs") ELSE Continue("worktree-missing")
  /\ Keeps

\* Each candidate is tried by a command of its own; the places in the list of
\* those that are there.
Resolved(lost) ==
  {i \in DOMAIN TrunkNames :
     worktree.there /\ refs[TrunkNames[i]] # NoRef /\ TrunkNames[i] \notin lost}

ResolveTrunk ==
  /\ At("refs")
  /\ \E lost \in {{}} \union {{r} : r \in Trunks} :
       /\ IF lost = {} THEN UNCHANGED failures
          ELSE failures < MaxFailures /\ failures' = failures + 1
       /\ IF Resolved(lost) = {} THEN Continue("no-trunk-ref")
          ELSE check' = [check EXCEPT !.step = "count", !.found = Resolved(lost)]
  /\ Keeps

\* Faulty variant: every commit of the branch counts.
AheadOfNothing(found) == HeadReach

\* The commits of the first found name, the third and so on, or of the others.
Every(parity, found) ==
  UNION {Reach(TrunkNames[i]) :
           i \in {j \in found : Cardinality({k \in found : k <= j}) % 2 = parity}}

\* rev-list --count HEAD --not a --not b ...: each --not turns the sense of the
\* names after it, so the second name, the fourth and so on are counted in.
Ahead(found) ==
  (HeadReach \union Every(0, found)) \ Every(1, found)

CountCommits ==
  /\ At("count")
  /\ \E some \in BOOLEAN :
       /\ Says(some, Ahead(check.found) # {}, FALSE)
       /\ IF some THEN GoTo("status") ELSE Continue("no-commits")
  /\ Keeps

\* Faulty variant: the status is asked for but not looked at.
CheckStatusLoosely == At("status") /\ GoTo("title") /\ Keeps /\ UNCHANGED failures

\* git status, without .jam: no output is a clean tree.
CheckStatus ==
  /\ At("status")
  /\ \E dirty \in BOOLEAN :
       Says(dirty, worktree.dirty, FALSE) /\ IF dirty THEN Continue("dirty-tree") ELSE GoTo("title")
  /\ Keeps

ReadTitle ==
  /\ At("title")
  /\ \E title \in Texts :
       Says(title, worktree.title, "none") /\ check' = [check EXCEPT !.step = "body", !.title = title]
  /\ Keeps

\* Faulty variant: the shape is looked at only where the body is missing.
TitleOkLate(title) == TRUE

\* validate_pr_title
TitleOk(title) == title # "bad"

ReadBody ==
  /\ At("body")
  /\ \E body \in Texts :
       /\ Says(body, worktree.body, "none")
       /\ IF "none" \in {check.title, body} THEN Continue("missing-pr-metadata")
          ELSE IF ~TitleOk(check.title) THEN Continue("invalid-pr-title")
          ELSE GoTo("ready")
  /\ Keeps

\* request_open_pr: the repository of the remote, else the one that
\* jam-svc-repo is configured with; its default branch, else the configured.
DeriveOrigin ==
  /\ At("ready")
  /\ \E repo \in {"none", "own"} :
       /\ Says(repo, worktree.origin, "none")
       /\ request' = [request EXCEPT !.repo = IF repo = "none" THEN "configured" ELSE repo]
  /\ GoTo("base")
  /\ UNCHANGED <<worktree, refs, exitCode, works>>

DeriveBase ==
  /\ At("base")
  /\ \E base \in {"none", "own"} :
       /\ Says(base, worktree.default, "none")
       /\ request' = [request EXCEPT !.base = IF base = "none" THEN "configured" ELSE base]
  /\ GoTo("asked")
  /\ UNCHANGED <<worktree, refs, exitCode, works>>

\* The answer: a PR; a remote that no Picker can mend, which is left at that;
\* any other error, or none in time, sends the Picker on.
Opened == At("asked") /\ GoTo("opened") /\ Keeps /\ UNCHANGED failures
Unrecoverable ==
  At("asked") /\ failures < MaxFailures /\ failures' = failures + 1 /\ GoTo("left") /\ Keeps
OpenPrFails ==
  /\ At("asked") /\ failures < MaxFailures /\ failures' = failures + 1
  /\ Continue("open-pr-failed") /\ Keeps

\* A Picker that the operator resumed, a purge and a fetch change the worktree
\* and its refs while the checks run.
Work ==
  /\ works < MaxWork /\ works' = works + 1
  /\ check.step \notin {"continued", "opened", "left"}
  /\ \/ worktree.there
        /\ worktree' \in {[worktree EXCEPT !.dirty = TRUE], [worktree EXCEPT !.own = 1, !.dirty = FALSE],
                          [worktree EXCEPT !.title = "bad"], [worktree EXCEPT !.there = FALSE]}
        /\ UNCHANGED refs
     \/ \E r \in Trunks : /\ refs[r] # NoRef /\ refs[r] < MaxTrunk
                          /\ refs' = [refs EXCEPT ![r] = @ + 1]
        /\ UNCHANGED worktree
  /\ UNCHANGED <<exitCode, check, request, failures>>

PreCheckNext ==
  \/ Exited \/ CheckExists \/ ResolveTrunk \/ CountCommits \/ CheckStatus
  \/ ReadTitle \/ ReadBody \/ DeriveOrigin \/ DeriveBase
  \/ Opened \/ Unrecoverable \/ OpenPrFails \/ Work

PreCheckSpec == PreCheckInit /\ [][PreCheckNext]_preCheckVars
-----------------------------------------------------------------------------

PreCheckTypeOK ==
  /\ worktree \in Worktree /\ refs \in [Trunks -> 0..MaxTrunk \union {NoRef}]
  /\ check.found \subseteq DOMAIN TrunkNames /\ check.title \in {"none", "bad", "good"}
  /\ request.repo \in {"none", "own", "configured"} /\ request.base \in {"none", "own", "configured"}
  /\ works <= MaxWork /\ failures <= MaxFailures

\* What is wrong with a worktree, by the reasons of a continuation.
Known == {r \in Trunks : refs[r] # NoRef}
HasWork == ~(HeadReach \subseteq UNION {Reach(r) : r \in Known})
Lacks ==
  {why \in {"picker-failed", "worktree-missing", "no-trunk-ref", "no-commits", "dirty-tree",
            "missing-pr-metadata", "invalid-pr-title"} :
     CASE why = "picker-failed" -> exitCode # 0
       [] why = "worktree-missing" -> ~worktree.there
       [] why = "no-trunk-ref" -> Known = {}
       [] why = "no-commits" -> ~HasWork
       [] why = "dirty-tree" -> worktree.dirty
       [] why = "missing-pr-metadata" -> "none" \in {worktree.title, worktree.body}
       [] OTHER -> worktree.title = "bad"}

Undisturbed == works = 0 /\ failures = 0
Cleared == check.step \in {"ready", "base", "asked", "opened", "left"}

\* Where nothing fails and nobody works in the worktree meanwhile, a Picker is
\* sent on for a reason that holds, and what passes has none, but for commits
\* that a second name of the trunk has before the first; the PR is asked for in
\* the repository of the remote (run_pre_checks, request_open_pr).
ChecksAreTrue ==
  Undisturbed =>
    /\ At("continued") => check.reason \in Lacks
    /\ Cleared => Lacks \subseteq {"no-commits"}
    /\ Cleared /\ Cardinality({refs[r] : r \in Known}) = 1 => HasWork
    /\ request.repo = "configured" => worktree.origin = "none"
    /\ request.base = "configured" => worktree.default = "none"

\* post_picker.rs:551, of the names of the trunk: "the rest are passed as
\* additional `--not` args so commits that already appear on any known trunk
\* are excluded from the count": what passes has commits of its own.
ReadyHasCommits == Cleared /\ Undisturbed => HasWork

=============================================================================
