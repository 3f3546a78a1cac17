---------------------------- MODULE PullRequests -----------------------------
(***************************************************************************)
(* Pull requests as the repository service makes them (crates/             *)
(* jam-svc-repo): open-pr pushes the branch, looks for an open PR of it,   *)
(* creates one if there is none, arms auto-merge and journals pr.opened.   *)
(* Every command runs git or gh with a timeout, and one that timed out is  *)
(* not stopped: it may still take effect.  One branch; GitHub merges an    *)
(* armed PR by itself.  request-human-merge and prepare-merge, which only  *)
(* read GitHub and advise, are left out.                                   *)
(***************************************************************************)
EXTENDS Naturals, FiniteSets

CONSTANTS
  OpenCalls,     \* calls of open-pr
  MaxCommits,    \* bound: commits of the Picker
  MaxPulls,      \* bound: PRs of the branch
  CommandFaults  \* what may fail: "refused", "timeout", "publish"

ASSUME PullBoundsAssumption == MaxCommits \in Nat /\ MaxPulls \in Nat \ {0}
ASSUME CommandFaultsAssumption == CommandFaults \subseteq {"refused", "timeout", "publish"}

VARIABLES
  commits,    \* commits on the branch in the Picker's worktree
  pushed,     \* of these, commits on GitHub
  pull,       \* the branch's PRs, by number
  checks,     \* checks of the pushed head
  approved,   \* the review decision of the open PR
  call,       \* the calls of open-pr
  loose,      \* commands that run on after their timeout
  journaled   \* PRs for which pr.opened is journaled

repoVars == <<commits, pushed, pull, checks, approved, call, loose, journaled>>
github == <<pushed, pull, checks, approved>>

Numbers == 1..MaxPulls
Drafts == BOOLEAN
RepoPcs == {"new", "called", "pushed", "lacking", "having", "telling",
            "answered", "failed"}
NoPull == [state |-> "none", draft |-> FALSE, head |-> 0, armed |-> FALSE]
Commands == [kind: {"push", "create", "arm"}, draft: Drafts, n: 0..MaxPulls]

OpenNow == {n \in Numbers : pull[n].state = "open"}
Latest == Cardinality({n \in Numbers : pull[n].state # "none"})

PullsInit ==
  /\ commits = 0 /\ pushed = 0
  /\ pull = [n \in Numbers |-> NoPull]
  /\ checks = "pending" /\ approved = FALSE
  /\ call = [c \in OpenCalls |-> [pc |-> "new", draft |-> FALSE, commit |-> 0, n |-> 0]]
  /\ loose = {} /\ journaled = {}

CallAt(c, pc) == call[c].pc = pc
CallGoes(c, pc) == call' = [call EXCEPT ![c].pc = pc]
------------------------------------------------------------------------------
(* GitHub: what the commands do, and what happens by itself. *)

PushCommand == [kind |-> "push", draft |-> FALSE, n |-> 0]
Create(draft) == [kind |-> "create", draft |-> draft, n |-> 0]
Arm(n) == [kind |-> "arm", draft |-> FALSE, n |-> n]

Possible(cmd) ==
  CASE cmd.kind = "push" -> TRUE
    [] cmd.kind = "create" -> OpenNow = {} /\ Latest < MaxPulls
    [] cmd.kind = "arm" -> pull[cmd.n].state = "open" /\ ~pull[cmd.n].draft

Effect(cmd) ==
  CASE cmd.kind = "push" ->
         /\ pushed' = commits
         /\ pull' = [n \in Numbers |-> IF n \in OpenNow THEN [pull[n] EXCEPT !.head = commits]
                                       ELSE pull[n]]
         /\ checks' = IF commits = pushed THEN checks ELSE "pending"
         /\ UNCHANGED approved
    [] cmd.kind = "create" ->
         /\ pull' = [pull EXCEPT ![Latest + 1] = [state |-> "open", draft |-> cmd.draft,
                                                  head |-> pushed, armed |-> FALSE]]
         /\ approved' = FALSE
         /\ UNCHANGED <<pushed, checks>>
    [] cmd.kind = "arm" ->
         pull' = [pull EXCEPT ![cmd.n].armed = TRUE] /\ UNCHANGED <<pushed, checks, approved>>

\* mergeStateStatus CLEAN under the branch protection of the repository.
Clean(n) == checks = "passed" /\ approved /\ ~pull[n].draft
Mergeable(n) == pull[n].state = "open" /\ Clean(n)

ChecksEnd(result) ==
  /\ pushed > 0 /\ checks = "pending" /\ checks' = result
  /\ UNCHANGED <<commits, pushed, pull, approved, call, loose, journaled>>

\* A review comes in, or a stale one is dismissed.
ReviewTurns ==
  /\ OpenNow # {} /\ approved' = ~approved
  /\ UNCHANGED <<commits, pushed, pull, checks, call, loose, journaled>>

AutoMerge(n) ==
  /\ Mergeable(n) /\ pull[n].armed
  /\ pull' = [pull EXCEPT ![n].state = "merged"]
  /\ UNCHANGED <<commits, pushed, checks, approved, call, loose, journaled>>

ClosePull(n) ==
  /\ n \in OpenNow
  /\ pull' = [pull EXCEPT ![n].state = "closed"]
  /\ UNCHANGED <<commits, pushed, checks, approved, call, loose, journaled>>

LateEffect(cmd) ==
  /\ loose' = loose \ {cmd}
  /\ IF Possible(cmd) THEN Effect(cmd) ELSE UNCHANGED github
  /\ UNCHANGED <<commits, call, journaled>>

CommitMore ==
  /\ commits < MaxCommits /\ commits' = commits + 1
  /\ UNCHANGED <<pushed, pull, checks, approved, call, loose, journaled>>
------------------------------------------------------------------------------
(* open-pr *)

Start(c, draft) ==
  /\ CallAt(c, "new") /\ commits > 0
  /\ call' = [call EXCEPT ![c].pc = "called", ![c].draft = draft]
  /\ UNCHANGED <<commits, github, loose, journaled>>

\* run_command: success, an error exit without effect, or a timeout that
\* leaves the command running.
Succeeds(cmd) == Possible(cmd) /\ Effect(cmd) /\ UNCHANGED loose
Errs(cmd) ==
  /\ ~Possible(cmd) \/ "refused" \in CommandFaults
  /\ UNCHANGED <<github, loose>>
TimesOut(cmd) ==
  /\ "timeout" \in CommandFaults
  /\ loose' = loose \union {cmd}
  /\ UNCHANGED github
Fails(cmd) == Errs(cmd) \/ TimesOut(cmd)

GitPush(c) ==
  /\ CallAt(c, "called")
  /\ \/ /\ Succeeds(PushCommand)
        /\ call' = [call EXCEPT ![c].pc = "pushed", ![c].commit = commits]
     \/ Fails(PushCommand) /\ CallGoes(c, "failed")
  /\ UNCHANGED <<commits, journaled>>

\* Faulty variant: the lookup does not ask for open PRs only.
LookupAny(c) ==
  /\ CallAt(c, "pushed")
  /\ IF Latest # 0
     THEN call' = [call EXCEPT ![c].pc = "having", ![c].n = Latest]
     ELSE CallGoes(c, "lacking")
  /\ UNCHANGED <<commits, github, loose, journaled>>

\* Faulty variant: a PR found is answered without the event (the defect the
\* comment in open_pr remembers).
LookupAnswers(c) ==
  /\ CallAt(c, "pushed")
  /\ \/ \E n \in OpenNow : call' = [call EXCEPT ![c].pc = "answered", ![c].n = n]
     \/ OpenNow = {} /\ CallGoes(c, "lacking")
  /\ UNCHANGED <<commits, github, loose, journaled>>

\* gh_pr_lookup_by_branch.
LookupByBranch(c) ==
  /\ CallAt(c, "pushed")
  /\ \/ \E n \in OpenNow : call' = [call EXCEPT ![c].pc = "having", ![c].n = n]
     \/ OpenNow = {} /\ CallGoes(c, "lacking")
     \/ CommandFaults # {} /\ CallGoes(c, "failed")
  /\ UNCHANGED <<commits, github, loose, journaled>>

\* Faulty variant: the number is looked up before the PR is there.
CreatePrUnread(c) ==
  /\ CallAt(c, "lacking")
  /\ Succeeds(Create(call[c].draft))
  /\ call' = [call EXCEPT ![c].pc = "having", ![c].n = Latest]
  /\ UNCHANGED <<commits, journaled>>

CreatePr(c) ==
  LET cmd == Create(call[c].draft)
  IN /\ CallAt(c, "lacking")
     /\ \/ /\ Succeeds(cmd)
           /\ call' = [call EXCEPT ![c].pc = "having", ![c].n = Latest + 1]
        \/ Fails(cmd) /\ CallGoes(c, "failed")
     /\ UNCHANGED <<commits, journaled>>

\* gh_pr_enable_auto_merge, not asked for a draft; a failure is a warning.
ArmPr(c) ==
  LET n == call[c].n
  IN /\ CallAt(c, "having")
     /\ IF pull[n].draft THEN UNCHANGED <<github, loose>>
        ELSE Succeeds(Arm(n)) \/ Fails(Arm(n))
     /\ CallGoes(c, "telling")
     /\ UNCHANGED <<commits, journaled>>

\* publish_pr_opened, then the answer, for a PR found as for a new one.
TellOpened(c, ok) ==
  /\ CallAt(c, "telling")
  /\ CallGoes(c, IF ok THEN "answered" ELSE "failed")
  /\ journaled' = IF ok THEN journaled \union {call[c].n} ELSE journaled
  /\ UNCHANGED <<commits, github, loose>>
PullsNext ==
  \/ CommitMore \/ ReviewTurns
  \/ \E result \in {"passed", "failed"} : ChecksEnd(result)
  \/ \E n \in Numbers : AutoMerge(n) \/ ClosePull(n)
  \/ \E cmd \in loose : LateEffect(cmd)
  \/ \E c \in OpenCalls :
       \/ \E draft \in Drafts : Start(c, draft)
       \/ GitPush(c) \/ LookupByBranch(c) \/ CreatePr(c) \/ ArmPr(c)
       \/ \E ok \in BOOLEAN : (ok \/ "publish" \in CommandFaults) /\ TellOpened(c, ok)

PullsSpec == PullsInit /\ [][PullsNext]_repoVars
------------------------------------------------------------------------------

PullsTypeOK ==
  /\ commits \in 0..MaxCommits /\ pushed \in 0..commits
  /\ pull \in [Numbers -> [state: {"none", "open", "merged", "closed"}, draft: Drafts,
                           head: 0..MaxCommits, armed: BOOLEAN]]
  /\ checks \in {"pending", "passed", "failed"} /\ approved \in BOOLEAN
  /\ call \in [OpenCalls -> [pc: RepoPcs, draft: Drafts, commit: 0..MaxCommits,
                             n: 0..MaxPulls]]
  /\ \A c \in OpenCalls :
       call[c].pc \in {"having", "telling", "answered"} => call[c].n # 0
  /\ loose \subseteq Commands /\ journaled \subseteq Numbers

\* open-pr answers with a PR that holds the commits it pushed, whatever was
\* merged, closed or created by other calls between its commands (open_pr).
PushedIsProposed ==
  \A c \in OpenCalls : CallAt(c, "answered") => pull[call[c].n].head >= call[c].commit

\* The PR of an answered call is journaled, also when the call that made it
\* had failed before its own pr.opened (the idempotent path of open_pr).
AnsweredIsTold ==
  \A c \in OpenCalls : CallAt(c, "answered") => call[c].n \in journaled

\* An answer of open-pr holds on GitHub and in the journal: what was pushed is
\* proposed and what was answered is told (main.rs:666-833).
PullSafety == PushedIsProposed /\ AnsweredIsTold
==============================================================================
