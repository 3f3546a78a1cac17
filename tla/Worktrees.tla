------------------------------ MODULE Worktrees ------------------------------
(***************************************************************************)
(* The worktree service (crates/jam-svc-worktree): every request to create *)
(* a worktree is a task of its own.  It fetches the repository unless the  *)
(* fetch cursor is younger than the staleness window (one fetch at a time),*)
(* resolves the trunk, and adds the worktree and prepares it for Pickers   *)
(* (one creation at a time).  The session service removes worktrees, git's *)
(* branch and registration stay.                                           *)
(*                                                                         *)
(* Time is counted in ticks; ages stop at the staleness window.            *)
(***************************************************************************)
EXTENDS Naturals, FiniteSets

CONSTANTS
  Creates,     \* requests
  Repos,       \* repositories, each with a trunk
  OriginRepos, \* those whose origin can be fetched
  ProjectOf,   \* the repository of each task
  Window,      \* FETCH_STALENESS in ticks
  MaxRestarts, \* bound: deaths of the service
  TreeFaults   \* what may fail: "fetch", "resolve", "prepare", "publish"

Projects == DOMAIN ProjectOf   \* the tasks
NoCreate == "none"

ASSUME WindowAssumption == Window \in Nat \ {0}
ASSUME ProjectAssumption == ProjectOf \in [Projects -> Repos] /\ OriginRepos \subseteq Repos
ASSUME CreatesAssumption == NoCreate \notin Creates /\ Projects # {}
ASSUME RestartsAssumption == MaxRestarts \in Nat
ASSUME TreeFaultsAssumption == TreeFaults \subseteq {"fetch", "resolve", "prepare", "publish"}

VARIABLES
  request,     \* requests: their task, where they are, what they saw
  fetchLock,   \* fetch_mutex: the request that holds it
  createLock,  \* create_mutex
  cursorAge,   \* fetch_cursor: ticks since the fetch observed last
  refAge,      \* ticks since origin's trunk was fetched into the repository
  tree,        \* directories of tasks: "absent", "corrupt" (without its .git),
               \* "raw" (added), "ready"
  branch,      \* tasks whose branch git knows
  spoilt,      \* tasks whose worktree was once left added and not prepared
  restarts

treeVars == <<request, fetchLock, createLock, cursorAge, refAge, tree, branch,
              spoilt, restarts>>
disk == <<tree, branch, spoilt>>
locks == <<fetchLock, createLock>>
time == <<cursorAge, refAge>>

TreePcs == {"new", "asked", "fetching", "fetched", "resolved", "adding",
            "preparing", "publishing", "answered", "failed"}

TreeInit ==
  /\ request = [q \in Creates |->
                  [pc |-> "new", task |-> CHOOSE t \in Projects : TRUE,
                   fresh |-> FALSE, branched |-> FALSE]]
  /\ fetchLock = NoCreate /\ createLock = NoCreate
  /\ cursorAge = Window
  /\ refAge = [r \in Repos |-> Window]
  /\ tree = [t \in Projects |-> "absent"]
  /\ branch = {} /\ spoilt = {}
  /\ restarts = 0

At(q, pc) == request[q].pc = pc
Goes(q, pc) == request' = [request EXCEPT ![q].pc = pc]
RepoOf(q) == ProjectOf[request[q].task]

Ask(q, t) ==
  /\ At(q, "new")
  /\ request' = [request EXCEPT ![q].pc = "asked", ![q].task = t]
  /\ UNCHANGED <<locks, time, disk, restarts>>

\* What the request relies on when it leaves maybe_fetch.
Leaves(q, ages) ==
  request' = [request EXCEPT ![q].pc = "fetched",
                             ![q].fresh = ages[RepoOf(q)] < Window]

\* Faulty variant: the cursor is read before the mutex is taken.
CursorCheckUnlocked(q) ==
  /\ At(q, "asked")
  /\ IF cursorAge < Window
     THEN Leaves(q, refAge)
     ELSE Goes(q, "fetching")
  /\ UNCHANGED <<locks, time, disk, restarts>>

\* maybe_fetch up to the fetch: with the mutex, a young cursor, which is the
\* same for all repositories, lets the request pass.
CursorCheck(q) ==
  /\ At(q, "asked") /\ fetchLock = NoCreate
  /\ IF cursorAge < Window
     THEN Leaves(q, refAge) /\ UNCHANGED fetchLock
     ELSE Goes(q, "fetching") /\ fetchLock' = q
  /\ UNCHANGED <<createLock, time, disk, restarts>>

\* The end of the fetch: its failure is logged and the cursor moved all the
\* same.
FetchEnds(q, ok) ==
  /\ At(q, "fetching")
  /\ fetchLock' = NoCreate
  /\ cursorAge' = 0
  /\ refAge' = IF ok THEN [refAge EXCEPT ![RepoOf(q)] = 0] ELSE refAge
  /\ Leaves(q, refAge')
  /\ UNCHANGED <<createLock, disk, restarts>>

FetchMay(q, ok) ==
  IF ok THEN RepoOf(q) \in OriginRepos
  ELSE "fetch" \in TreeFaults \/ RepoOf(q) \notin OriginRepos

\* rev_parse: origin's trunk, or the local one where git finds no other; the
\* request fails when it finds neither.
ResolveTrunk(q, from) ==
  /\ At(q, "fetched")
  /\ request' = [request EXCEPT
       ![q].pc = IF from = "none" THEN "failed" ELSE "resolved",
       ![q].fresh = @ /\ from = "origin"]
  /\ UNCHANGED <<locks, time, disk, restarts>>

ResolveMay(q, from) ==
  \/ from = IF RepoOf(q) \in OriginRepos THEN "origin" ELSE "local"
  \/ "resolve" \in TreeFaults /\ from \in {"local", "none"}

\* What is answered of a directory that exists: it is a worktree, or the
\* request fails.
FoundTree(q) == Goes(q, IF tree[request[q].task] = "corrupt" THEN "failed" ELSE "publishing")

\* Faulty variant: the directory is looked at before the mutex is taken.
FindTreeUnlocked(q) ==
  /\ At(q, "resolved")
  /\ IF tree[request[q].task] # "absent"
     THEN FoundTree(q) /\ UNCHANGED createLock
     ELSE createLock = NoCreate /\ Goes(q, "adding") /\ createLock' = q
  /\ UNCHANGED <<fetchLock, time, disk, restarts>>

\* Under the mutex, a worktree that exists is answered as it is.
FindTree(q) ==
  /\ At(q, "resolved") /\ createLock = NoCreate
  /\ IF tree[request[q].task] # "absent"
     THEN FoundTree(q) /\ UNCHANGED createLock
     ELSE Goes(q, "adding") /\ createLock' = q
  /\ UNCHANGED <<fetchLock, time, disk, restarts>>

\* Faulty variant: the mutex is given back once the directory is there.
AddTreeUnlocked(q) ==
  LET t == request[q].task
  IN /\ At(q, "adding") /\ t \notin branch
     /\ request' = [request EXCEPT ![q].pc = "preparing", ![q].branched = TRUE]
     /\ tree' = [tree EXCEPT ![t] = "raw"]
     /\ branch' = branch \union {t}
     /\ createLock' = NoCreate
     /\ UNCHANGED <<fetchLock, time, spoilt, restarts>>

\* git worktree add -b: refused while the branch exists.
AddTree(q) ==
  LET t == request[q].task
  IN /\ At(q, "adding")
     /\ IF t \in branch
        THEN /\ Goes(q, "failed")
             /\ createLock' = NoCreate
             /\ UNCHANGED <<tree, branch>>
        ELSE /\ request' = [request EXCEPT ![q].pc = "preparing", ![q].branched = TRUE]
             /\ tree' = [tree EXCEPT ![t] = "raw"]
             /\ branch' = branch \union {t}
             /\ UNCHANGED createLock
     /\ UNCHANGED <<fetchLock, time, spoilt, restarts>>

\* make_group_writable_tree, seed_jam_metadata_dir, mark_picker_safe_directory:
\* the first that fails ends the request, and nothing is taken back.
PrepareTree(q, ok) ==
  LET t == request[q].task
  IN /\ At(q, "preparing")
     /\ ok => tree[t] # "absent"
     /\ createLock' = NoCreate
     /\ Goes(q, IF ok THEN "publishing" ELSE "failed")
     /\ tree' = IF ok /\ tree[t] = "raw" THEN [tree EXCEPT ![t] = "ready"] ELSE tree
     /\ spoilt' = IF ok THEN spoilt ELSE spoilt \union {t}
     /\ UNCHANGED <<fetchLock, time, branch, restarts>>

PrepareMay(q, ok) ==
  ok \/ "prepare" \in TreeFaults \/ tree[request[q].task] = "absent"

\* publish_created, then the answer.
AnswerTree(q, ok) ==
  /\ At(q, "publishing")
  /\ Goes(q, IF ok THEN "answered" ELSE "failed")
  /\ UNCHANGED <<locks, time, disk, restarts>>

\* purge_session of the session service: remove_dir_all, which may be under
\* way or fail when the .git file is gone and others are not.
PurgeTree(t) ==
  /\ tree[t] # "absent"
  /\ \E left \in {"absent", "corrupt"} : tree' = [tree EXCEPT ![t] = left]
  /\ UNCHANGED <<request, locks, time, branch, spoilt, restarts>>

Older(age) == IF age < Window THEN age + 1 ELSE age

TreeTick ==
  /\ cursorAge' = Older(cursorAge)
  /\ refAge' = [r \in Repos |-> Older(refAge[r])]
  /\ UNCHANGED <<request, locks, disk, restarts>>

Busy(pc) == {request[q].task : q \in {p \in Creates : At(p, pc)}}

\* The service dies and is started again: mutexes and cursor are new, git was
\* cut short before the branch, before the directory or before its end.
TreeRestart ==
  /\ restarts < MaxRestarts
  /\ restarts' = restarts + 1
  /\ fetchLock' = NoCreate /\ createLock' = NoCreate
  /\ cursorAge' = Window
  /\ request' = [q \in Creates |->
       IF At(q, "new") \/ At(q, "answered") THEN request[q]
       ELSE [request[q] EXCEPT !.pc = "failed"]]
  /\ \E begun \in SUBSET (Busy("adding") \ branch), left \in {"absent", "corrupt", "raw"} :
       /\ branch' = branch \union begun
       /\ tree' = [t \in Projects |-> IF t \in begun THEN left ELSE tree[t]]
       /\ spoilt' = spoilt \union Busy("preparing") \union {t \in begun : left = "raw"}
  /\ UNCHANGED refAge

TreeNext ==
  \/ \E q \in Creates :
       \/ \E t \in Projects : Ask(q, t)
       \/ CursorCheck(q)
       \/ \E ok \in BOOLEAN : FetchMay(q, ok) /\ FetchEnds(q, ok)
       \/ \E from \in {"origin", "local", "none"} : ResolveMay(q, from) /\ ResolveTrunk(q, from)
       \/ FindTree(q) \/ AddTree(q)
       \/ \E ok \in BOOLEAN : PrepareMay(q, ok) /\ PrepareTree(q, ok)
       \/ \E ok \in BOOLEAN : (ok \/ "publish" \in TreeFaults) /\ AnswerTree(q, ok)
  \/ \E t \in Projects : PurgeTree(t)
  \/ TreeTick \/ TreeRestart

TreeSpec == TreeInit /\ [][TreeNext]_treeVars
-----------------------------------------------------------------------------

TreeTypeOK ==
  /\ request \in [Creates -> [pc: TreePcs, task: Projects, fresh: BOOLEAN, branched: BOOLEAN]]
  /\ {fetchLock, createLock} \subseteq Creates \union {NoCreate}
  /\ cursorAge \in 0..Window /\ refAge \in [Repos -> 0..Window]
  /\ tree \in [Projects -> {"absent", "corrupt", "raw", "ready"}]
  /\ branch \subseteq Projects /\ spoilt \subseteq Projects
  /\ \A t \in Projects : tree[t] # "absent" => t \in branch
  /\ \A q \in Creates : At(q, "fetching") <=> fetchLock = q
  /\ \A q \in Creates : At(q, "adding") \/ At(q, "preparing") <=> createLock = q
  /\ restarts \in 0..MaxRestarts

\* comp-worktree-create-protocol.md:34: "When spawning 8 Pickers in 5 seconds,
\* only the first triggers a fetch": no fetch ends within the window of the
\* last one, however many requests found the cursor old (maybe_fetch).
FetchOncePerWindow ==
  [][\A q \in Creates : At(q, "fetching") /\ request'[q].pc = "fetched" =>
       cursorAge = Window]_treeVars

\* A worktree is handed out only when it is prepared, unless the preparation
\* of this task's worktree was cut short before: then a retry finds a
\* worktree that looks complete (create_worktree, main.rs:436-485).
PreparedWhenAnswered ==
  \A q \in Creates : LET t == request[q].task IN
    At(q, "publishing") /\ tree[t] = "raw" => t \in spoilt

\* comp-worktree-create-protocol.md:22 skips the fetch "if last-fetched(origin)
\* < FETCH-STALENESS-THRESHOLD", so that a branch is cut from a trunk fetched
\* within the window, and by :38 not at all after a fetch that failed.  The code
\* has one cursor for the origins of all repositories and moves it after a failed
\* fetch, so this holds of one repository that answers (BranchedFreshHolds).
BranchedFresh ==
  \A q \in Creates : request[q].branched /\ RepoOf(q) \in OriginRepos => request[q].fresh
=============================================================================
