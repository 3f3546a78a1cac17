------------------------------ MODULE SkillWatch ------------------------------
(***************************************************************************)
(* jam-svc-knowledge: an inotify thread watches the skills folder and the  *)
(* directories in it, one by one, and hands changed files to the task that *)
(* tells skills.changed.  The kernel watches a directory, not its name: it *)
(* drops the watch when the directory goes, and a directory that is made   *)
(* under the old name is another one.                                      *)
(***************************************************************************)
EXTENDS Integers, Sequences, FiniteSets, SequencesExt

CONSTANTS
  MaxDirs,     \* how often the subdirectory is made
  MaxEdits,    \* changes of files
  SkillWatchFaults \* what may fail: "publish"

ASSUME SkillWatchAssumption ==
  MaxDirs \in Nat /\ MaxEdits \in Nat /\ SkillWatchFaults \subseteq {"publish"}

VARIABLES
  made,     \* how often the subdirectory was made; directory 0 is the root
  subdir,   \* which of them is there now, 0 for none
  edits,    \* changes so far
  fair,     \* fair[d]: the last that was made while d was watched
  queue,    \* kernel events, not yet read: [dir, kind]
  watches,  \* directories the kernel watches
  byWatch,  \* dirs_by_watch: directories by name, "root" or "sub"
  channel,  \* names of directories whose file changed, from thread to task
  heardAt,  \* heardAt[d]: changes made when skills.changed was last told of it
  alive     \* the process is up

skillWatchVars ==
  <<made, subdir, edits, fair, queue, watches, byWatch, channel, heardAt, alive>>

Dirs == 0..MaxDirs
NameOf(d) == IF d = 0 THEN "root" ELSE "sub"
Exists(d) == d = 0 \/ d = subdir

SkillWatchInit ==
  /\ made = 0 /\ subdir = 0 /\ edits = 0
  /\ fair = [d \in Dirs |-> 0]
  /\ queue = <<>> /\ channel = <<>> /\ heardAt = [d \in Dirs |-> 0]
  /\ watches = {0} /\ byWatch = {0} /\ alive = TRUE

Notify(d, kind) ==
  IF d \in watches /\ alive THEN Append(queue, [dir |-> d, kind |-> kind]) ELSE queue

\* A skill file is written.
EditSkill(d) ==
  /\ Exists(d) /\ edits < MaxEdits
  /\ edits' = edits + 1
  /\ fair' = IF d \in watches THEN [fair EXCEPT ![d] = edits + 1] ELSE fair
  /\ queue' = Notify(d, "edit")
  /\ UNCHANGED <<made, subdir, watches, byWatch, channel, heardAt, alive>>

MakeDir ==
  /\ subdir = 0 /\ made < MaxDirs
  /\ made' = made + 1 /\ subdir' = made + 1
  /\ queue' = Notify(0, "dir")
  /\ UNCHANGED <<edits, fair, watches, byWatch, channel, heardAt, alive>>

\* The directory goes with its file, and the kernel's watch with it; the entry
\* of dirs_by_watch stays.
RemoveDir ==
  /\ subdir # 0
  /\ subdir' = 0 /\ watches' = watches \ {subdir}
  /\ queue' = Notify(subdir, "gone")
  /\ UNCHANGED <<made, edits, fair, byWatch, channel, heardAt, alive>>

\* Faulty variant: only the root is watched.
AddDirNever == UNCHANGED <<watches, byWatch>>

\* add_dir_recursive and add_dir: a name that was watched before is passed over.
AddDir ==
  IF subdir = 0 \/ (\E d \in byWatch : NameOf(d) = "sub")
    THEN UNCHANGED <<watches, byWatch>>
    ELSE watches' = watches \union {subdir} /\ byWatch' = byWatch \union {subdir}

\* Faulty variant: of one read only the last event is looked at.
ChangedLast(batch) ==
  LET e == Last(batch) IN IF e.kind = "edit" /\ e.dir \in byWatch THEN {NameOf(e.dir)} ELSE {}

\* The files of a batch that should_publish, each once.
Changed(batch) ==
  {NameOf(e.dir) : e \in {e \in Range(batch) : e.kind = "edit" /\ e.dir \in byWatch}}

\* event_loop: one read takes some of the events, adds the watches of new
\* directories, then hands the changed files over.
ReadEvents ==
  /\ alive /\ queue # <<>>
  /\ \E n \in 1..Len(queue) :
       LET batch == SubSeq(queue, 1, n)
       IN /\ queue' = SubSeq(queue, n + 1, Len(queue))
          /\ IF \E e \in Range(batch) : e.kind = "dir"
               THEN AddDir ELSE UNCHANGED <<watches, byWatch>>
          /\ channel' = channel \o SetToSeq(Changed(batch))
  /\ UNCHANGED <<made, subdir, edits, fair, heardAt, alive>>

\* publish_skills_changed; its failure ends the service.
TellSkill ==
  /\ alive /\ channel # <<>>
  /\ \/ /\ heardAt' = [d \in Dirs |-> IF NameOf(d) = Head(channel) THEN edits ELSE heardAt[d]]
        /\ channel' = Tail(channel)
        /\ UNCHANGED <<alive, queue, watches, byWatch>>
     \/ /\ "publish" \in SkillWatchFaults
        /\ alive' = FALSE /\ channel' = <<>> /\ queue' = <<>> /\ watches' = {} /\ byWatch' = {}
        /\ UNCHANGED heardAt
  /\ UNCHANGED <<made, subdir, edits, fair>>

\* The service starts again: add_initial_watches watches what is there.
RestartSkillWatch ==
  /\ ~alive /\ alive' = TRUE
  /\ watches' = {d \in Dirs : Exists(d)} /\ byWatch' = watches'
  /\ fair' = [d \in Dirs |-> 0]
  /\ UNCHANGED <<made, subdir, edits, queue, channel, heardAt>>

SkillWatchNext ==
  \/ \E d \in Dirs : EditSkill(d)
  \/ MakeDir \/ RemoveDir \/ ReadEvents \/ TellSkill \/ RestartSkillWatch

SkillWatchSpec == SkillWatchInit /\ [][SkillWatchNext]_skillWatchVars
-----------------------------------------------------------------------------

SkillWatchTypeOK ==
  /\ subdir \in 0..made /\ made \in Dirs /\ edits \in 0..MaxEdits
  /\ watches \subseteq Dirs /\ byWatch \subseteq Dirs

\* Once the thread has read what the kernel holds and the task has told what it
\* was handed, nothing that changed in a watched directory is untold, in
\* whatever batches the events were read; and a directory is watched unless one
\* of its name was before (main.rs:289-392).  A file that came into a directory
\* before its watch is not among these: nothing tells the service of it.
ChangeIsTold ==
  (alive /\ queue = <<>>) =>
    /\ subdir # 0 => subdir \in watches \/ \E d \in byWatch : d # 0 /\ d # subdir
    /\ channel = <<>> => \A d \in Dirs : fair[d] <= heardAt[d]
=============================================================================
