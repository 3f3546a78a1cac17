---------------------------- MODULE PickerOutput ----------------------------
(***************************************************************************)
(* What the session service makes of the output of the Pickers that work   *)
(* one after the other in one worktree: a reader for each of the two pipes *)
(* numbers the lines, appends them to the session's log and publishes      *)
(* them; lines of stdout go to a usage log in the worktree, which the next *)
(* launch truncates; a rate limit on stderr sets a flag.  The exit watcher *)
(* reads the usage log and the flag when the process has ended, whether or *)
(* not the readers are done.                                               *)
(***************************************************************************)
EXTENDS Naturals, Sequences, SequencesExt

CONSTANTS
  Successive,     \* sessions are 1..Successive, each continuing the one before
  MaxLines  \* bound: lines of one pipe

ASSUME OutputAssumption == Successive \in Nat \ {0} /\ MaxLines \in Nat

Sessions == 1..Successive
Streams == {"stdout", "stderr"}

VARIABLES
  process,  \* "none", "running", "ended", by session
  pipe,     \* lines written and not yet read
  emitted,  \* lines written
  reader,   \* where the reader of a pipe is with its line
  number,   \* the number it gave the line
  sequence, \* next number of the session
  first,    \* first_output
  firsts,   \* picker.first-output events published
  log,      \* the session's log: numbers in order
  usage,    \* the usage log: the session of each line
  limited,  \* quota_exhausted_flag
  exit,     \* the exit watcher
  observed, \* the lines it found in the usage log
  exhausted \* sessions of which quota.exhausted was published

outputVars == <<process, pipe, emitted, reader, number, sequence, first, firsts, log,
                usage, limited, exit, observed, exhausted>>
reading == <<reader, number, sequence, first, firsts, log>>
watching == <<exit, observed, exhausted>>
writing == <<process, pipe, emitted>>

OutputInit ==
  /\ process = [s \in Sessions |-> "none"]
  /\ pipe = [s \in Sessions |-> [c \in Streams |-> 0]]
  /\ emitted = pipe /\ number = pipe
  /\ reader = [s \in Sessions |-> [c \in Streams |-> "idle"]]
  /\ sequence = [s \in Sessions |-> 0] /\ firsts = sequence
  /\ first = [s \in Sessions |-> FALSE] /\ limited = first
  /\ log = [s \in Sessions |-> <<>>] /\ observed = log
  /\ usage = <<>>
  /\ exit = [s \in Sessions |-> "waiting"]
  /\ exhausted = {}

\* launch_picker: the usage log is truncated, the session's log is its own.  A
\* continuation comes after the exit of the Picker before it was published.
LaunchNext(s) ==
  /\ process[s] = "none"
  /\ s > 1 => exit[s - 1] \in {"told", "done"}
  /\ process' = [process EXCEPT ![s] = "running"]
  /\ usage' = <<>>
  /\ UNCHANGED <<pipe, emitted, reading, limited, watching>>

WriteLine(s, c) ==
  /\ process[s] = "running" /\ emitted[s][c] < MaxLines
  /\ emitted' = [emitted EXCEPT ![s][c] = @ + 1]
  /\ pipe' = [pipe EXCEPT ![s][c] = @ + 1]
  /\ UNCHANGED <<process, reading, usage, limited, watching>>

ProcessEnds(s) ==
  /\ process[s] = "running"
  /\ process' = [process EXCEPT ![s] = "ended"]
  /\ UNCHANGED <<pipe, emitted, reading, usage, limited, watching>>

(***************************************************************************)
(* spawn_picker_output_reader, one pass of the loop.                       *)
(***************************************************************************)

GoesTo(s, c, pc) == reader' = [reader EXCEPT ![s][c] = pc]

ReadLine(s, c) ==
  /\ reader[s][c] = "idle" /\ pipe[s][c] > 0
  /\ pipe' = [pipe EXCEPT ![s][c] = @ - 1]
  /\ usage' = IF c = "stdout" THEN Append(usage, s) ELSE usage
  /\ GoesTo(s, c, "read")
  /\ UNCHANGED <<process, emitted, number, sequence, first, firsts, log, limited, watching>>

\* Faulty variant: the flag is set when a line has been logged.
FirstOutputByLog(s, c) ==
  /\ reader[s][c] = "read"
  /\ firsts' = IF first[s] THEN firsts ELSE [firsts EXCEPT ![s] = @ + 1]
  /\ first' = [first EXCEPT ![s] = log[s] # <<>>]
  /\ GoesTo(s, c, "marked")
  /\ UNCHANGED <<writing, number, sequence, log, usage, limited, watching>>

\* first_output.swap, and the event.
FirstOutput(s, c) ==
  /\ reader[s][c] = "read"
  /\ firsts' = IF first[s] THEN firsts ELSE [firsts EXCEPT ![s] = @ + 1]
  /\ first' = [first EXCEPT ![s] = TRUE]
  /\ GoesTo(s, c, "marked")
  /\ UNCHANGED <<writing, number, sequence, log, usage, limited, watching>>

\* Faulty variant: the number is taken from the log's length.
NumberByLog(s, c) ==
  /\ reader[s][c] = "marked"
  /\ number' = [number EXCEPT ![s][c] = Len(log[s])]
  /\ sequence' = [sequence EXCEPT ![s] = @ + 1]
  /\ limited' = [limited EXCEPT ![s] = @ \/ c = "stderr"]
  /\ GoesTo(s, c, "numbered")
  /\ UNCHANGED <<writing, first, firsts, log, usage, watching>>

\* sequence.fetch_add, and the flag; every line of stderr tells of a limit.
NumberLine(s, c) ==
  /\ reader[s][c] = "marked"
  /\ number' = [number EXCEPT ![s][c] = sequence[s]]
  /\ sequence' = [sequence EXCEPT ![s] = @ + 1]
  /\ limited' = [limited EXCEPT ![s] = @ \/ c = "stderr"]
  /\ GoesTo(s, c, "numbered")
  /\ UNCHANGED <<writing, first, firsts, log, usage, watching>>

\* append_picker_output_log under the log's mutex; the publish follows.
AppendLine(s, c) ==
  /\ reader[s][c] = "numbered"
  /\ log' = [log EXCEPT ![s] = Append(@, number[s][c])]
  /\ GoesTo(s, c, "idle")
  /\ UNCHANGED <<writing, number, sequence, first, firsts, usage, limited, watching>>

(***************************************************************************)
(* watch_picker_exit                                                       *)
(***************************************************************************)

\* Faulty variant: the exit is published before the usage is read.
ReadUsageLate(s) ==
  /\ exit[s] = "told"
  /\ observed' = [observed EXCEPT ![s] = usage]
  /\ exit' = [exit EXCEPT ![s] = "observed"]
  /\ UNCHANGED <<writing, reading, usage, limited, exhausted>>

\* quota_usage_for_handle, before the exit is told.
ReadUsage(s) ==
  /\ exit[s] = "waiting" /\ process[s] = "ended"
  /\ observed' = [observed EXCEPT ![s] = usage]
  /\ exit' = [exit EXCEPT ![s] = "observed"]
  /\ UNCHANGED <<writing, reading, usage, limited, exhausted>>

\* Faulty variant: the exit is told as soon as it is seen, and the usage read
\* then.
TellExitFirst(s) ==
  \/ /\ exit[s] = "waiting" /\ process[s] = "ended"
     /\ exit' = [exit EXCEPT ![s] = "told"]
     /\ UNCHANGED <<writing, reading, usage, limited, observed, exhausted>>
  \/ ReadUsageLate(s)

TellExit(s) ==
  /\ exit[s] = "observed"
  /\ exit' = [exit EXCEPT ![s] = "told"]
  /\ UNCHANGED <<writing, reading, usage, limited, observed, exhausted>>

\* Faulty variant: the flag of any session that uses the worktree counts.
TellAnyQuota(s, code) ==
  /\ exit[s] = "told"
  /\ exit' = [exit EXCEPT ![s] = "done"]
  /\ exhausted' = IF code # 0 /\ \E q \in Sessions : limited[q]
                  THEN exhausted \union {s} ELSE exhausted
  /\ UNCHANGED <<writing, reading, usage, limited, observed>>

\* publish_quota_exhausted after an exit with a code other than zero.
TellQuota(s, code) ==
  /\ exit[s] = "told"
  /\ exit' = [exit EXCEPT ![s] = "done"]
  /\ exhausted' = IF code # 0 /\ limited[s] THEN exhausted \union {s} ELSE exhausted
  /\ UNCHANGED <<writing, reading, usage, limited, observed>>

OutputNext ==
  \E s \in Sessions :
    \/ LaunchNext(s) \/ ProcessEnds(s)
    \/ ReadUsage(s) \/ TellExit(s) \/ \E code \in {0, 1} : TellQuota(s, code)
    \/ \E c \in Streams :
         \/ WriteLine(s, c) \/ ReadLine(s, c) \/ FirstOutput(s, c)
         \/ NumberLine(s, c) \/ AppendLine(s, c)

OutputSpec == OutputInit /\ [][OutputNext]_outputVars
-----------------------------------------------------------------------------

OutputTypeOK ==
  /\ process \in [Sessions -> {"none", "running", "ended"}]
  /\ {pipe, emitted, number} \subseteq [Sessions -> [Streams -> 0..(2 * MaxLines)]]
  /\ reader \in [Sessions -> [Streams -> {"idle", "read", "marked", "numbered"}]]
  /\ sequence \in [Sessions -> 0..(2 * MaxLines)]
  /\ \A s \in Sessions : firsts[s] > 0 => first[s]
  /\ first \in [Sessions -> BOOLEAN] /\ limited \in [Sessions -> BOOLEAN]
  /\ \A s \in Sessions : Range(log[s]) \subseteq 0..(2 * MaxLines)
  /\ Range(usage) \subseteq Sessions
  /\ exit \in [Sessions -> {"waiting", "observed", "told", "done"}]
  /\ exhausted \subseteq Sessions

\* However the two readers interleave, the start of a session's output is told
\* once (first_output.swap).
FirstOutputOnce == \A s \in Sessions : firsts[s] <= 1

\* A line's number is its own, though lines are logged in another order than
\* they are numbered; what is logged or about to be is every number given out.
NumbersUnique ==
  \A s \in Sessions :
    /\ IsInjective(log[s])
    /\ Range(log[s]) \union {number[s][c] : c \in {d \in Streams : reader[s][d] = "numbered"}}
         = 0..(sequence[s] - 1)

\* Every session's usage is read from lines of the sessions up to it, never
\* from those of the Picker that continues its work: the usage log is read
\* before the exit is told, and a continuation truncates it after.
UsageNotOfNext == \A s \in Sessions : \A i \in DOMAIN observed[s] : observed[s][i] <= s

\* quota.exhausted is told only of a session that met a limit itself.
ExhaustedIsOwn == \A s \in exhausted : emitted[s]["stderr"] > 0

\* Two readers and two sessions on one file keep apart what each has read: one
\* first output, no number twice, no usage or quota of another Picker
\* (main.rs:2684-3287 of the session service).
OutputSafety == FirstOutputOnce /\ NumbersUnique /\ UsageNotOfNext /\ ExhaustedIsOwn
=============================================================================
