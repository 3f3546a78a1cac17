---------------------------- MODULE ResearchRuns ----------------------------
(***************************************************************************)
(* request-research of the research service (crates/jam-svc-research): the *)
(* choice of a provider, the call that is answered at once or polled, the  *)
(* files of the output directory written one after another, the Tempyr     *)
(* node made from what is read back from them, and the journal.  A         *)
(* directory is named after the scope and the end of the trace id, so two  *)
(* requests of one trace and scope write the same files.                   *)
(***************************************************************************)
EXTENDS Integers, Sequences, FiniteSets

CONSTANTS
  Runs,          \* requests
  Ids,           \* research ids, and with them output directories
  Candidates,    \* the providers of the tier, in their order
  Polled,        \* those that answer with a job; a result is fetched from the rest
  MaxAttempts,   \* max_polls
  ResearchFaults \* what may fail: "call", "disk", "publish", "crash"

ASSUME ResearchAssumption ==
  /\ Ids # {} /\ "none" \notin Runs /\ MaxAttempts \in Nat
  /\ ResearchFaults \subseteq {"call", "disk", "publish", "crash"}

VARIABLES
  run,       \* [at, id, ...] of each request
  folder,    \* folder[id][f]: whose file f is and whether all of it is written
  node,      \* node[id]: whose findings and report the Tempyr node holds
  journaled, \* journal: <<kind, request>>
  graph      \* whether JAM_RESEARCH_TEMPYR_GRAPH_DIR is set

researchVars == <<run, folder, node, journaled, graph>>

Files == <<"report", "findings", "sources", "transcript", "metadata">>
FileNames == {Files[i] : i \in DOMAIN Files}
\* create_tempyr_research_node reads them in this order.
ReadBack == <<"findings", "metadata", "report", "sources">>
Absent == [run |-> "none", whole |-> FALSE]
Working == {"telling", "calling", "polling", "writing", "reading", "noting", "closing"}
ResearchErr(kind) == kind \in ResearchFaults

ResearchInit ==
  /\ run \in [Runs -> [at : {"idle"}, id : Ids]]
  /\ folder = [id \in Ids |-> [f \in FileNames |-> Absent]]
  /\ node = [id \in Ids |-> [findings |-> "none", report |-> "none"]]
  /\ journaled = {}
  /\ graph \in BOOLEAN

\* Which candidates have a credential, in the environment or in the secrets
\* file, when a request asks.
Names == {Candidates[i] : i \in DOMAIN Candidates}
Credentials == [env : SUBSET Names, file : (SUBSET Names) \union {{"unreadable"}}]

\* provider_api_key: the environment before the secrets file.
KeyOf(keys, p) ==
  IF p \in keys.env THEN "key"
  ELSE IF keys.file = {"unreadable"} THEN "error"
  ELSE IF p \in keys.file THEN "key" ELSE "none"

\* select_provider: the first candidate with a key; a secrets file that cannot
\* be read ends the search, although a later candidate may need none.
SelectProvider(keys) ==
  LET seen == {i \in DOMAIN Candidates : KeyOf(keys, Candidates[i]) # "none"}
  IN IF seen = {} THEN "none"
     ELSE LET first == CHOOSE i \in seen : \A j \in seen : i <= j
          IN IF KeyOf(keys, Candidates[first]) = "key" THEN Candidates[first] ELSE "none"

Move(r, at) == run' = [run EXCEPT ![r].at = at]

\* An input that parse_request or a validation does not let pass.
RefuseResearch(r) ==
  /\ run[r].at = "idle" /\ Move(r, "refused")
  /\ UNCHANGED <<folder, node, journaled, graph>>

\* request_research up to its first await: a tier without a provider is
\* refused before anything is journaled.
BeginResearch(r) ==
  /\ run[r].at = "idle"
  /\ \E keys \in Credentials :
       run' = [run EXCEPT ![r] =
         IF SelectProvider(keys) = "none" THEN [at |-> "refused", id |-> @.id]
         ELSE [at |-> "telling", id |-> @.id, provider |-> SelectProvider(keys)]]
  /\ UNCHANGED <<folder, node, journaled, graph>>

TellRequested(r) ==
  /\ run[r].at = "telling"
  /\ \/ journaled' = journaled \union {<<"requested", r>>} /\ Move(r, "calling")
     \/ ResearchErr("publish") /\ Move(r, "failed") /\ UNCHANGED journaled
  /\ UNCHANGED <<folder, node, graph>>

\* An answer, made into an output whose files are written next.
Received(id) == [at |-> "writing", id |-> id, file |-> 1, open |-> FALSE]

\* post_json or get_json fails, or the answer is not what its parser wants.
ProviderFails(r) ==
  /\ run[r].at \in {"calling", "polling"} /\ ResearchErr("call")
  /\ Move(r, "failed")
  /\ UNCHANGED <<folder, node, journaled, graph>>

\* run_provider_research: Sonar and Exa answer at once, Tavily and Parallel
\* with the name of a job.
CallProvider(r) ==
  /\ run[r].at = "calling"
  /\ run' = [run EXCEPT ![r] =
       IF @.provider \in Polled
         THEN [at |-> "polling", id |-> @.id, provider |-> @.provider, attempt |-> 0]
         ELSE Received(@.id)]
  /\ UNCHANGED <<folder, node, journaled, graph>>

\* Faulty variant: a job that has not ended in time is begun anew, for ever.
PollProviderAnew(r) ==
  /\ run[r].at = "polling"
  /\ \/ /\ run[r].attempt < MaxAttempts
        /\ \/ run' = [run EXCEPT ![r] = Received(@.id)]
           \/ run' = [run EXCEPT ![r].attempt = @ + 1]
     \/ run[r].attempt >= MaxAttempts /\ Move(r, "calling")
  /\ UNCHANGED <<folder, node, journaled, graph>>

\* One poll: completed, with the result of Parallel fetched, still working, or
\* failed; the last poll that finds it working is a timeout.
PollProvider(r) ==
  /\ run[r].at = "polling"
  /\ \/ /\ run[r].attempt < MaxAttempts
        /\ \/ run' = [run EXCEPT ![r] = Received(@.id)]
           \/ run' = [run EXCEPT ![r].attempt = @ + 1]
           \/ Move(r, "failed")
     \/ run[r].attempt >= MaxAttempts /\ Move(r, "failed")
  /\ UNCHANGED <<folder, node, journaled, graph>>

\* Faulty variant: the last of the files is left for later.
LastFileEarly == Len(Files) - 1

LastFile == Len(Files)

\* write_file and write_jsonl_values: the file is truncated, then filled.
WriteResearchFile(r) ==
  /\ run[r].at = "writing" /\ run[r].file <= LastFile
  /\ LET id == run[r].id
         f  == Files[run[r].file]
     IN \/ /\ folder' = [folder EXCEPT ![id][f] = [run |-> r, whole |-> run[r].open]]
           /\ run' = [run EXCEPT ![r].open = ~@, ![r].file = IF run[r].open THEN @ + 1 ELSE @]
        \/ ResearchErr("disk") /\ Move(r, "failed") /\ UNCHANGED folder
  /\ UNCHANGED <<node, journaled, graph>>

\* maybe_create_tempyr_node: without a graph directory there is no node.
BeginNode(r) ==
  /\ run[r].at = "writing" /\ run[r].file > LastFile
  /\ run' = [run EXCEPT ![r] =
       IF graph THEN [at |-> "reading", id |-> @.id, file |-> 1,
                      findings |-> "none", report |-> "none"]
       ELSE [at |-> "closing", id |-> @.id]]
  /\ UNCHANGED <<folder, node, journaled, graph>>

\* read_json_file fails on a file half written; read_to_string takes it.
ReadResearchFile(r) ==
  /\ run[r].at = "reading" /\ run[r].file <= Len(ReadBack)
  /\ LET f    == ReadBack[run[r].file]
         have == folder[run[r].id][f]
     IN IF (f \in {"findings", "metadata"} /\ ~have.whole) \/ have = Absent
          THEN Move(r, "failed")
          ELSE run' = [run EXCEPT ![r] =
                 [f2 \in DOMAIN @ |-> IF f2 = f THEN have.run
                                      ELSE IF f2 = "file" THEN @.file + 1 ELSE @[f2]]]
  /\ UNCHANGED <<folder, node, journaled, graph>>

WriteNode(r) ==
  /\ run[r].at = "reading" /\ run[r].file > Len(ReadBack)
  /\ \/ /\ node' = [node EXCEPT ![run[r].id] =
             [findings |-> run[r].findings, report |-> run[r].report]]
        /\ run' = [run EXCEPT ![r] = [at |-> "noting", id |-> @.id]]
     \/ ResearchErr("disk") /\ Move(r, "failed") /\ UNCHANGED node
  /\ UNCHANGED <<folder, journaled, graph>>

TellNode(r) ==
  /\ run[r].at = "noting"
  /\ \/ journaled' = journaled \union {<<"node", r>>} /\ Move(r, "closing")
     \/ ResearchErr("publish") /\ Move(r, "failed") /\ UNCHANGED journaled
  /\ UNCHANGED <<folder, node, graph>>

\* research.completed and the answer; an error before it is only answered, and
\* the journal never learns how the request ended.
TellCompleted(r) ==
  /\ run[r].at = "closing"
  /\ \/ journaled' = journaled \union {<<"completed", r>>} /\ Move(r, "answered")
     \/ ResearchErr("publish") /\ Move(r, "failed") /\ UNCHANGED journaled
  /\ UNCHANGED <<folder, node, graph>>

\* The service ends: what is in flight is lost, the files stay as they are.
ResearchCrash ==
  /\ ResearchErr("crash") /\ \E r \in Runs : run[r].at \in Working
  /\ run' = [r \in Runs |-> IF run[r].at \in Working
                              THEN [at |-> "failed", id |-> run[r].id] ELSE run[r]]
  /\ UNCHANGED <<folder, node, journaled, graph>>

ResearchStep(r) ==
  \/ TellRequested(r) \/ CallProvider(r) \/ PollProvider(r) \/ ProviderFails(r)
  \/ WriteResearchFile(r) \/ BeginNode(r) \/ ReadResearchFile(r) \/ WriteNode(r) \/ TellNode(r) \/ TellCompleted(r)

ResearchNext ==
  \/ \E r \in Runs : RefuseResearch(r) \/ BeginResearch(r) \/ ResearchStep(r)
  \/ ResearchCrash

\* A request that was taken is a task that runs until it answers.
ResearchFairness == \A r \in Runs : WF_researchVars(ResearchStep(r))
-----------------------------------------------------------------------------

ResearchTypeOK ==
  /\ \A r \in Runs : run[r].at \in {"idle", "refused", "answered", "failed"} \union Working
  /\ \A id \in Ids, f \in FileNames : folder[id][f].run \in Runs \union {"none"}
  /\ journaled \subseteq {"requested", "node", "completed"} \X Runs

\* No other request of the same directory.
Alone(r) == \A q \in Runs : run[q].id = run[r].id => q = r

\* What the journal calls completed was requested, and is on the disk with
\* every file whole and, when there is a graph, with its node; a request that
\* shares its directory with no other finds its own words in all of them,
\* whatever failed or crashed around it (main.rs:472-570, 1355-1407).
CompletedIsStored ==
  \A r \in Runs : <<"completed", r>> \in journaled =>
    /\ <<"requested", r>> \in journaled /\ (graph => <<"node", r>> \in journaled)
    /\ \A f \in FileNames : folder[run[r].id][f] # Absent
    /\ Alone(r) =>
         /\ \A f \in FileNames : folder[run[r].id][f] = [run |-> r, whole |-> TRUE]
         /\ graph => node[run[r].id] = [findings |-> r, report |-> r]

\* A taken request ends within the polls it has (main.rs:773-838).
ResearchEnds == \A r \in Runs : run[r].at = "telling" ~> run[r].at \in {"answered", "failed"}
=============================================================================
