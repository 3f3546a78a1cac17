---------------------------- MODULE DeploysProofs ----------------------------
(***************************************************************************)
(* What is proved of deploys (Deploys), for any clients, sources of a      *)
(* target, faults and deaths.  A run of jam deploy, the driver's runs      *)
(* among them, and the dashboard's requests meet at the builds under       *)
(* target/release; the invariant says of each what it may still rely on:   *)
(* that a build, a hash, an installed binary and an answer are of the      *)
(* commit the driver has set out to deploy, and that the dashboard's       *)
(* bundle is not older than what anybody has asked to be served with it.   *)
(***************************************************************************)
EXTENDS Deploys, ToolsProofs

DeployVersions ==
  {<<>>, <<"installed">>, <<"base">>} \union ({"dirty"} \X Nat)
    \union ({"dirty"} \X Nat \X Nat) \union ({"ui"} \X Nat)
ClientStates ==
  {"idle", "next", "syncing", "hashing", "staging", "waiting", "succeeded", "failed", "lost"}
Underway == {"next", "syncing", "hashing", "staging", "waiting"}
DeployRuns ==
  [at : ClientStates, todo : Seq(TargetSet), goal : Nat, step : Nat, id : Nat, hash : Nat,
   version : DeployVersions, done : SUBSET Nat]
StagedAsks == [id : Nat, s : TargetSet, hash : Nat, version : DeployVersions, by : Clients]
AgentStates ==
  {"idle", "swapping", "checking", "installing", "stopping", "starting", "restarting", "awaiting",
   "telling"}
AgentJobs == [at : AgentStates, ask : StagedAsks, seen : Nat]
DeployProcs == [up : BOOLEAN, build : Int, checked : Nat, by : Clients]
DeployAnswers ==
  [id : Nat, s : TargetSet, how : {"confirmed", "rolled back", "failed"}, checked : BOOLEAN,
   hash : Nat, seen : Nat, got : Int]
UiFiles == [build : Int, stray : BOOLEAN]
UiBundles == [src : UiFiles, new : UiFiles, dist : UiFiles, old : UiFiles, torn : BOOLEAN]

\* A run of jam deploy has a target left until it ends; the dashboard asks for
\* one target, builds none, and only its server is shipped with a bundle.
RunOK(c, r) ==
  /\ r.at \in Underway => r.todo # <<>>
  /\ c \in Requests => /\ r.at \notin {"next", "syncing", "hashing"}
                       /\ r.at \in {"staging", "waiting"} => Len(r.todo) = 1
  /\ r.at = "syncing" => Head(r.todo) = UiServer /\ r.step \in 1..7

SourcesTyped ==
  /\ origin \in Seq(TouchSets) /\ tree \in [head : Nat, edits : SUBSET TargetSet]
  /\ tree.head <= Len(origin) /\ built \in [TargetSet -> Nat]
ClientsTyped ==
  /\ deploy \in [Clients -> DeployRuns] /\ asks \in 0..MaxAsks
  /\ \A c \in Clients : /\ RunOK(c, deploy[c])
                        /\ deploy[c].goal <= tree.head /\ deploy[c].id <= asks
  /\ bundle \in UiBundles
MarkTyped ==
  /\ mark \in [last : Int, first : Int]
  /\ mark.last \in -1..tree.head /\ mark.first \in -1..tree.head
  /\ mark.last >= 0 => mark.first >= 0
  /\ deploy[Cron].at # "idle" => 0 <= mark.last /\ mark.last <= deploy[Cron].goal
AgentTyped ==
  /\ staged \in Seq(StagedAsks) /\ agentJob \in AgentJobs /\ binary \in [TargetSet -> Int]
  /\ proc \in [TargetSet -> DeployProcs] /\ routed \in [TargetSet -> DeployVersions]
  /\ answers \subseteq DeployAnswers
DeployTyped == SourcesTyped /\ ClientsTyped /\ MarkTyped /\ AgentTyped

LEMMA DeployTypes == DeployTyped => DeployTypeOK
<1> SUFFICES ASSUME DeployTyped PROVE DeployTypeOK
  OBVIOUS
<1>1. /\ \A c \in Clients : deploy[c].at \in ClientStates
      /\ agentJob.at \in AgentStates
  BY DEF DeployTyped, ClientsTyped, AgentTyped, DeployRuns, AgentJobs
<1>2. tree.head \in 0..Len(origin) /\ tree.edits \subseteq TargetSet
  BY DEF DeployTyped, SourcesTyped
<1>3. mark.last \in -1..Len(origin) /\ asks \in 0..MaxAsks
  BY DEF DeployTyped, SourcesTyped, ClientsTyped, MarkTyped
<1> QED
  BY <1>1, <1>2, <1>3 DEF DeployTypeOK, ClientStates, AgentStates

\* What the list of targets for some paths holds.
LEMMA TargetsForIs ==
  ASSUME NEW paths
  PROVE  /\ TargetsFor(paths) \in Seq(TargetSet)
         /\ \A s \in TargetSet : s \in paths => s \in Range(TargetsFor(paths))
<1> DEFINE n0 == Len(Targets)
<1>1. Targets \in Seq(TargetSet) /\ n0 \in Nat /\ DOMAIN Targets = 1..n0
  BY DeployAssumption
<1> DEFINE Step(v, n) == IF Targets[n] \in paths THEN Append(v, Targets[n]) ELSE v
           Filters(f, k) == f = [n \in 0..k |-> IF n = 0 THEN <<>> ELSE Step(f[n - 1], n)]
           G == {k \in Nat : \E f : Filters(f, k)}
<1>2. 0 \in G
  <2> DEFINE g == [n \in 0..0 |-> <<>>]
  <2>1. Filters(g, 0)
    BY Z3
  <2> QED BY <2>1
<1>3. ASSUME NEW k \in Nat, k \in G PROVE k + 1 \in G
  <2>1. PICK f : Filters(f, k)
    BY <1>3
  <2> DEFINE v == Step(f[k], k + 1)
             g == [n \in 0..(k + 1) |-> IF n = k + 1 THEN v ELSE f[n]]
  <2> HIDE DEF Step
  <2>2. ASSUME NEW n \in 0..(k + 1)
        PROVE  g[n] = IF n = 0 THEN <<>> ELSE Step(g[n - 1], n)
    <3>1. CASE n = k + 1
      <4>1. g[n - 1] = f[k] /\ g[n] = v
        BY <3>1
      <4> QED BY <3>1, <4>1
    <3>2. CASE n \in 0..k
      <4>1. g[n] = f[n] /\ f[n] = IF n = 0 THEN <<>> ELSE Step(f[n - 1], n)
        BY <2>1, <3>2
      <4>2. n # 0 => g[n - 1] = f[n - 1]
        BY <3>2
      <4> QED BY <4>1, <4>2
    <3> QED BY <3>1, <3>2
  <2>3. DOMAIN g = 0..(k + 1)
    OBVIOUS
  <2> HIDE DEF g
  <2>4. [n \in 0..(k + 1) |-> g[n]] = [n \in 0..(k + 1) |-> IF n = 0 THEN <<>> ELSE Step(g[n - 1], n)]
    BY <2>2
  <2>5. g = [n \in 0..(k + 1) |-> g[n]]
    BY <2>3 DEF g
  <2>6. Filters(g, k + 1)
    BY <2>4, <2>5
  <2> QED BY <2>6
<1>4. \E f : Filters(f, n0)
  <2> HIDE DEF Filters, n0
  <2>1. n0 \in G
    BY <1>1, <1>2, <1>3, SetInduction
  <2> QED BY <2>1
<1> DEFINE h == CHOOSE f : Filters(f, n0)
<1>5. Filters(h, n0)
  <2> HIDE DEF Filters, n0
  <2> QED BY <1>4
<1>6. TargetsFor(paths) = h[n0]
  BY DEF TargetsFor
<1> HIDE DEF h
<1> DEFINE Good(v, n) == /\ v \in Seq(TargetSet)
                         /\ \A i \in 1..n : Targets[i] \in paths => \E j \in DOMAIN v : v[j] = Targets[i]
           H == {n \in Nat : n <= n0 => Good(h[n], n)}
<1>7. 0 \in H
  <2>1. h[0] = <<>>
    BY <1>1, <1>5
  <2>2. <<>> \in Seq(TargetSet)
    OBVIOUS
  <2>3. 1..0 = {}
    OBVIOUS
  <2>4. Good(h[0], 0)
    BY <2>1, <2>2, <2>3
  <2> QED BY <2>4
<1>8. ASSUME NEW n \in Nat, n \in H PROVE n + 1 \in H
  <2> SUFFICES ASSUME n + 1 <= n0 PROVE Good(h[n + 1], n + 1)
    OBVIOUS
  <2>1. PICK v : v = h[n]
    OBVIOUS
  <2>2. Good(v, n)
    BY <1>1, <1>8, <2>1
  <2>3. h[n + 1] = Step(v, n + 1)
    <3>1. n + 1 \in 0..n0 /\ n + 1 # 0 /\ (n + 1) - 1 = n
      BY <1>1
    <3> QED BY <1>5, <2>1, <3>1
  <2>4. PICK t : t = Targets[n + 1]
    OBVIOUS
  <2>5. t \in TargetSet
    BY <1>1, <2>4
  <2>6. CASE t \in paths
    <3>1. h[n + 1] = Append(v, t)
      BY <2>3, <2>4, <2>6
    <3>2. PICK w : w = Append(v, t)
      OBVIOUS
    <3>3. w \in Seq(TargetSet) /\ DOMAIN w = 1..(Len(v) + 1) /\ w[Len(v) + 1] = t
          /\ Len(v) \in Nat /\ DOMAIN v = 1..Len(v) /\ \A j \in DOMAIN v : w[j] = v[j]
      BY <2>2, <2>5, <3>2
    <3>4. ASSUME NEW i \in 1..(n + 1), Targets[i] \in paths PROVE \E j \in DOMAIN w : w[j] = Targets[i]
      <4>1. CASE i = n + 1
        BY <3>3, <4>1, <2>4
      <4>2. CASE i \in 1..n
        <5>1. PICK j \in DOMAIN v : v[j] = Targets[i]
          BY <2>2, <3>4, <4>2
        <5>2. j \in DOMAIN w /\ w[j] = v[j]
          BY <3>3
        <5> QED BY <5>1, <5>2
      <4> QED BY <4>1, <4>2
    <3> QED BY <3>1, <3>2, <3>3, <3>4
  <2>7. CASE t \notin paths
    <3>1. h[n + 1] = v
      BY <2>3, <2>4, <2>7
    <3>2. \A i \in 1..(n + 1) : Targets[i] \in paths => i \in 1..n
      BY <2>4, <2>7
    <3> QED BY <2>2, <3>1, <3>2
  <2> QED BY <2>6, <2>7
<1>9. Good(h[n0], n0)
  <2> HIDE DEF Good, n0
  <2>1. n0 \in H
    BY <1>1, <1>7, <1>8, SetInduction
  <2> QED BY <1>1, <2>1
<1>10. \A s \in TargetSet : \E i \in 1..n0 : Targets[i] = s
  BY <1>1 DEF TargetSet, Range
<1> HIDE DEF n0
<1>11. ASSUME NEW s \in TargetSet, s \in paths PROVE s \in Range(h[n0])
  <2>1. PICK i \in 1..n0 : Targets[i] = s
    BY <1>10
  <2>2. PICK v : v = h[n0]
    OBVIOUS
  <2>3. PICK j \in DOMAIN v : v[j] = s
    BY <1>9, <1>11, <2>1, <2>2
  <2> QED BY <2>2, <2>3 DEF Range
<1> QED BY <1>6, <1>9, <1>11

\* The last of the first c commits in o that touches s, 0 for none.
LastTouch(o, s, c) ==
  LET touching == {i \in 1..c : s \in o[i]}
  IN IF touching = {} THEN 0 ELSE CHOOSE i \in touching : \A j \in touching : i >= j

LEMMA SourceAtIs == \A s, c : SourceAt(s, c) = 2 * LastTouch(origin, s, c)
BY DEF SourceAt, LastTouch

LEMMA LastTouchIs ==
  ASSUME NEW o, NEW s, NEW c \in Nat
  PROVE  /\ LastTouch(o, s, c) \in 0..c
         /\ LastTouch(o, s, c) # 0 => s \in o[LastTouch(o, s, c)]
         /\ \A i \in 1..c : s \in o[i] => i <= LastTouch(o, s, c)
<1> DEFINE touching == {i \in 1..c : s \in o[i]}
           above == {n \in Nat : \A i \in touching : i <= n}
<1>1. CASE touching = {}
  BY <1>1 DEF LastTouch
<1>2. CASE touching # {}
  <2>1. c \in above
    OBVIOUS
  <2>2. PICK n \in above : \A m \in above : n <= m
    BY <2>1, LeastNumber
  <2>3. n \in touching
    <3>1. n # 0
      BY <1>2, <2>2
    <3>2. n - 1 \in Nat /\ ~(n <= n - 1)
      BY <3>1, <2>2
    <3>3. n - 1 \notin above
      BY <2>2, <3>2
    <3>4. PICK i \in touching : ~(i <= n - 1)
      BY <3>2, <3>3
    <3>5. i <= n /\ i \in Nat
      BY <2>2
    <3>6. i = n
      BY <3>2, <3>4, <3>5
    <3> QED BY <3>6
  <2>4. \A j \in touching : n >= j
    BY <2>2
  <2>5. PICK k : k = CHOOSE i \in touching : \A j \in touching : i >= j
    OBVIOUS
  <2>6. k \in touching /\ \A j \in touching : k >= j
    BY <2>3, <2>4, <2>5
  <2>7. LastTouch(o, s, c) = k
    BY <1>2, <2>5 DEF LastTouch
  <2> QED BY <2>6, <2>7
<1> QED BY <1>1, <1>2

\* No earlier commit is later; what is not touched stays; a commit more leaves
\* what was there.
LEMMA LastTouchGrows ==
  ASSUME NEW o, NEW s, NEW a \in Nat, NEW b \in Nat, a <= b
  PROVE  /\ LastTouch(o, s, a) <= LastTouch(o, s, b)
         /\ (\A i \in (a + 1)..b : s \notin o[i]) => LastTouch(o, s, a) = LastTouch(o, s, b)
<1>1. PICK k : k = LastTouch(o, s, a)
  OBVIOUS
<1>2. PICK l : l = LastTouch(o, s, b)
  OBVIOUS
<1>3. k \in 0..a /\ (k # 0 => s \in o[k]) /\ \A i \in 1..a : s \in o[i] => i <= k
  BY <1>1, LastTouchIs
<1>4. l \in 0..b /\ (l # 0 => s \in o[l]) /\ \A i \in 1..b : s \in o[i] => i <= l
  BY <1>2, LastTouchIs
<1>5. k <= l
  BY <1>3, <1>4
<1>6. ASSUME \A i \in (a + 1)..b : s \notin o[i] PROVE l <= k
  <2>1. CASE l = 0
    BY <2>1, <1>3
  <2>2. CASE l # 0
    <3>1. l \in 1..a
      BY <1>4, <1>6, <2>2
    <3> QED BY <1>3, <1>4, <2>2, <3>1
  <2> QED BY <2>1, <2>2
<1> QED BY <1>1, <1>2, <1>3, <1>4, <1>5, <1>6

LEMMA LastTouchStays ==
  ASSUME NEW o, NEW p, NEW s, NEW c \in Nat, \A i \in 1..c : p[i] = o[i]
  PROVE  LastTouch(p, s, c) = LastTouch(o, s, c)
<1>1. {i \in 1..c : s \in p[i]} = {i \in 1..c : s \in o[i]}
  OBVIOUS
<1> DEFINE LastOf(T) == IF T = {} THEN 0 ELSE CHOOSE i \in T : \A j \in T : i >= j
<1>2. LastTouch(p, s, c) = LastOf({i \in 1..c : s \in p[i]})
  BY DEF LastTouch
<1>3. LastTouch(o, s, c) = LastOf({i \in 1..c : s \in o[i]})
  BY DEF LastTouch
<1> HIDE DEF LastOf
<1> QED BY <1>1, <1>2, <1>3

\* What the tree may do in a step.
TreeGrows ==
  /\ Len(origin) <= Len(origin') /\ \A i \in 1..Len(origin) : origin'[i] = origin[i]
  /\ tree.head <= tree'.head /\ tree.edits \subseteq tree'.edits
  /\ \A s \in TargetSet : built'[s] = built[s] \/ built'[s] = Source(s)

LEMMA SourceIs ==
  ASSUME SourcesTyped, NEW s
  PROVE  /\ Source(s) \in Nat
         /\ Source(s) = 2 * LastTouch(origin, s, tree.head) + (IF s \in tree.edits THEN 1 ELSE 0)
         /\ \A c \in 0..tree.head : SourceAt(s, c) \in Nat /\ SourceAt(s, c) <= Source(s)
<1>1. tree.head \in Nat
  BY DEF SourcesTyped
<1>2. LastTouch(origin, s, tree.head) \in Nat
  BY <1>1, LastTouchIs
<1>3. Source(s) = 2 * LastTouch(origin, s, tree.head) + (IF s \in tree.edits THEN 1 ELSE 0)
  BY SourceAtIs DEF Source
<1>4. ASSUME NEW c \in 0..tree.head PROVE SourceAt(s, c) \in Nat /\ SourceAt(s, c) <= Source(s)
  <2>1. LastTouch(origin, s, c) \in Nat /\ LastTouch(origin, s, c) <= LastTouch(origin, s, tree.head)
    BY <1>1, LastTouchIs, LastTouchGrows
  <2>2. SourceAt(s, c) = 2 * LastTouch(origin, s, c)
    BY SourceAtIs
  <2> QED BY <1>2, <1>3, <2>1, <2>2
<1> QED BY <1>2, <1>3, <1>4

LEMMA SourceGrows ==
  ASSUME SourcesTyped, SourcesTyped', TreeGrows, NEW s
  PROVE  Source(s) <= Source(s)'
<1>1. PICK h : h = tree.head
  OBVIOUS
<1>2. PICK g : g = tree'.head
  OBVIOUS
<1>3. h \in Nat /\ g \in Nat /\ h <= g /\ h <= Len(origin)
  BY <1>1, <1>2 DEF SourcesTyped, TreeGrows
<1>4. \A i \in 1..h : origin'[i] = origin[i]
  <2>1. Len(origin) \in Nat
    BY DEF SourcesTyped
  <2> QED BY <1>3, <2>1 DEF TreeGrows
<1>5. LastTouch(origin', s, h) = LastTouch(origin, s, h)
  BY <1>3, <1>4, LastTouchStays
<1>6. LastTouch(origin', s, h) <= LastTouch(origin', s, g)
      /\ LastTouch(origin', s, h) \in Nat /\ LastTouch(origin', s, g) \in Nat
  BY <1>3, LastTouchGrows, LastTouchIs
<1>7. Source(s) = 2 * LastTouch(origin, s, h) + (IF s \in tree.edits THEN 1 ELSE 0)
  BY <1>1, SourceIs
<1>8. Source(s)' = 2 * LastTouch(origin', s, g) + (IF s \in tree'.edits THEN 1 ELSE 0)
  <2>1. Source(s)' = 2 * LastTouch(origin', s, tree'.head) + (IF s \in tree'.edits THEN 1 ELSE 0)
    BY DEF Source, SourceAt, LastTouch
  <2> QED BY <1>2, <2>1
<1>9. s \in tree.edits => s \in tree'.edits
  BY DEF TreeGrows
<1> QED BY <1>5, <1>6, <1>7, <1>8, <1>9

\* A commit's source of a target, and what is built, as time goes on.
LEMMA SourceAtStays ==
  ASSUME SourcesTyped, TreeGrows, NEW s, NEW c \in 0..Len(origin)
  PROVE  SourceAt(s, c)' = SourceAt(s, c)
<1>1. Len(origin) \in Nat /\ c \in Nat
  BY DEF SourcesTyped
<1>2. \A i \in 1..c : origin'[i] = origin[i]
  BY <1>1 DEF TreeGrows
<1>3. LastTouch(origin', s, c) = LastTouch(origin, s, c)
  BY <1>1, <1>2, LastTouchStays
<1>4. SourceAt(s, c)' = 2 * LastTouch(origin', s, c)
  BY DEF SourceAt, LastTouch
<1>5. SourceAt(s, c) = 2 * LastTouch(origin, s, c)
  BY SourceAtIs
<1> QED BY <1>3, <1>4, <1>5

\* What each kind of step leaves alone.
LEMMA AgentFrame == DeployAgentStep => UNCHANGED clientVars
<1>1. CASE TakeStagedAsk BY <1>1 DEF TakeStagedAsk
<1>2. CASE CheckStaged BY <1>2 DEF CheckStaged
<1>3. CASE InstallBuild BY <1>3 DEF InstallBuild
<1>4. CASE InstallFails BY <1>4 DEF InstallFails
<1>5. CASE StopProcess BY <1>5 DEF StopProcess
<1>6. CASE StartProcess BY <1>6 DEF StartProcess
<1>7. CASE ProcessFails BY <1>7 DEF ProcessFails
<1>8. CASE AwaitRunning BY <1>8 DEF AwaitRunning
<1>9. CASE ConfirmDeploy BY <1>9 DEF ConfirmDeploy
<1>10. CASE SwapVersions BY <1>10 DEF SwapVersions
<1>11. CASE AgentIsLost BY <1>11 DEF AgentIsLost
<1> QED
  BY <1>1, <1>2, <1>3, <1>4, <1>5, <1>6, <1>7, <1>8, <1>9, <1>10, <1>11 DEF DeployAgentStep

LEMMA ClientFrame ==
  ASSUME NEW c, ClientStep(c)
  PROVE  /\ UNCHANGED <<origin, tree, mark, agentVars>>
         /\ ~Build(c) => UNCHANGED built
         /\ ~PublishStaged(c) => UNCHANGED <<asks, staged>>
         /\ ~(Build(c) \/ SyncBundle(c) \/ SyncFails(c)) => UNCHANGED bundle
<1> USE DEF treeVars
<1>1. CASE OperatorDeploys(c) BY <1>1 DEF OperatorDeploys
<1>2. CASE CliFails(c) BY <1>2 DEF CliFails
<1>3. CASE Build(c) BY <1>3 DEF Build
<1>4. CASE SyncBundle(c) BY <1>4 DEF SyncBundle
<1>5. CASE SyncFails(c) BY <1>5 DEF SyncFails
<1>6. CASE HashBuild(c) BY <1>6 DEF HashBuild
<1>7. CASE UiAsks(c) BY <1>7 DEF UiAsks
<1>8. CASE PublishStaged(c) BY <1>8 DEF PublishStaged
<1>9. CASE Hear(c) BY <1>9 DEF Hear
<1>10. CASE WaitTimesOut(c) BY <1>10 DEF WaitTimesOut
<1> QED
  BY <1>1, <1>2, <1>3, <1>4, <1>5, <1>6, <1>7, <1>8, <1>9, <1>10 DEF ClientStep

LEMMA HeadOfTodo ==
  ASSUME ClientsTyped, NEW c \in Clients, deploy[c].at \in Underway
  PROVE  /\ deploy[c].todo \in Seq(TargetSet) /\ deploy[c].todo # <<>> /\ Now(c) \in TargetSet
         /\ Tail(deploy[c].todo) \in Seq(TargetSet)
<1>1. PICK r : r = deploy[c]
  OBVIOUS
<1>2. r \in DeployRuns /\ RunOK(c, r)
  BY <1>1 DEF ClientsTyped
<1>3. r.todo \in Seq(TargetSet) /\ r.todo # <<>>
  BY <1>1, <1>2 DEF DeployRuns, RunOK
<1>4. PICK q : q = r.todo
  OBVIOUS
<1>5. Head(q) \in TargetSet /\ Tail(q) \in Seq(TargetSet)
  BY <1>3, <1>4
<1> QED BY <1>1, <1>3, <1>4, <1>5 DEF Now

\* The tree only grows, and what is built is built of it.
LEMMA SourcesKept ==
  ASSUME DeployTyped, [DeployNext]_deployVars
  PROVE  SourcesTyped' /\ TreeGrows
<1>0. SourcesTyped /\ ClientsTyped
  BY DEF DeployTyped
<1>1. origin \in Seq(TouchSets) /\ Len(origin) \in Nat /\ tree \in [head : Nat, edits : SUBSET TargetSet]
      /\ tree.head <= Len(origin) /\ built \in [TargetSet -> Nat]
  BY <1>0 DEF SourcesTyped
<1>2. CASE UNCHANGED treeVars
  BY <1>1, <1>2 DEF treeVars, SourcesTyped, TreeGrows
<1>3. CASE Merged
  <2>1. PICK touched \in TouchSets : origin' = Append(origin, touched)
    BY <1>3 DEF Merged
  <2>2. origin' \in Seq(TouchSets) /\ Len(origin') = Len(origin) + 1
        /\ \A i \in 1..Len(origin) : origin'[i] = origin[i]
    BY <1>1, <2>1
  <2>3. UNCHANGED <<tree, built>>
    BY <1>3 DEF Merged
  <2> QED BY <1>1, <2>2, <2>3 DEF SourcesTyped, TreeGrows
<1>4. CASE EditSources
  <2>1. PICK s \in Edited \ tree.edits : tree' = [tree EXCEPT !.edits = @ \union {s}]
    BY <1>4 DEF EditSources
  <2>2. s \in TargetSet
    BY DeployAssumption
  <2>3. UNCHANGED <<origin, built>>
    BY <1>4 DEF EditSources
  <2> QED BY <1>1, <2>1, <2>2, <2>3 DEF SourcesTyped, TreeGrows
<1>5. CASE CronTick
  <2>1. tree' = [tree EXCEPT !.head = Len(origin)] /\ UNCHANGED <<origin, built>>
    BY <1>5 DEF CronTick
  <2> QED BY <1>1, <2>1 DEF SourcesTyped, TreeGrows
<1>6. ASSUME NEW c \in Clients, Build(c) PROVE SourcesTyped' /\ TreeGrows
  <2>1. PICK s : s = Now(c)
    OBVIOUS
  <2>2. s \in TargetSet
    BY <1>0, <1>6, <2>1, HeadOfTodo DEF Build, Underway
  <2>3. built' = IF Strategy(s) = "python" THEN built ELSE [built EXCEPT ![s] = Source(s)]
    BY <1>6, <2>1 DEF Build
  <2>4. UNCHANGED <<origin, tree>>
    BY <1>6 DEF Build
  <2>5. Source(s) \in Nat
    BY <1>0, SourceIs
  <2>6. built' \in [TargetSet -> Nat] /\ \A t \in TargetSet : built'[t] = built[t] \/ built'[t] = Source(t)
    BY <1>1, <2>2, <2>3, <2>5
  <2> QED BY <1>1, <2>4, <2>6 DEF SourcesTyped, TreeGrows
<1>7. CASE CronEnds
  BY <1>2, <1>7 DEF CronEnds
<1>8. ASSUME NEW c \in Clients, ClientStep(c) PROVE SourcesTyped' /\ TreeGrows
  <2>1. CASE Build(c)
    BY <1>6, <2>1
  <2>2. CASE ~Build(c)
    <3>1. UNCHANGED treeVars
      BY <1>8, <2>2, ClientFrame DEF treeVars
    <3> QED BY <1>2, <3>1
  <2> QED BY <2>1, <2>2
<1>9. CASE DeployAgentStep
  <2>1. UNCHANGED treeVars
    BY <1>9, AgentFrame DEF clientVars
  <2> QED BY <1>2, <2>1
<1>10. CASE UNCHANGED deployVars
  BY <1>2, <1>10 DEF deployVars
<1> QED
  BY <1>3, <1>4, <1>5, <1>7, <1>8, <1>9, <1>10 DEF DeployNext

\* One run of jam deploy has moved.
Moves(c, r) == deploy' = [deploy EXCEPT ![c] = r]

LEMMA MovesOne ==
  ASSUME ClientsTyped, NEW c \in Clients, NEW r, Moves(c, r)
  PROVE  /\ DOMAIN deploy' = Clients /\ deploy'[c] = r
         /\ \A d \in Clients : d # c => deploy'[d] = deploy[d]
BY DEF ClientsTyped, Moves

LEMMA RunFields ==
  ASSUME ClientsTyped, NEW c \in Clients
  PROVE  /\ deploy[c] \in DeployRuns /\ RunOK(c, deploy[c])
         /\ deploy[c].goal <= tree.head /\ deploy[c].id <= asks
BY DEF ClientsTyped

\* What each step makes of its run.
AtRun(x, at) == [x EXCEPT !.at = at]
BuiltRun(x, version) ==
  [x EXCEPT !.at = IF Head(x.todo) = UiServer THEN "syncing" ELSE "hashing",
            !.step = 1, !.version = version]
SyncedRun(x) == [x EXCEPT !.step = @ + 1, !.at = IF x.step = 7 THEN "hashing" ELSE @]
HashedRun(x) ==
  [x EXCEPT !.at = "staging",
            !.hash = IF Strategy(Head(x.todo)) = "python" THEN 0 ELSE built[Head(x.todo)]]
UiRun(s) ==
  [IdleClient EXCEPT
         !.at = "staging", !.todo = <<s>>,
         !.hash = IF Strategy(s) = "python" THEN 0 ELSE built[s],
         !.version = <<"ui", IF Strategy(s) = "python" THEN 0 ELSE built[s]>>]
StagedRun(x) == [x EXCEPT !.at = "waiting", !.id = asks + 1]
HeardRun(x) ==
  [x EXCEPT !.todo = Tail(@), !.done = @ \union {x.id},
            !.at = IF Len(x.todo) = 1 THEN "succeeded" ELSE "next"]
BegunRun(todo, goal) ==
  [IdleClient EXCEPT !.at = IF todo = <<>> THEN "succeeded" ELSE "next", !.todo = todo,
                       !.goal = goal]

LEMMA IdleRun == IdleClient \in DeployRuns
<1>1. <<>> \in Seq(TargetSet)
  OBVIOUS
<1>2. <<>> \in DeployVersions
  BY DEF DeployVersions
<1> QED BY <1>1, <1>2 DEF IdleClient, DeployRuns, ClientStates

LEMMA AtRunIs ==
  ASSUME NEW c \in Clients, NEW x \in DeployRuns, RunOK(c, x), NEW at \in ClientStates \ Underway
  PROVE  /\ AtRun(x, at) \in DeployRuns /\ RunOK(c, AtRun(x, at))
         /\ AtRun(x, at).at = at /\ AtRun(x, at).todo = x.todo /\ AtRun(x, at).goal = x.goal
         /\ AtRun(x, at).id = x.id /\ AtRun(x, at).done = x.done
BY DEF AtRun, DeployRuns, RunOK, Underway, ClientStates

LEMMA BuiltRunIs ==
  ASSUME NEW c \in Clients, NEW x \in DeployRuns, RunOK(c, x), x.at = "next",
         NEW v \in DeployVersions, NEW r, r = BuiltRun(x, v)
  PROVE  /\ r \in DeployRuns /\ RunOK(c, r) /\ c \notin Requests
         /\ r.at = IF Head(x.todo) = UiServer THEN "syncing" ELSE "hashing"
         /\ r.step = 1 /\ r.todo = x.todo /\ r.goal = x.goal /\ r.id = x.id /\ r.done = x.done
<1>1. c \notin Requests /\ x.todo # <<>>
  BY DEF RunOK, Underway
<1>2. /\ r.at = IF Head(x.todo) = UiServer THEN "syncing" ELSE "hashing"
      /\ r.step = 1 /\ r.todo = x.todo /\ r.goal = x.goal /\ r.id = x.id /\ r.done = x.done
  BY DEF BuiltRun, DeployRuns
<1>3. r \in DeployRuns
  BY <1>2 DEF BuiltRun, DeployRuns, ClientStates
<1>4. RunOK(c, r)
  BY <1>1, <1>2 DEF RunOK
<1> QED BY <1>1, <1>2, <1>3, <1>4

LEMMA SyncedRunIs ==
  ASSUME NEW c \in Clients, NEW x \in DeployRuns, RunOK(c, x), x.at = "syncing",
         NEW r, r = SyncedRun(x)
  PROVE  /\ r \in DeployRuns /\ RunOK(c, r) /\ c \notin Requests
         /\ r.at = IF x.step = 7 THEN "hashing" ELSE "syncing"
         /\ r.step = x.step + 1 /\ r.todo = x.todo /\ r.goal = x.goal /\ r.id = x.id /\ r.done = x.done
<1>1. c \notin Requests /\ x.todo # <<>> /\ x.step \in 1..7 /\ Head(x.todo) = UiServer
  BY DEF RunOK, Underway
<1>2. /\ r.at = IF x.step = 7 THEN "hashing" ELSE "syncing"
      /\ r.step = x.step + 1 /\ r.todo = x.todo /\ r.goal = x.goal /\ r.id = x.id
      /\ r.done = x.done
  BY DEF SyncedRun, DeployRuns
<1>3. r \in DeployRuns
  <2>1. PICK n : n = x.step + 1
    OBVIOUS
  <2>2. n \in Nat
    BY <1>1, <2>1
  <2>3. r = [at |-> IF x.step = 7 THEN "hashing" ELSE "syncing", todo |-> x.todo, goal |-> x.goal,
             step |-> n, id |-> x.id, hash |-> x.hash, version |-> x.version, done |-> x.done]
    BY <2>1 DEF SyncedRun, DeployRuns
  <2> QED BY <2>2, <2>3 DEF DeployRuns, ClientStates
<1>4. r.at = "syncing" => r.step \in 1..7
  BY <1>1, <1>2
<1>5. RunOK(c, r)
  BY <1>1, <1>2, <1>4 DEF RunOK
<1> QED BY <1>1, <1>2, <1>3, <1>5

LEMMA HashedRunIs ==
  ASSUME SourcesTyped, NEW c \in Clients, NEW x \in DeployRuns, RunOK(c, x), x.at = "hashing",
         Head(x.todo) \in TargetSet, NEW r, r = HashedRun(x)
  PROVE  /\ r \in DeployRuns /\ RunOK(c, r) /\ c \notin Requests
         /\ r.at = "staging" /\ r.hash \in Nat
         /\ r.hash = IF Strategy(Head(x.todo)) = "python" THEN 0 ELSE built[Head(x.todo)]
         /\ r.todo = x.todo /\ r.goal = x.goal /\ r.id = x.id /\ r.done = x.done
<1>1. built[Head(x.todo)] \in Nat
  BY DEF SourcesTyped
<1> QED BY <1>1 DEF HashedRun, DeployRuns, RunOK, Underway, ClientStates

LEMMA UiRunIs ==
  ASSUME SourcesTyped, NEW c \in Clients, NEW s \in TargetSet, NEW r, r = UiRun(s)
  PROVE  /\ r \in DeployRuns /\ RunOK(c, r)
         /\ r.at = "staging" /\ r.hash \in Nat
         /\ r.hash = IF Strategy(s) = "python" THEN 0 ELSE built[s]
         /\ r.todo = <<s>> /\ r.goal = 0 /\ r.id = 0 /\ r.done = {} /\ Head(r.todo) = s
<1>1. PICK h : h = IF Strategy(s) = "python" THEN 0 ELSE built[s]
  OBVIOUS
<1>2. h \in Nat
  BY <1>1 DEF SourcesTyped
<1>3. <<"ui", h>> \in DeployVersions
  BY <1>2 DEF DeployVersions
<1>4. PICK t : t = <<s>>
  OBVIOUS
<1>5. t \in Seq(TargetSet) /\ t # <<>> /\ Len(t) = 1 /\ Head(t) = s
  BY <1>4
<1>6. r = [IdleClient EXCEPT !.at = "staging", !.todo = t, !.hash = h, !.version = <<"ui", h>>]
  BY <1>1, <1>4 DEF UiRun
<1>7. PICK v : v = <<"ui", h>>
  OBVIOUS
<1>8. r = [at |-> "staging", todo |-> t, goal |-> 0, step |-> 0, id |-> 0, hash |-> h,
           version |-> v, done |-> {}]
  BY <1>6, <1>7 DEF IdleClient
<1>9. v \in DeployVersions
  BY <1>3, <1>7
<1>10. r \in DeployRuns
  BY <1>2, <1>5, <1>8, <1>9 DEF DeployRuns, ClientStates
<1> QED BY <1>1, <1>2, <1>4, <1>5, <1>8, <1>10 DEF RunOK, Underway

LEMMA StagedRunIs ==
  ASSUME NEW c \in Clients, NEW x \in DeployRuns, RunOK(c, x), x.at = "staging", asks \in Nat,
         NEW r, r = StagedRun(x)
  PROVE  /\ r \in DeployRuns /\ RunOK(c, r)
         /\ r.at = "waiting" /\ r.id = asks + 1 /\ r.hash = x.hash /\ r.version = x.version
         /\ r.todo = x.todo /\ r.goal = x.goal /\ r.done = x.done
<1>1. /\ r.at = "waiting" /\ r.id = asks + 1 /\ r.hash = x.hash /\ r.version = x.version
      /\ r.todo = x.todo /\ r.goal = x.goal /\ r.done = x.done
  BY DEF StagedRun, DeployRuns
<1>2. asks + 1 \in Nat
  OBVIOUS
<1>3. r \in DeployRuns
  BY <1>2 DEF StagedRun, DeployRuns, ClientStates
<1>4. RunOK(c, r)
  BY <1>1 DEF RunOK, Underway
<1> QED BY <1>1, <1>3, <1>4

LEMMA HeardRunIs ==
  ASSUME NEW c \in Clients, NEW x \in DeployRuns, RunOK(c, x), x.at = "waiting",
         NEW r, r = HeardRun(x)
  PROVE  /\ r \in DeployRuns /\ RunOK(c, r)
         /\ r.at = (IF Len(x.todo) = 1 THEN "succeeded" ELSE "next")
         /\ r.at = "succeeded" <=> r.todo = <<>>
         /\ r.todo = Tail(x.todo) /\ r.goal = x.goal /\ r.id = x.id
         /\ r.done = x.done \union {x.id} /\ x.id \in Nat
<1>1. x.todo \in Seq(TargetSet) /\ x.todo # <<>> /\ (c \in Requests => Len(x.todo) = 1)
  BY DEF DeployRuns, RunOK, Underway
<1>2. PICK q : q = x.todo
  OBVIOUS
<1>3. PICK t : t = Tail(q)
  OBVIOUS
<1>4. t \in Seq(TargetSet) /\ (Len(q) = 1 <=> t = <<>>)
  <2>1. q \in Seq(TargetSet) /\ q # <<>>
    BY <1>1, <1>2
  <2>2. t \in Seq(TargetSet) /\ Len(t) = Len(q) - 1 /\ Len(q) \in Nat
    BY <1>3, <2>1
  <2>3. t = <<>> <=> Len(t) = 0
    BY <2>2, EmptyIs
  <2> QED BY <2>2, <2>3
<1>5. r = [x EXCEPT !.todo = t, !.done = @ \union {x.id},
                    !.at = IF Len(q) = 1 THEN "succeeded" ELSE "next"]
  BY <1>2, <1>3 DEF HeardRun
<1>6. r \in DeployRuns /\ r.todo = t /\ r.at = (IF Len(q) = 1 THEN "succeeded" ELSE "next")
      /\ r.goal = x.goal /\ r.id = x.id /\ r.done = x.done \union {x.id} /\ x.id \in Nat
  <2>1. /\ r.todo = t /\ r.at = (IF Len(q) = 1 THEN "succeeded" ELSE "next")
        /\ r.goal = x.goal /\ r.id = x.id /\ r.done = x.done \union {x.id} /\ x.id \in Nat
    BY <1>5 DEF DeployRuns
  <2>2. PICK d : d = x.done \union {x.id}
    OBVIOUS
  <2>3. d \in SUBSET Nat
    BY <2>1, <2>2 DEF DeployRuns
  <2>4. r = [at |-> IF Len(q) = 1 THEN "succeeded" ELSE "next", todo |-> t, goal |-> x.goal,
             step |-> x.step, id |-> x.id, hash |-> x.hash, version |-> x.version, done |-> d]
    BY <1>5, <2>2 DEF DeployRuns
  <2>5. r \in DeployRuns
    BY <1>4, <2>3, <2>4 DEF DeployRuns, ClientStates
  <2> QED BY <2>1, <2>5
<1>7. RunOK(c, r)
  BY <1>1, <1>2, <1>4, <1>6 DEF RunOK, Underway
<1> QED BY <1>2, <1>3, <1>4, <1>6, <1>7

LEMMA BegunRunIs ==
  ASSUME NEW c \in Clients \ Requests, NEW todo \in Seq(TargetSet), NEW goal \in Nat,
         NEW r, r = BegunRun(todo, goal)
  PROVE  /\ r \in DeployRuns /\ RunOK(c, r)
         /\ r.at = (IF todo = <<>> THEN "succeeded" ELSE "next")
         /\ r.todo = todo /\ r.goal = goal /\ r.id = 0 /\ r.done = {}
<1>1. <<>> \in DeployVersions
  BY DEF DeployVersions
<1>2. PICK v : v = <<>>
  OBVIOUS
<1>3. r = [at |-> IF todo = <<>> THEN "succeeded" ELSE "next", todo |-> todo, goal |-> goal,
           step |-> 0, id |-> 0, hash |-> 0, version |-> v, done |-> {}]
  BY <1>2 DEF BegunRun, IdleClient
<1>4. r \in DeployRuns
  BY <1>1, <1>2, <1>3 DEF DeployRuns, ClientStates
<1> QED BY <1>3, <1>4 DEF RunOK, Underway

LEMMA GoesMoves ==
  ASSUME ClientsTyped, NEW c \in Clients, NEW at, Goes(c, at)
  PROVE  Moves(c, AtRun(deploy[c], at))
BY DEF ClientsTyped, Goes, Moves, AtRun, DeployRuns

LEMMA BuildMoves ==
  ASSUME DeployTyped, DeployTyped => SourcesTyped', NEW c \in Clients, Build(c)
  PROVE  \E v \in DeployVersions : Moves(c, BuiltRun(deploy[c], v))
<1>1. PICK s : s = Now(c)
  OBVIOUS
<1>2. PICK v : v = DeployVersion(s)
  OBVIOUS
<1>3. v \in DeployVersions
  <2>1. s \in TargetSet
    BY <1>1, HeadOfTodo DEF Build, Underway, DeployTyped
  <2>2. tree.head \in Nat /\ built'[s] \in Nat
    BY <2>1 DEF DeployTyped, SourcesTyped
  <2> QED BY <1>2, <2>2 DEF DeployVersion, DeployVersions
<1>4. deploy' = [deploy EXCEPT ![c].at = IF s = UiServer THEN "syncing" ELSE "hashing",
                               ![c].step = 1, ![c].version = v]
  BY <1>1, <1>2 DEF Build
<1>5. deploy \in [Clients -> DeployRuns]
  BY DEF DeployTyped, ClientsTyped
<1>6. Moves(c, BuiltRun(deploy[c], v))
  BY <1>1, <1>4, <1>5 DEF Moves, BuiltRun, Now
<1> QED BY <1>3, <1>6

LEMMA SyncMoves ==
  ASSUME ClientsTyped, NEW c \in Clients, SyncBundle(c)
  PROVE  \/ Moves(c, AtRun(deploy[c], "failed"))
         \/ Moves(c, SyncedRun(deploy[c]))
<1>1. deploy \in [Clients -> DeployRuns]
  BY DEF ClientsTyped
<1>2. CASE Goes(c, "failed")
  BY <1>2, GoesMoves
<1>3. CASE deploy' = [deploy EXCEPT ![c].step = @ + 1,
                            ![c].at = IF deploy[c].step = 7 THEN "hashing" ELSE @]
  BY <1>1, <1>3 DEF Moves, SyncedRun
<1> QED BY <1>2, <1>3 DEF SyncBundle

LEMMA HashMoves ==
  ASSUME ClientsTyped, NEW c \in Clients, HashBuild(c)
  PROVE  Moves(c, HashedRun(deploy[c]))
<1>1. deploy \in [Clients -> DeployRuns]
  BY DEF ClientsTyped
<1>2. PICK s : s = Now(c)
  OBVIOUS
<1>3. PICK h : h = IF Strategy(s) = "python" THEN 0 ELSE built[s]
  OBVIOUS
<1>4. deploy' = [deploy EXCEPT ![c].at = "staging", ![c].hash = h]
  BY <1>2, <1>3 DEF HashBuild
<1>5. HashedRun(deploy[c]) = [deploy[c] EXCEPT !.at = "staging", !.hash = h]
  BY <1>2, <1>3 DEF HashedRun, Now
<1> QED BY <1>1, <1>4, <1>5 DEF Moves

LEMMA UiAsksMoves ==
  ASSUME NEW c \in Clients, UiAsks(c)
  PROVE  \E s \in TargetSet : Moves(c, UiRun(s))
BY Zenon DEF UiAsks, Moves, UiRun

LEMMA StagedMoves ==
  ASSUME ClientsTyped, NEW c \in Clients, PublishStaged(c)
  PROVE  Moves(c, StagedRun(deploy[c])) /\ asks' = asks + 1
<1>1. deploy \in [Clients -> DeployRuns]
  BY DEF ClientsTyped
<1>2. asks' = asks + 1 /\ deploy' = [deploy EXCEPT ![c].at = "waiting", ![c].id = asks + 1]
  BY DEF PublishStaged
<1> QED BY <1>1, <1>2 DEF Moves, StagedRun

LEMMA HearMoves ==
  ASSUME ClientsTyped, NEW c \in Clients, Hear(c)
  PROVE  \/ /\ Moves(c, HeardRun(deploy[c]))
            /\ \E a \in AnswersTo(c) : a.how = "confirmed"
         \/ Moves(c, AtRun(deploy[c], "failed"))
<1>1. deploy \in [Clients -> DeployRuns]
  BY DEF ClientsTyped
<1>2. PICK a \in AnswersTo(c) :
       IF a.how = "confirmed"
         THEN deploy' = [deploy EXCEPT ![c].todo = Tail(@), ![c].done = @ \union {deploy[c].id},
                           ![c].at = IF Len(deploy[c].todo) = 1 THEN "succeeded" ELSE "next"]
         ELSE Goes(c, "failed")
  BY Zenon DEF Hear
<1>3. CASE a.how = "confirmed"
  <2>1. PICK at : at = IF Len(deploy[c].todo) = 1 THEN "succeeded" ELSE "next"
    OBVIOUS
  <2>2. PICK t : t = Tail(deploy[c].todo)
    OBVIOUS
  <2>3. PICK d : d = deploy[c].done \union {deploy[c].id}
    OBVIOUS
  <2>4. deploy' = [deploy EXCEPT ![c].todo = t, ![c].done = d, ![c].at = at]
    BY <1>1, <1>2, <1>3, <2>1, <2>2, <2>3 DEF DeployRuns
  <2>5. HeardRun(deploy[c]) = [deploy[c] EXCEPT !.todo = t, !.done = d, !.at = at]
    BY <1>1, <2>1, <2>2, <2>3 DEF HeardRun, DeployRuns
  <2>6. Moves(c, HeardRun(deploy[c]))
    BY <1>1, <2>4, <2>5 DEF Moves
  <2> QED BY <1>2, <1>3, <2>6
<1>4. CASE a.how # "confirmed"
  BY <1>2, <1>4, GoesMoves
<1> QED BY <1>3, <1>4

LEMMA CronIsClient == Cron \in Clients \ Requests
BY DeployAssumption DEF Clients

LEMMA OperatorMoves ==
  ASSUME NEW c \in Clients, OperatorDeploys(c)
  PROVE  c \notin Requests /\ \E todo \in Seq(TargetSet) : Moves(c, BegunRun(todo, 0))
<1>1. c \notin Requests
  BY DeployAssumption DEF OperatorDeploys
<1>2. PICK todo \in Lists \union {TargetsFor(tree.edits)} : Begin(c, todo, 0)
  BY Zenon DEF OperatorDeploys
<1>3. todo \in Seq(TargetSet)
  BY <1>2, TargetsForIs, DeployAssumption
<1>4. Moves(c, BegunRun(todo, 0))
  BY <1>2, Zenon DEF Begin, Moves, BegunRun
<1> QED BY <1>1, <1>3, <1>4

Since == UNION {origin[i] : i \in (mark.last + 1)..Len(origin)}

LEMMA TickMoves ==
  ASSUME CronTick
  PROVE  /\ deploy[Cron].at = "idle" /\ tree' = [tree EXCEPT !.head = Len(origin)]
         /\ UNCHANGED <<origin, built, asks, staged, agentVars, bundle>>
         /\ \/ /\ mark.last = -1 /\ mark' = [last |-> Len(origin), first |-> Len(origin)]
               /\ UNCHANGED deploy
            \/ /\ mark.last # -1 /\ UNCHANGED mark
               /\ Moves(Cron, BegunRun(TargetsFor(Since), Len(origin)))
<1>1. mark.last # -1 => UNCHANGED mark /\ Begin(Cron, TargetsFor(Since), Len(origin))
  BY DEF CronTick, Since
<1>2. PICK todo : todo = TargetsFor(Since)
  OBVIOUS
<1>3. Begin(Cron, todo, Len(origin)) => Moves(Cron, BegunRun(todo, Len(origin)))
  BY Zenon DEF Begin, Moves, BegunRun
<1> QED BY <1>1, <1>2, <1>3 DEF CronTick

\* Who reports a success was told of it.
Confirmed(id) == \E a \in answers : a.id = id /\ a.how = "confirmed"
DoneInv == \A c \in Clients : \A id \in deploy[c].done : Confirmed(id)

\* What a run may become.
MayMove(c, r) ==
  /\ r \in DeployRuns /\ RunOK(c, r) /\ r.goal <= tree'.head /\ r.id <= asks'
  /\ \A id \in r.done : id \in deploy[c].done \/ Confirmed(id)
  /\ c = Cron => deploy[c].at # "idle" /\ r.goal = deploy[c].goal

LEMMA StaysAsItIs ==
  ASSUME DeployTyped, tree.head <= tree'.head, tree' \in [head : Nat, edits : SUBSET TargetSet],
         asks <= asks', asks' \in Nat, NEW c \in Clients, NEW at \in ClientStates \ Underway,
         deploy[c].at # "idle"
  PROVE  MayMove(c, AtRun(deploy[c], at))
<1>1. PICK x : x = deploy[c]
  OBVIOUS
<1>2. x \in DeployRuns /\ RunOK(c, x) /\ x.goal <= tree.head /\ x.id <= asks
  BY <1>1, RunFields DEF DeployTyped
<1>3. PICK y : y = AtRun(x, at)
  OBVIOUS
<1>4. y \in DeployRuns /\ RunOK(c, y) /\ y.goal = x.goal /\ y.id = x.id /\ y.done = x.done
  BY <1>2, <1>3, AtRunIs
<1>5. x.goal \in Nat /\ x.id \in Nat /\ tree.head \in Nat /\ tree'.head \in Nat /\ asks \in Nat
  BY <1>2 DEF DeployRuns, DeployTyped, SourcesTyped, ClientsTyped
<1> QED BY <1>1, <1>2, <1>3, <1>4, <1>5 DEF MayMove

\* Every step of a client moves one run.
LEMMA ClientMoves ==
  ASSUME DeployTyped, SourcesTyped', NEW c \in Clients, ClientStep(c)
  PROVE  (\E r : MayMove(c, r) /\ Moves(c, r)) /\ asks' \in 0..MaxAsks /\ asks <= asks'
<1> DEFINE Goal == (\E r : MayMove(c, r) /\ Moves(c, r)) /\ asks' \in 0..MaxAsks /\ asks <= asks'
<1> SUFFICES Goal
  OBVIOUS
<1>0. SourcesTyped /\ ClientsTyped /\ asks \in 0..MaxAsks /\ tree' = tree
      /\ tree \in [head : Nat, edits : SUBSET TargetSet] /\ MaxAsks \in Nat
  BY ClientFrame, DeployAssumption DEF DeployTyped, SourcesTyped, ClientsTyped
<1>1. PICK x : x = deploy[c]
  OBVIOUS
<1>2. x \in DeployRuns /\ RunOK(c, x) /\ x.goal <= tree.head /\ x.id <= asks /\ x.id \in Nat
  BY <1>0, <1>1, RunFields DEF DeployRuns
<1>3. ~PublishStaged(c) => asks' = asks
  BY ClientFrame
<1>4. ASSUME NEW at \in ClientStates \ Underway, ~PublishStaged(c), x.at # "idle",
             Moves(c, AtRun(x, at))
      PROVE  Goal
  <2>1. MayMove(c, AtRun(x, at))
    BY <1>0, <1>1, <1>3, <1>4, StaysAsItIs
  <2> QED BY <1>0, <1>3, <1>4, <2>1
<1>5. ASSUME ~PublishStaged(c), NEW r \in DeployRuns, RunOK(c, r), r.goal <= tree.head,
             r.id <= asks, \A id \in r.done : id \in x.done \/ Confirmed(id),
             c = Cron => x.at # "idle" /\ r.goal = x.goal, Moves(c, r)
      PROVE  Goal
  <2>1. MayMove(c, r)
    BY <1>0, <1>1, <1>3, <1>5 DEF MayMove
  <2> QED BY <1>0, <1>3, <1>5, <2>1
<1> HIDE DEF Goal
<1>6. {"idle", "succeeded", "failed", "lost"} \subseteq ClientStates \ Underway
  BY DEF ClientStates, Underway
<1>7. CASE OperatorDeploys(c)
  <2>0. ~PublishStaged(c) /\ c # Cron
    BY <1>7, DeployAssumption DEF OperatorDeploys, PublishStaged
  <2>1. PICK todo \in Seq(TargetSet) : Moves(c, BegunRun(todo, 0))
    BY <1>7, OperatorMoves
  <2>2. PICK r : r = BegunRun(todo, 0)
    OBVIOUS
  <2>3. r \in DeployRuns /\ RunOK(c, r) /\ r.goal = 0 /\ r.id = 0 /\ r.done = {}
    BY <1>7, <2>2, OperatorMoves, BegunRunIs
  <2> QED BY <1>0, <1>5, <2>0, <2>1, <2>2, <2>3
<1>8. CASE CliFails(c) \/ SyncFails(c) \/ WaitTimesOut(c)
  <2>1. Moves(c, AtRun(x, "failed"))
    BY <1>0, <1>1, <1>8, GoesMoves DEF CliFails, SyncFails, WaitTimesOut
  <2>2. ~PublishStaged(c)
    <3>1. Goes(c, "failed")
      BY <1>8 DEF CliFails, SyncFails, WaitTimesOut
    <3>2. deploy'[c].at = "failed"
      BY <1>0, <3>1 DEF Goes, ClientsTyped, DeployRuns
    <3>3. PublishStaged(c) => deploy'[c].at = "waiting"
      BY <1>0 DEF PublishStaged, ClientsTyped, DeployRuns
    <3> QED BY <3>2, <3>3
  <2>3. x.at # "idle"
    BY <1>1, <1>8 DEF CliFails, SyncFails, Syncing, WaitTimesOut
  <2> QED BY <1>4, <1>6, <2>1, <2>2, <2>3
<1>9. CASE Build(c)
  <2>0. x.at = "next" /\ ~PublishStaged(c)
    BY <1>1, <1>9 DEF Build, PublishStaged
  <2>1. PICK v \in DeployVersions : Moves(c, BuiltRun(x, v))
    BY <1>1, <1>9, BuildMoves
  <2>2. PICK r : r = BuiltRun(x, v)
    OBVIOUS
  <2>3. r \in DeployRuns /\ RunOK(c, r) /\ r.goal = x.goal /\ r.id = x.id /\ r.done = x.done
    BY <1>2, <2>0, <2>2, BuiltRunIs
  <2> QED BY <1>2, <1>5, <2>0, <2>1, <2>2, <2>3
<1>10. CASE SyncBundle(c)
  <2>0. x.at = "syncing" /\ ~PublishStaged(c)
    BY <1>1, <1>10 DEF SyncBundle, Syncing, PublishStaged
  <2>1. CASE Moves(c, AtRun(x, "failed"))
    BY <1>4, <1>6, <2>0, <2>1
  <2>2. CASE Moves(c, SyncedRun(x))
    <3>2. PICK r : r = SyncedRun(x)
      OBVIOUS
    <3>3. r \in DeployRuns /\ RunOK(c, r) /\ r.goal = x.goal /\ r.id = x.id /\ r.done = x.done
      BY <1>2, <2>0, <3>2, SyncedRunIs
    <3> QED BY <1>2, <1>5, <2>0, <2>2, <3>2, <3>3
  <2> QED BY <1>0, <1>1, <1>10, <2>1, <2>2, SyncMoves
<1>11. CASE HashBuild(c)
  <2>0. x.at = "hashing" /\ ~PublishStaged(c)
    BY <1>1, <1>11 DEF HashBuild, PublishStaged
  <2>1. Moves(c, HashedRun(x))
    BY <1>0, <1>1, <1>11, HashMoves
  <2>2. Head(x.todo) \in TargetSet
    BY <1>0, <1>1, <2>0, HeadOfTodo DEF Underway, Now
  <2>3. PICK r : r = HashedRun(x)
    OBVIOUS
  <2>4. r \in DeployRuns /\ RunOK(c, r) /\ r.goal = x.goal /\ r.id = x.id /\ r.done = x.done
    BY <1>0, <1>2, <2>0, <2>2, <2>3, HashedRunIs
  <2> QED BY <1>2, <1>5, <2>0, <2>1, <2>3, <2>4
<1>12. CASE UiAsks(c)
  <2>0. ~PublishStaged(c) /\ c # Cron
    BY <1>12, DeployAssumption DEF UiAsks, PublishStaged
  <2>1. PICK s \in TargetSet : Moves(c, UiRun(s))
    BY <1>12, UiAsksMoves
  <2>2. PICK r : r = UiRun(s)
    OBVIOUS
  <2>3. r \in DeployRuns /\ RunOK(c, r) /\ r.goal = 0 /\ r.id = 0 /\ r.done = {}
    BY <1>0, <2>2, UiRunIs
  <2> QED BY <1>0, <1>5, <2>0, <2>1, <2>2, <2>3
<1>13. CASE PublishStaged(c)
  <2>0. x.at = "staging" /\ asks < MaxAsks /\ asks' = asks + 1 /\ Moves(c, StagedRun(x))
    BY <1>0, <1>1, <1>13, StagedMoves DEF PublishStaged
  <2>1. PICK r : r = StagedRun(x)
    OBVIOUS
  <2>2. r \in DeployRuns /\ RunOK(c, r) /\ r.goal = x.goal /\ r.id = asks + 1 /\ r.done = x.done
    BY <1>0, <1>2, <2>0, <2>1, StagedRunIs
  <2>3. MayMove(c, r)
    BY <1>0, <1>1, <1>2, <2>0, <2>2 DEF MayMove
  <2> QED BY <1>0, <2>0, <2>1, <2>3 DEF Goal
<1>14. CASE Hear(c)
  <2>0. x.at = "waiting" /\ ~PublishStaged(c)
    BY <1>1, <1>14 DEF Hear, PublishStaged
  <2>1. CASE Moves(c, AtRun(x, "failed"))
    BY <1>4, <1>6, <2>0, <2>1
  <2>2. CASE Moves(c, HeardRun(x)) /\ \E a \in AnswersTo(c) : a.how = "confirmed"
    <3>1. Confirmed(x.id)
      BY <1>1, <2>2 DEF AnswersTo, Confirmed
    <3>2. PICK r : r = HeardRun(x)
      OBVIOUS
    <3>3. r \in DeployRuns /\ RunOK(c, r) /\ r.goal = x.goal /\ r.id = x.id
          /\ r.done = x.done \union {x.id}
      BY <1>2, <2>0, <3>2, HeardRunIs
    <3> QED BY <1>2, <1>5, <2>0, <2>2, <3>1, <3>2, <3>3
  <2> QED BY <1>0, <1>1, <1>14, <2>1, <2>2, HearMoves
<1> QED
  BY <1>7, <1>8, <1>9, <1>10, <1>11, <1>12, <1>13, <1>14 DEF ClientStep

LEMMA IntoIs ==
  ASSUME NEW w \in UiFiles, NEW t \in UiFiles
  PROVE  Into(w, t) \in UiFiles
BY DEF Into, UiFiles

LEMMA SyncStepTyped ==
  ASSUME SourcesTyped, bundle \in UiBundles, NEW n \in 1..7
  PROVE  SyncStep(n) \in UiBundles
<1>1. PICK b : b = bundle
  OBVIOUS
<1>2. b \in UiBundles /\ b.src \in UiFiles /\ b.new \in UiFiles /\ b.dist \in UiFiles /\ b.old \in UiFiles
  BY <1>1 DEF UiBundles
<1>3. NoBundle \in UiFiles
  BY DEF NoBundle, Mixed, UiFiles
<1>4. PICK v : v = Source(UiServer)
  OBVIOUS
<1>5. v \in Nat
  BY <1>4, SourceIs
<1>6. Into(b.src, b.new) \in UiFiles /\ Into(b.dist, b.old) \in UiFiles /\ Into(b.new, b.dist) \in UiFiles
  BY <1>2, IntoIs
<1>7. [build |-> v, stray |-> FALSE] \in UiFiles
  BY <1>5 DEF UiFiles
<1>8. n = 1 \/ n = 2 \/ n = 3 \/ n = 4 \/ n = 5 \/ n = 6 \/ n = 7
  OBVIOUS
<1>9. CASE n = 1
  <2>1. SyncStep(n) = [b EXCEPT !.src = [build |-> v, stray |-> FALSE]]
    BY <1>1, <1>4, <1>9 DEF SyncStep
  <2> QED BY <1>2, <1>7, <2>1 DEF UiBundles
<1>10. CASE n = 2
  <2>1. SyncStep(n) = [b EXCEPT !.new = NoBundle]
    BY <1>1, <1>10 DEF SyncStep
  <2> QED BY <1>2, <1>3, <2>1 DEF UiBundles
<1>11. CASE n = 3
  <2>1. SyncStep(n) = [b EXCEPT !.new = Into(b.src, b.new)]
    BY <1>1, <1>11 DEF SyncStep
  <2> QED BY <1>2, <1>6, <2>1 DEF UiBundles
<1>12. CASE n = 4 \/ n = 7
  <2>1. SyncStep(n) = [b EXCEPT !.old = NoBundle]
    BY <1>1, <1>12 DEF SyncStep
  <2> QED BY <1>2, <1>3, <2>1 DEF UiBundles
<1>13. CASE n = 5
  <2>1. PICK o : o = IF b.dist = NoBundle THEN b.old ELSE Into(b.dist, b.old)
    OBVIOUS
  <2>2. o \in UiFiles
    BY <1>2, <1>6, <2>1
  <2>3. SyncStep(n) = [b EXCEPT !.old = o, !.dist = NoBundle]
    BY <1>1, <1>13, <2>1 DEF SyncStep
  <2> QED BY <1>2, <1>3, <2>2, <2>3 DEF UiBundles
<1>14. CASE n = 6
  <2>1. SyncStep(n) = [b EXCEPT !.dist = Into(b.new, b.dist), !.new = NoBundle]
    BY <1>1, <1>14 DEF SyncStep
  <2> QED BY <1>2, <1>3, <1>6, <2>1 DEF UiBundles
<1> QED BY <1>8, <1>9, <1>10, <1>11, <1>12, <1>13, <1>14

LEMMA BundleTyped ==
  ASSUME DeployTyped, NEW c \in Clients, ClientStep(c)
  PROVE  bundle' \in UiBundles
<1>0. SourcesTyped /\ ClientsTyped /\ bundle \in UiBundles
  BY DEF DeployTyped, ClientsTyped
<1>1. CASE UNCHANGED bundle
  BY <1>0, <1>1
<1>2. CASE Build(c)
  <2>1. PICK t \in BOOLEAN : t = (bundle.torn \/ (Now(c) = UiServer /\ MeetsAnother(c)))
    BY <1>0 DEF UiBundles
  <2>2. bundle' = [bundle EXCEPT !.torn = t]
    BY <1>2, <2>1 DEF Build
  <2> QED BY <1>0, <2>2 DEF UiBundles
<1>3. CASE SyncBundle(c)
  <2>1. deploy[c].step \in 1..7
    <3>1. PICK x : x = deploy[c]
      OBVIOUS
    <3>2. RunOK(c, x) /\ x.at = "syncing"
      BY <1>0, <1>3, <3>1, RunFields DEF SyncBundle, Syncing
    <3> QED BY <3>1, <3>2 DEF RunOK
  <2>2. bundle' = bundle \/ bundle' = SyncStep(deploy[c].step)
    BY <1>3 DEF SyncBundle
  <2> QED BY <1>0, <2>1, <2>2, SyncStepTyped
<1>4. CASE SyncFails(c)
  <2>1. PICK t \in BOOLEAN : t = (bundle.torn \/ bundle.dist = NoBundle)
    BY <1>0 DEF UiBundles
  <2>2. bundle' = [bundle EXCEPT !.torn = t]
    BY <1>4, <2>1 DEF SyncFails
  <2> QED BY <1>0, <2>2 DEF UiBundles
<1> QED BY <1>1, <1>2, <1>3, <1>4, ClientFrame

\* What has moved keeps its type.
LEMMA MovedKept ==
  ASSUME DeployTyped, SourcesTyped', TreeGrows, DoneInv, NEW c \in Clients, NEW r, MayMove(c, r),
         Moves(c, r), asks' \in 0..MaxAsks, asks <= asks', bundle' \in UiBundles,
         UNCHANGED <<mark, answers>>
  PROVE  ClientsTyped' /\ MarkTyped' /\ DoneInv'
<1>0. SourcesTyped /\ ClientsTyped /\ MarkTyped
  BY DEF DeployTyped
<1>1. deploy' \in [Clients -> DeployRuns]
  BY <1>0 DEF MayMove, Moves, ClientsTyped
<1>2. tree.head \in Nat /\ tree'.head \in Nat /\ tree.head <= tree'.head /\ asks \in Nat
  BY <1>0 DEF TreeGrows, SourcesTyped, ClientsTyped
<1>3. ASSUME NEW d \in Clients
      PROVE  RunOK(d, deploy'[d]) /\ deploy'[d].goal <= tree'.head /\ deploy'[d].id <= asks'
  <2>1. CASE d = c
    BY <1>0, <2>1, MovesOne DEF MayMove
  <2>2. CASE d # c
    <3>1. PICK x : x = deploy[d]
      OBVIOUS
    <3>2. x \in DeployRuns /\ RunOK(d, x) /\ x.goal <= tree.head /\ x.id <= asks /\ deploy'[d] = x
      BY <1>0, <2>2, <3>1, RunFields, MovesOne
    <3>3. x.goal \in Nat /\ x.id \in Nat
      BY <3>2 DEF DeployRuns
    <3> QED BY <1>2, <3>2, <3>3
  <2> QED BY <2>1, <2>2
<1>4. ClientsTyped'
  BY <1>1, <1>3 DEF ClientsTyped
<1>5. deploy'[Cron] = deploy[Cron] \/ (c = Cron /\ deploy'[Cron].goal = deploy[Cron].goal
                                       /\ deploy[Cron].at # "idle")
  BY <1>0, CronIsClient, MovesOne DEF MayMove
<1>6. MarkTyped'
  BY <1>0, <1>2, <1>5 DEF MarkTyped
<1>7. ASSUME NEW d \in Clients, NEW id \in deploy'[d].done PROVE Confirmed(id)
  <2>1. CASE d = c
    BY <1>0, <1>7, <2>1, MovesOne DEF MayMove, DoneInv
  <2>2. CASE d # c
    BY <1>0, <1>7, <2>2, MovesOne DEF DoneInv
  <2> QED BY <2>1, <2>2
<1>8. DoneInv'
  BY <1>7 DEF DoneInv, Confirmed
<1> QED BY <1>4, <1>6, <1>8

LEMMA AnswersGrow ==
  ASSUME [DeployNext]_deployVars PROVE answers \subseteq answers'
<1>1. ASSUME NEW c \in Clients, ClientStep(c) PROVE answers' = answers
  BY <1>1, ClientFrame DEF agentVars
<1>2. CASE Merged \/ EditSources \/ CronTick \/ CronEnds \/ UNCHANGED deployVars
  BY <1>2 DEF Merged, EditSources, CronTick, CronEnds, deployVars, agentVars
<1>3. CASE DeployAgentStep
  BY <1>3 DEF DeployAgentStep, TakeStagedAsk, CheckStaged, InstallBuild, InstallFails, StopProcess,
              StartProcess, ProcessFails, AwaitRunning, ConfirmDeploy, SwapVersions, AgentIsLost, Told
<1> QED BY <1>1, <1>2, <1>3 DEF DeployNext

\* The dashboard's requests end with its server, else the agent moves no client.
LEMMA AgentMovesClients ==
  ASSUME DeployTyped, DeployAgentStep
  PROVE  /\ DOMAIN deploy' = Clients
         /\ \A c \in Clients :
              deploy'[c] = deploy[c] \/ (/\ c \in Requests /\ deploy'[c] = AtRun(deploy[c], "lost")
                                         /\ deploy[c].at \in {"staging", "waiting"})
<1>1. DOMAIN deploy = Clients
  BY DEF DeployTyped, ClientsTyped
<1>2. CASE StopProcess
  <2>1. deploy' = [c \in Clients |->
       IF Job.s = UiServer /\ c \in Requests /\ deploy[c].at \in {"staging", "waiting"}
         THEN [deploy[c] EXCEPT !.at = "lost"] ELSE deploy[c]]
    BY <1>2 DEF StopProcess
  <2> QED BY <2>1 DEF AtRun
<1>3. CASE ~StopProcess
  <2>1. deploy' = deploy
    BY <1>3 DEF DeployAgentStep, TakeStagedAsk, CheckStaged, InstallBuild, InstallFails,
                StartProcess, ProcessFails, AwaitRunning, ConfirmDeploy, SwapVersions, AgentIsLost
  <2> QED BY <1>1, <2>1
<1> QED BY <1>2, <1>3

LEMMA ClientsKept ==
  ASSUME DeployTyped, DoneInv, [DeployNext]_deployVars
  PROVE  ClientsTyped' /\ MarkTyped' /\ DoneInv'
<1>0. SourcesTyped /\ ClientsTyped /\ MarkTyped /\ SourcesTyped' /\ TreeGrows /\ asks \in Nat
      /\ asks \in 0..MaxAsks
  BY SourcesKept DEF DeployTyped, ClientsTyped
<1>1. Len(origin) \in Nat /\ tree.head \in Nat /\ tree'.head \in Nat /\ tree.head <= tree'.head
      /\ tree.head <= Len(origin)
  BY <1>0 DEF SourcesTyped, TreeGrows
<1>2. CASE UNCHANGED <<deploy, asks, bundle, mark>>
  <2>1. ASSUME NEW c \in Clients
        PROVE  RunOK(c, deploy[c]) /\ deploy[c].goal <= tree'.head /\ deploy[c].id <= asks
    <3>1. PICK x : x = deploy[c]
      OBVIOUS
    <3>2. x \in DeployRuns /\ RunOK(c, x) /\ x.goal <= tree.head /\ x.id <= asks
      BY <1>0, <3>1, RunFields
    <3>3. x.goal \in Nat
      BY <3>2 DEF DeployRuns
    <3> QED BY <1>1, <3>1, <3>2, <3>3
  <2>2. ClientsTyped'
    BY <1>0, <1>2, <2>1 DEF ClientsTyped
  <2>3. MarkTyped'
    BY <1>0, <1>1, <1>2 DEF MarkTyped
  <2>4. DoneInv'
    BY <1>2, AnswersGrow DEF DoneInv, Confirmed
  <2> QED BY <2>2, <2>3, <2>4
<1>3. CASE Merged \/ EditSources \/ UNCHANGED deployVars
  BY <1>2, <1>3 DEF Merged, EditSources, deployVars
<1>4. ASSUME NEW c \in Clients, ClientStep(c) PROVE ClientsTyped' /\ MarkTyped' /\ DoneInv'
  <2>1. PICK r : MayMove(c, r) /\ Moves(c, r)
    BY <1>0, <1>4, ClientMoves
  <2>2. asks' \in 0..MaxAsks /\ asks <= asks' /\ bundle' \in UiBundles /\ UNCHANGED <<mark, answers>>
    BY <1>0, <1>4, ClientMoves, BundleTyped, ClientFrame DEF agentVars
  <2> QED BY <1>0, <2>1, <2>2, MovedKept
<1>5. CASE CronEnds
  <2>1. PICK x : x = deploy[Cron]
    OBVIOUS
  <2>2. x \in DeployRuns /\ x.goal <= tree.head /\ x.at # "idle" /\ x.goal \in Nat
    BY <1>0, <1>5, <2>1, RunFields, CronIsClient DEF CronEnds, DeployRuns
  <2>3. Moves(Cron, IdleClient) /\ UNCHANGED <<tree, asks, bundle, answers>>
        /\ mark' = [mark EXCEPT !.last = IF x.at = "succeeded" THEN x.goal ELSE @]
    BY <1>5, <2>1 DEF CronEnds, Moves, treeVars, agentVars
  <2>4. IdleClient \in DeployRuns /\ RunOK(Cron, IdleClient) /\ IdleClient.goal = 0
        /\ IdleClient.id = 0 /\ IdleClient.done = {} /\ IdleClient.at = "idle"
    BY IdleRun DEF IdleClient, RunOK, Underway
  <2>5. deploy' \in [Clients -> DeployRuns]
    BY <1>0, <2>3, <2>4, CronIsClient DEF Moves, ClientsTyped
  <2>6. ASSUME NEW d \in Clients
        PROVE  RunOK(d, deploy'[d]) /\ deploy'[d].goal <= tree'.head /\ deploy'[d].id <= asks'
               /\ \A id \in deploy'[d].done : Confirmed(id)
    <3>1. CASE d = Cron
      BY <1>0, <1>1, <2>3, <2>4, <3>1, CronIsClient, MovesOne
    <3>2. CASE d # Cron
      BY <1>0, <2>3, <3>2, CronIsClient, MovesOne, RunFields DEF DoneInv
    <3> QED BY <3>1, <3>2
  <2>7. ClientsTyped'
    BY <1>0, <2>3, <2>5, <2>6 DEF ClientsTyped
  <2>8. deploy'[Cron].at = "idle"
    BY <1>0, <2>3, <2>4, CronIsClient, MovesOne
  <2>9. MarkTyped'
    BY <1>0, <1>1, <2>1, <2>2, <2>3, <2>8 DEF MarkTyped
  <2>10. DoneInv'
    BY <2>3, <2>6 DEF DoneInv, Confirmed
  <2> QED BY <2>7, <2>9, <2>10
<1>6. CASE CronTick
  <2>1. PICK n : n = Len(origin)
    OBVIOUS
  <2>2. deploy[Cron].at = "idle" /\ tree'.head = n /\ n \in Nat /\ UNCHANGED <<asks, bundle, answers>>
    BY <1>0, <1>1, <1>6, <2>1, TickMoves DEF SourcesTyped, agentVars
  <2>3. CASE mark' = [last |-> n, first |-> n] /\ UNCHANGED deploy
    <3>1. ASSUME NEW c \in Clients
          PROVE  RunOK(c, deploy[c]) /\ deploy[c].goal <= n /\ deploy[c].id <= asks
      <4>1. PICK x : x = deploy[c]
        OBVIOUS
      <4>2. x \in DeployRuns /\ RunOK(c, x) /\ x.goal <= tree.head /\ x.id <= asks
        BY <1>0, <4>1, RunFields
      <4>3. x.goal \in Nat
        BY <4>2 DEF DeployRuns
      <4> QED BY <1>1, <2>2, <4>1, <4>2, <4>3
    <3>2. ClientsTyped'
      BY <1>0, <2>2, <2>3, <3>1 DEF ClientsTyped
    <3>3. MarkTyped'
      BY <2>2, <2>3 DEF MarkTyped
    <3>4. DoneInv'
      BY <2>2, <2>3 DEF DoneInv, Confirmed
    <3> QED BY <3>2, <3>3, <3>4
  <2>4. CASE mark.last # -1 /\ UNCHANGED mark /\ Moves(Cron, BegunRun(TargetsFor(Since), n))
    <3>1. PICK todo : todo = TargetsFor(Since)
      OBVIOUS
    <3>2. todo \in Seq(TargetSet)
      BY <3>1, TargetsForIs
    <3>3. PICK r : r = BegunRun(todo, n)
      OBVIOUS
    <3>4. r \in DeployRuns /\ RunOK(Cron, r) /\ r.goal = n /\ r.id = 0 /\ r.done = {}
      BY <2>2, <3>2, <3>3, BegunRunIs, CronIsClient
    <3>5. deploy'[Cron] = r /\ \A d \in Clients : d # Cron => deploy'[d] = deploy[d]
      BY <1>0, <2>4, <3>1, <3>3, MovesOne, CronIsClient
    <3>6. deploy' \in [Clients -> DeployRuns]
      BY <1>0, <2>4, <3>1, <3>3, <3>4, CronIsClient DEF Moves, ClientsTyped
    <3>7. ASSUME NEW d \in Clients
          PROVE  RunOK(d, deploy'[d]) /\ deploy'[d].goal <= n /\ deploy'[d].id <= asks
                 /\ \A id \in deploy'[d].done : Confirmed(id)
      <4>1. CASE d = Cron
        BY <1>0, <2>2, <3>4, <3>5, <4>1
      <4>2. CASE d # Cron
        <5>1. PICK x : x = deploy[d]
          OBVIOUS
        <5>2. x \in DeployRuns /\ RunOK(d, x) /\ x.goal <= tree.head /\ x.id <= asks
              /\ deploy'[d] = x /\ \A id \in x.done : Confirmed(id)
          BY <1>0, <3>5, <4>2, <5>1, RunFields DEF DoneInv
        <5>3. x.goal \in Nat
          BY <5>2 DEF DeployRuns
        <5> QED BY <1>1, <2>1, <2>2, <5>2, <5>3
      <4> QED BY <4>1, <4>2
    <3>8. ClientsTyped'
      BY <1>0, <2>2, <3>6, <3>7 DEF ClientsTyped
    <3>9. mark.last >= 0 /\ mark.last <= n /\ mark.first <= n /\ mark.last \in Int
      BY <1>0, <1>1, <2>1, <2>4 DEF MarkTyped
    <3>10. MarkTyped'
      BY <1>0, <2>2, <2>4, <3>4, <3>5, <3>9 DEF MarkTyped
    <3>11. DoneInv'
      BY <2>2, <3>7 DEF DoneInv, Confirmed
    <3> QED BY <3>8, <3>10, <3>11
  <2> QED BY <1>6, <2>1, <2>3, <2>4, TickMoves
<1>7. CASE DeployAgentStep
  <2>1. UNCHANGED <<treeVars, asks, mark, bundle>>
    BY <1>7, AgentFrame DEF clientVars
  <2>2. ASSUME NEW c \in Clients
        PROVE  /\ deploy'[c] \in DeployRuns /\ RunOK(c, deploy'[c])
               /\ deploy'[c].goal <= tree.head /\ deploy'[c].id <= asks
               /\ \A id \in deploy'[c].done : Confirmed(id)
               /\ c = Cron => deploy'[c] = deploy[c]
    <3>1. PICK x : x = deploy[c]
      OBVIOUS
    <3>2. x \in DeployRuns /\ RunOK(c, x) /\ x.goal <= tree.head /\ x.id <= asks
          /\ \A id \in x.done : Confirmed(id)
      BY <1>0, <3>1, RunFields DEF DoneInv
    <3>3. CASE deploy'[c] = x
      BY <3>1, <3>2, <3>3
    <3>4. CASE c \in Requests /\ deploy'[c] = AtRun(x, "lost")
      <4>1. PICK y : y = AtRun(x, "lost")
        OBVIOUS
      <4>2. y \in DeployRuns /\ RunOK(c, y) /\ y.goal = x.goal /\ y.id = x.id /\ y.done = x.done
        BY <3>2, <4>1, AtRunIs DEF ClientStates, Underway
      <4> QED BY <3>2, <3>4, <4>1, <4>2, DeployAssumption
    <3> QED BY <1>7, <3>1, <3>3, <3>4, AgentMovesClients
  <2>3. deploy' \in [Clients -> DeployRuns]
    <3>1. DOMAIN deploy' = Clients /\ \A c \in Clients : deploy'[c] \in DeployRuns
      BY <1>7, <2>2, AgentMovesClients
    <3>2. deploy' = [c \in Clients |-> deploy'[c]]
      <4>1. CASE StopProcess
        BY <4>1 DEF StopProcess
      <4>2. CASE ~StopProcess
        <5>1. deploy' = deploy
          BY <1>7, <4>2 DEF DeployAgentStep, TakeStagedAsk, CheckStaged, InstallBuild, InstallFails,
                StartProcess, ProcessFails, AwaitRunning, ConfirmDeploy, SwapVersions, AgentIsLost
        <5> QED BY <1>0, <5>1 DEF ClientsTyped
      <4> QED BY <4>1, <4>2
    <3> QED BY <3>1, <3>2
  <2>4. ClientsTyped'
    BY <1>0, <2>1, <2>2, <2>3 DEF ClientsTyped, treeVars
  <2>5. MarkTyped'
    BY <1>0, <2>1, <2>2, CronIsClient DEF MarkTyped, treeVars
  <2>6. DoneInv'
    BY <1>7, <2>2, AnswersGrow DEF DoneInv, Confirmed
  <2> QED BY <2>4, <2>5, <2>6
<1> QED BY <1>3, <1>4, <1>5, <1>6, <1>7 DEF DeployNext

LEMMA NoAskTyped == NoAsk \in StagedAsks /\ AgentAtRest \in AgentJobs
<1>1. Targets[1] \in TargetSet
  <2>1. PICK i \in DOMAIN Targets : Targets[i] = UiServer
    BY DeployAssumption DEF TargetSet, Range
  <2>2. Len(Targets) \in Nat /\ DOMAIN Targets = 1..Len(Targets) /\ Targets \in Seq(TargetSet)
    BY DeployAssumption
  <2>3. 1 \in DOMAIN Targets
    BY <2>1, <2>2
  <2> QED BY <2>2, <2>3
<1>2. <<>> \in DeployVersions
  BY DEF DeployVersions
<1>3. NoAsk \in StagedAsks
  BY <1>1, <1>2, CronIsClient DEF NoAsk, StagedAsks
<1> QED BY <1>3 DEF AgentAtRest, AgentJobs, AgentStates

LEMMA JobFields ==
  ASSUME AgentTyped
  PROVE  /\ agentJob \in AgentJobs /\ agentJob.at \in AgentStates /\ agentJob.seen \in Nat
         /\ Job \in StagedAsks /\ Job.id \in Nat /\ Job.s \in TargetSet /\ Job.hash \in Nat
         /\ Job.version \in DeployVersions /\ Job.by \in Clients
<1>1. agentJob \in AgentJobs
  BY DEF AgentTyped
<1>2. Job \in StagedAsks /\ agentJob.at \in AgentStates /\ agentJob.seen \in Nat
  BY <1>1 DEF AgentJobs, Job
<1> QED BY <1>1, <1>2 DEF StagedAsks

LEMMA TargetFields ==
  ASSUME SourcesTyped, AgentTyped, NEW s \in TargetSet
  PROVE  /\ built[s] \in Nat /\ binary[s] \in Int /\ routed[s] \in DeployVersions
         /\ proc[s] \in DeployProcs /\ proc[s].up \in BOOLEAN /\ proc[s].build \in Int
         /\ proc[s].checked \in Nat /\ proc[s].by \in Clients
<1>1. proc[s] \in DeployProcs
  BY DEF AgentTyped
<1> QED BY <1>1 DEF SourcesTyped, AgentTyped, DeployProcs

\* The agent's job moves on with what it is about.
LEMMA AgentJobMoves ==
  ASSUME AgentTyped, NEW at \in AgentStates, AgentMoves(at)
  PROVE  agentJob' \in AgentJobs /\ agentJob'.at = at /\ agentJob'.ask = Job /\ agentJob'.seen = agentJob.seen
<1>1. PICK j : j = agentJob
  OBVIOUS
<1>2. j \in AgentJobs
  BY <1>1 DEF AgentTyped
<1>3. agentJob' = [j EXCEPT !.at = at]
  BY <1>1 DEF AgentMoves
<1> QED BY <1>1, <1>2, <1>3 DEF AgentJobs, Job

LEMMA JobRests ==
  ASSUME AgentRests
  PROVE  agentJob' \in AgentJobs /\ agentJob'.at = "idle"
BY NoAskTyped DEF AgentRests, AgentAtRest

LEMMA StagedKept ==
  ASSUME DeployTyped, [DeployNext]_deployVars
  PROVE  staged' \in Seq(StagedAsks)
<1>0. ClientsTyped /\ AgentTyped /\ staged \in Seq(StagedAsks) /\ asks \in Nat
  BY DEF DeployTyped, AgentTyped, ClientsTyped
<1>1. CASE UNCHANGED staged
  BY <1>0, <1>1
<1>2. ASSUME NEW c \in Clients, PublishStaged(c) PROVE staged' \in Seq(StagedAsks)
  <2>1. PICK x : x = deploy[c]
    OBVIOUS
  <2>2. x \in DeployRuns /\ Now(c) \in TargetSet
    BY <1>0, <1>2, <2>1, RunFields, HeadOfTodo DEF PublishStaged, Underway
  <2>3. PICK m : m = [id |-> asks + 1, s |-> Now(c), hash |-> x.hash, version |-> x.version, by |-> c]
    OBVIOUS
  <2>4. m \in StagedAsks
    BY <1>0, <2>2, <2>3 DEF StagedAsks, DeployRuns
  <2>5. staged' = Append(staged, m)
    <3>1. asks' = asks + 1
      BY <1>2 DEF PublishStaged
    <3> QED BY <1>2, <2>1, <2>3, <3>1 DEF PublishStaged
  <2> QED BY <1>0, <2>4, <2>5
<1>3. CASE TakeStagedAsk
  <2>1. staged # <<>> /\ staged' = Tail(staged)
    BY <1>3 DEF TakeStagedAsk
  <2> QED BY <1>0, <2>1
<1>4. CASE AgentIsLost
  BY <1>4 DEF AgentIsLost
<1>5. ASSUME NEW c \in Clients, ClientStep(c) PROVE staged' \in Seq(StagedAsks)
  BY <1>1, <1>2, <1>5, ClientFrame
<1>6. CASE DeployAgentStep
  BY <1>1, <1>3, <1>4, <1>6 DEF DeployAgentStep, CheckStaged, InstallBuild, InstallFails,
     StopProcess, StartProcess, ProcessFails, AwaitRunning, ConfirmDeploy, SwapVersions
<1>7. CASE Merged \/ EditSources \/ CronTick \/ CronEnds \/ UNCHANGED deployVars
  BY <1>1, <1>7 DEF Merged, EditSources, CronTick, CronEnds, deployVars
<1> QED BY <1>5, <1>6, <1>7 DEF DeployNext

\* What an agent's job may be about, and what it has seen.
JobOK(j) ==
  /\ j.at = "swapping" => Strategy(j.ask.s) = "swap"
  /\ j.at \notin {"idle", "swapping"} => Strategy(j.ask.s) # "swap"
  /\ j.at \in {"stopping", "starting"} => Strategy(j.ask.s) = "restart"
  /\ j.at = "restarting" => Strategy(j.ask.s) = "python"
  /\ j.at = "awaiting" => Strategy(j.ask.s) \in {"restart", "python"}
  /\ j.at \notin {"idle", "swapping", "checking"} => j.seen = j.ask.hash

Installed == {"stopping", "starting", "restarting", "awaiting", "telling"}

\* No hash is newer than what is built, no build newer than its sources; what the
\* agent has installed is no older than what it was asked for, and what it has
\* started is what it installed.
AskedOf(m) == m.id <= asks /\ m.hash <= built[m.s]
AsksInv ==
  /\ \A i \in DOMAIN staged : AskedOf(staged[i])
  /\ agentJob.at # "idle" => AskedOf(Job)
JobInv ==
  /\ JobOK(agentJob)
  /\ agentJob.at \in Installed => Job.hash <= binary[Job.s]
  /\ agentJob.at = "restarting" => proc[Job.s].build <= binary[Job.s]
  /\ agentJob.at \in {"awaiting", "telling"} /\ Strategy(Job.s) # "canonical" =>
       proc[Job.s].build = binary[Job.s]
TargetInv(s) ==
  /\ built[s] <= Source(s) /\ proc[s].checked <= built[s]
  /\ Strategy(s) \in {"restart", "canonical"} => binary[s] <= built[s]
  /\ Strategy(s) = "python" => binary[s] <= Source(s) /\ proc[s].build <= Source(s)
  /\ Strategy(s) = "restart" => proc[s].build <= binary[s]
AnswerInv(a) ==
  /\ a.id <= asks
  /\ a.how = "confirmed" /\ a.checked => a.seen = a.hash /\ a.got >= a.seen
  /\ a.how = "confirmed" /\ Strategy(a.s) # "swap" => a.checked
AgentInv ==
  /\ AgentTyped /\ AsksInv /\ JobInv
  /\ (\A s \in TargetSet : TargetInv(s)) /\ (\A a \in answers : AnswerInv(a))

\* The build that runs, or that is installed where nothing runs.
RunBuild(s) == IF Strategy(s) = "canonical" THEN binary[s] ELSE proc[s].build
RunGrows ==
  \A s \in TargetSet : Strategy(s) # "swap" => RunBuild(s) <= RunBuild(s)'

LEMMA SourceSame ==
  ASSUME UNCHANGED <<origin, tree>>, NEW s
  PROVE  Source(s)' = Source(s)
BY DEF Source, SourceAt

TargetsInv == \A s \in TargetSet : TargetInv(s)
ToldInv == \A a \in answers : AnswerInv(a)

LEMMA AgentInvIs == AgentInv <=> AgentTyped /\ AsksInv /\ JobInv /\ TargetsInv /\ ToldInv
BY DEF AgentInv, TargetsInv, ToldInv

LEMMA AsksSame ==
  ASSUME AsksInv, UNCHANGED <<asks, built, staged>>,
         agentJob'.at # "idle" => agentJob.at # "idle" /\ agentJob'.ask = Job
  PROVE  AsksInv'
BY DEF AsksInv, AskedOf, Job

LEMMA TargetsSame ==
  ASSUME SourcesTyped, AgentTyped, TargetsInv, UNCHANGED treeVars, NEW s \in TargetSet,
         binary'[s] = binary[s],
         proc'[s].build = proc[s].build, proc'[s].checked = proc[s].checked
  PROVE  TargetInv(s)' /\ RunBuild(s) <= RunBuild(s)'
<1>1. TargetInv(s)
  BY DEF TargetsInv
<1>2. Source(s)' = Source(s) /\ built'[s] = built[s]
  BY SourceSame DEF treeVars
<1>3. TargetInv(s)'
  BY <1>1, <1>2 DEF TargetInv, Strategy
<1>4. binary[s] \in Int /\ proc[s].build \in Int
  BY TargetFields
<1>5. RunBuild(s) <= RunBuild(s)'
  BY <1>4 DEF RunBuild, Strategy
<1> QED BY <1>3, <1>5

LEMMA ToldSame == ASSUME ToldInv, UNCHANGED <<asks, answers>> PROVE ToldInv'
BY DEF ToldInv, AnswerInv, Strategy

\* The job alone moves.
LEMMA JobAlone ==
  ASSUME SourcesTyped, AgentInv, UNCHANGED <<treeVars, asks, staged, binary, proc, routed, answers>>,
         agentJob' \in AgentJobs,
         agentJob'.at # "idle" => agentJob.at # "idle" /\ agentJob'.ask = Job, JobInv'
  PROVE  AgentInv' /\ RunGrows
<1>1. AgentTyped /\ AsksInv /\ TargetsInv /\ ToldInv
  BY AgentInvIs
<1>2. AgentTyped'
  BY <1>1 DEF AgentTyped
<1>3. AsksInv'
  BY <1>1, AsksSame DEF treeVars
<1>4. \A s \in TargetSet : TargetInv(s)' /\ RunBuild(s) <= RunBuild(s)'
  BY <1>1, TargetsSame
<1>5. ToldInv'
  BY <1>1, ToldSame
<1> QED BY <1>2, <1>3, <1>4, <1>5 DEF AgentInv, ToldInv, RunGrows

LEMMA RestKept ==
  ASSUME SourcesTyped, AgentInv, AgentRests,
         UNCHANGED <<treeVars, asks, staged, binary, proc, routed, answers>>
  PROVE  AgentInv' /\ RunGrows
<1>1. agentJob' \in AgentJobs /\ agentJob'.at = "idle"
  BY JobRests
<1>2. JobInv'
  BY <1>1 DEF JobInv, JobOK, Installed
<1> QED BY <1>1, <1>2, JobAlone

LEMMA TakeKept ==
  ASSUME SourcesTyped, AgentInv, TakeStagedAsk, UNCHANGED <<treeVars, asks>>
  PROVE  AgentInv' /\ RunGrows
<1>0. AgentTyped /\ AsksInv /\ TargetsInv /\ ToldInv
  BY AgentInvIs
<1>1. PICK m : m = Head(staged)
  OBVIOUS
<1>2. PICK q : q = staged
  OBVIOUS
<1>3. q \in Seq(StagedAsks) /\ q # <<>>
  BY <1>0, <1>2 DEF AgentTyped, TakeStagedAsk
<1>4. m \in StagedAsks /\ m = q[1] /\ 1 \in DOMAIN q
  BY <1>1, <1>2, <1>3
<1>5. staged' = Tail(q)
  BY <1>2 DEF TakeStagedAsk
<1>6. staged' \in Seq(StagedAsks) /\ \A i \in DOMAIN staged' : i + 1 \in DOMAIN q /\ staged'[i] = q[i + 1]
  BY <1>3, <1>5
<1>7. agentJob' = [at |-> IF Strategy(m.s) = "swap" THEN "swapping" ELSE "checking", ask |-> m, seen |-> 0]
      /\ UNCHANGED <<binary, proc, routed, answers>>
  BY <1>1 DEF TakeStagedAsk
<1>8. agentJob' \in AgentJobs /\ agentJob'.ask = m
      /\ agentJob'.at \in {"swapping", "checking"} /\ (agentJob'.at = "swapping" <=> Strategy(m.s) = "swap")
  BY <1>4, <1>7 DEF AgentJobs, AgentStates
<1>9. AgentTyped'
  BY <1>0, <1>6, <1>7, <1>8 DEF AgentTyped
<1>10. AsksInv'
  <2>1. \A i \in DOMAIN q : AskedOf(q[i])
    BY <1>0, <1>2 DEF AsksInv
  <2>2. \A i \in DOMAIN staged' : AskedOf(staged'[i])
    BY <1>6, <2>1
  <2>3. AskedOf(m)
    BY <1>4, <2>1
  <2> QED BY <1>8, <2>2, <2>3 DEF AsksInv, AskedOf, Job, treeVars
<1>11. JobInv'
  BY <1>8 DEF JobInv, JobOK, Installed, Job, Strategy
<1>12. \A s \in TargetSet : TargetInv(s)' /\ RunBuild(s) <= RunBuild(s)'
  BY <1>0, <1>7, TargetsSame
<1>13. ToldInv'
  BY <1>0, <1>7, ToldSame
<1> QED BY <1>9, <1>10, <1>11, <1>12, <1>13 DEF AgentInv, ToldInv, RunGrows

LEMMA CheckKept ==
  ASSUME SourcesTyped, AgentInv, CheckStaged, UNCHANGED <<treeVars, asks>>
  PROVE  AgentInv' /\ RunGrows
<1>0. AgentTyped /\ JobInv /\ agentJob.at = "checking" /\ UNCHANGED <<staged, binary, proc, routed, answers>>
  BY DEF AgentInv, CheckStaged, AgentAt
<1>1. CASE AgentRests
  BY <1>0, <1>1, RestKept
<1>2. CASE agentJob' = [agentJob EXCEPT !.at = "installing", !.seen = Job.hash]
  <2>1. PICK j : j = agentJob
    OBVIOUS
  <2>2. j \in AgentJobs /\ j.ask = Job /\ Job.hash \in Nat /\ Strategy(j.ask.s) # "swap"
    BY <1>0, <2>1, JobFields DEF Job, JobInv, JobOK
  <2>3. agentJob' \in AgentJobs /\ agentJob'.at = "installing" /\ agentJob'.seen = Job.hash /\ agentJob'.ask = Job
    BY <1>2, <2>1, <2>2 DEF AgentJobs, AgentStates
  <2>4. JobInv'
    BY <2>2, <2>3 DEF JobInv, JobOK, Installed, Job, Strategy
  <2> QED BY <1>0, <2>3, <2>4, JobAlone
<1> QED BY <1>1, <1>2 DEF CheckStaged

\* What is installed or started is of the target asked for alone.
LEMMA InstallKept ==
  ASSUME SourcesTyped, AgentInv, InstallBuild, UNCHANGED <<treeVars, asks>>
  PROVE  AgentInv' /\ RunGrows
<1>0. AgentTyped /\ AsksInv /\ JobInv /\ TargetsInv /\ ToldInv /\ agentJob.at = "installing"
      /\ UNCHANGED <<staged, proc, routed, answers>>
  BY AgentInvIs DEF InstallBuild, AgentAt
<1>1. PICK s : s = Job.s
  OBVIOUS
<1>2. s \in TargetSet /\ Strategy(s) \in {"restart", "python", "canonical"} /\ Job.hash \in Nat
  BY <1>0, <1>1, JobFields, DeployAssumption DEF JobInv, JobOK, Job, Strategy
<1>3. PICK b : b = IF Strategy(s) = "python" THEN Source(s) ELSE built[s]
  OBVIOUS
<1>4. binary' = [binary EXCEPT ![s] = b]
  BY <1>1, <1>3 DEF InstallBuild
<1>5. TargetInv(s) /\ Source(s) \in Nat /\ built[s] \in Nat /\ binary[s] \in Int /\ proc[s].build \in Int
      /\ proc[s].checked \in Nat
  BY <1>0, <1>2, SourceIs, TargetFields DEF TargetsInv
<1>6. b \in Nat /\ b <= Source(s) /\ binary[s] <= b /\ Job.hash <= b
      /\ (Strategy(s) # "python" => b = built[s]) /\ (Strategy(s) \in {"restart", "python"} => proc[s].build <= b)
  <2>1. Job.hash <= built[s]
    BY <1>0, <1>1 DEF AsksInv, AskedOf
  <2> QED BY <1>2, <1>3, <1>5, <2>1 DEF TargetInv
<1>7. binary' \in [TargetSet -> Int] /\ binary'[s] = b /\ \A t \in TargetSet : t # s => binary'[t] = binary[t]
  <2>1. binary \in [TargetSet -> Int] /\ b \in Int
    BY <1>0, <1>6 DEF AgentTyped
  <2> QED BY <1>2, <1>4, <2>1
<1>8. PICK at \in {"stopping", "restarting", "telling"} :
        /\ AgentMoves(at) /\ (at = "stopping" => Strategy(s) = "restart")
        /\ (at = "restarting" => Strategy(s) = "python") /\ (at = "telling" => Strategy(s) = "canonical")
  BY <1>1, <1>2 DEF InstallBuild
<1>9. agentJob' \in AgentJobs /\ agentJob'.at = at /\ agentJob'.ask = Job /\ agentJob'.seen = agentJob.seen
  BY <1>0, <1>8, AgentJobMoves DEF AgentStates
<1>10. AgentTyped'
  BY <1>0, <1>7, <1>9 DEF AgentTyped
<1>11. AsksInv'
  BY <1>0, <1>9, AsksSame DEF treeVars
<1>12. JobInv'
  <2>1. agentJob.seen = Job.hash
    BY <1>0 DEF JobInv, JobOK, Job
  <2>2. Job' = Job /\ Job'.s = s
    BY <1>1, <1>9 DEF Job
  <2>3. JobOK(agentJob')
    BY <1>1, <1>2, <1>8, <1>9, <2>1 DEF JobOK
  <2>4. Strategy(s)' = Strategy(s)
    BY DEF Strategy
  <2> QED BY <1>0, <1>2, <1>6, <1>7, <1>8, <1>9, <2>2, <2>3, <2>4 DEF JobInv, JobOK, Strategy
<1>13. TargetInv(s)' /\ RunBuild(s) <= RunBuild(s)'
  <2>1. Source(s)' = Source(s) /\ built'[s] = built[s]
    BY SourceSame DEF treeVars
  <2> QED BY <1>0, <1>2, <1>5, <1>6, <1>7, <2>1 DEF TargetInv, RunBuild, Strategy
<1>14. \A t \in TargetSet : t # s => TargetInv(t)' /\ RunBuild(t) <= RunBuild(t)'
  BY <1>0, <1>7, TargetsSame
<1>15. ToldInv'
  BY <1>0, ToldSame
<1> QED BY <1>10, <1>11, <1>12, <1>13, <1>14, <1>15 DEF AgentInv, ToldInv, RunGrows

\* A Python install that is cut short leaves a mixture, else nothing changes.
LEMMA CutKept ==
  ASSUME SourcesTyped, AgentInv, CutShort, AgentRests,
         staged' \in {staged, <<>>}, UNCHANGED <<treeVars, asks, proc, routed, answers>>
  PROVE  AgentInv' /\ RunGrows
<1>0. AgentTyped /\ AsksInv /\ TargetsInv /\ ToldInv /\ JobInv
  BY AgentInvIs
<1>1. agentJob' \in AgentJobs /\ agentJob'.at = "idle"
  BY JobRests
<1>2. staged' \in Seq(StagedAsks) /\ \A i \in DOMAIN staged' : AskedOf(staged'[i])
  <2>1. CASE staged' = staged
    BY <1>0, <2>1 DEF AgentTyped, AsksInv
  <2>2. CASE staged' = <<>>
    BY <2>2
  <2> QED BY <2>1, <2>2
<1>3. AsksInv'
  BY <1>1, <1>2 DEF AsksInv, AskedOf, treeVars
<1>4. JobInv'
  BY <1>1 DEF JobInv, JobOK, Installed
<1>5. ToldInv'
  BY <1>0, ToldSame
<1>6. PICK s \in TargetSet : s = Job.s
  BY <1>0, JobFields
<1>7. binary \in [TargetSet -> Int] /\ Mixed \in Int /\ Mixed = -1
  BY <1>0 DEF AgentTyped, Mixed
<1>8. /\ binary' \in [TargetSet -> Int]
      /\ \A t \in TargetSet : binary'[t] = binary[t] \/ (Strategy(t) = "python" /\ binary'[t] = -1)
  BY <1>6, <1>7 DEF CutShort
<1>9. AgentTyped'
  BY <1>0, <1>1, <1>2, <1>8 DEF AgentTyped
<1>10. ASSUME NEW t \in TargetSet PROVE TargetInv(t)' /\ RunBuild(t) <= RunBuild(t)'
  <2>1. CASE binary'[t] = binary[t]
    BY <1>0, <2>1, TargetsSame
  <2>2. CASE Strategy(t) = "python" /\ binary'[t] = -1
    <3>1. TargetInv(t) /\ Source(t) \in Nat /\ proc[t].build \in Int
      BY <1>0, SourceIs, TargetFields DEF TargetsInv
    <3>2. Source(t)' = Source(t) /\ built'[t] = built[t]
      BY SourceSame DEF treeVars
    <3> QED BY <2>2, <3>1, <3>2 DEF TargetInv, RunBuild, Strategy
  <2> QED BY <1>8, <2>1, <2>2
<1> QED BY <1>3, <1>4, <1>5, <1>9, <1>10 DEF AgentInv, ToldInv, RunGrows

\* The process of one target changes.
LEMMA ProcMoves ==
  ASSUME AgentTyped, NEW s \in TargetSet, NEW p \in DeployProcs, proc' = [proc EXCEPT ![s] = p]
  PROVE  /\ proc' \in [TargetSet -> DeployProcs] /\ proc'[s] = p
         /\ \A t \in TargetSet : t # s => proc'[t] = proc[t]
BY DEF AgentTyped

LEMMA UpDown ==
  ASSUME AgentTyped, NEW s \in TargetSet, NEW u \in BOOLEAN, proc' = [proc EXCEPT ![s].up = u]
  PROVE  /\ proc' \in [TargetSet -> DeployProcs]
         /\ \A t \in TargetSet : proc'[t].build = proc[t].build /\ proc'[t].checked = proc[t].checked
                                 /\ proc'[t].by = proc[t].by
<1>1. PICK p : p = proc[s]
  OBVIOUS
<1>2. p \in DeployProcs /\ proc \in [TargetSet -> DeployProcs]
  BY <1>1 DEF AgentTyped
<1>3. PICK q : q = [p EXCEPT !.up = u]
  OBVIOUS
<1>4. q \in DeployProcs /\ q.build = p.build /\ q.checked = p.checked /\ q.by = p.by
  BY <1>2, <1>3 DEF DeployProcs
<1>5. proc' = [proc EXCEPT ![s] = q]
  BY <1>1, <1>3
<1> QED BY <1>1, <1>2, <1>4, <1>5

LEMMA StopProcessKept ==
  ASSUME SourcesTyped, AgentInv, StopProcess, UNCHANGED <<treeVars, asks>>
  PROVE  AgentInv' /\ RunGrows
<1>0. AgentTyped /\ AsksInv /\ JobInv /\ TargetsInv /\ ToldInv /\ agentJob.at = "stopping"
      /\ UNCHANGED <<staged, binary, routed, answers>>
  BY AgentInvIs DEF StopProcess, AgentAt
<1>1. PICK s \in TargetSet : s = Job.s
  BY <1>0, JobFields
<1>2. proc' = [proc EXCEPT ![s].up = FALSE] /\ AgentMoves("starting")
  BY <1>1 DEF StopProcess
<1>3. proc' \in [TargetSet -> DeployProcs]
      /\ \A t \in TargetSet : proc'[t].build = proc[t].build /\ proc'[t].checked = proc[t].checked
  BY <1>0, <1>2, UpDown
<1>4. agentJob' \in AgentJobs /\ agentJob'.at = "starting" /\ agentJob'.ask = Job
      /\ agentJob'.seen = agentJob.seen
  BY <1>0, <1>2, AgentJobMoves DEF AgentStates
<1>5. AgentTyped'
  BY <1>0, <1>3, <1>4 DEF AgentTyped
<1>6. AsksInv'
  BY <1>0, <1>4, AsksSame DEF treeVars
<1>7. JobInv'
  BY <1>0, <1>4 DEF JobInv, JobOK, Installed, Job, Strategy
<1>8. \A t \in TargetSet : TargetInv(t)' /\ RunBuild(t) <= RunBuild(t)'
  BY <1>0, <1>3, TargetsSame
<1>9. ToldInv'
  BY <1>0, ToldSame
<1> QED BY <1>5, <1>6, <1>7, <1>8, <1>9 DEF AgentInv, ToldInv, RunGrows

LEMMA StartKept ==
  ASSUME SourcesTyped, AgentInv, StartProcess, UNCHANGED <<treeVars, asks>>
  PROVE  AgentInv' /\ RunGrows
<1>0. AgentTyped /\ AsksInv /\ JobInv /\ TargetsInv /\ ToldInv
      /\ agentJob.at \in {"starting", "restarting"} /\ UNCHANGED <<staged, binary, routed, answers>>
  BY AgentInvIs DEF StartProcess
<1>1. PICK s \in TargetSet : s = Job.s
  BY <1>0, JobFields
<1>2. PICK b : b = binary[s]
  OBVIOUS
<1>3. /\ agentJob.seen = Job.hash /\ Strategy(s) \in {"restart", "python"} /\ Job.hash <= b
      /\ agentJob.at = "restarting" => Strategy(s) = "python" /\ proc[s].build <= b
      /\ agentJob.at = "starting" => Strategy(s) = "restart"
  BY <1>0, <1>1, <1>2 DEF JobInv, JobOK, Installed, Job
<1>4. TargetInv(s) /\ Source(s) \in Nat /\ built[s] \in Nat /\ b \in Int /\ proc[s].build \in Int
      /\ Job.hash \in Nat /\ Job.by \in Clients /\ Job.hash <= built[s]
  BY <1>0, <1>1, <1>2, SourceIs, TargetFields, JobFields DEF TargetsInv, AsksInv, AskedOf
<1>5. PICK p : p = [up |-> TRUE, build |-> b, checked |-> Job.hash, by |-> Job.by]
  OBVIOUS
<1>6. p \in DeployProcs /\ p.build = b /\ p.checked = Job.hash
  BY <1>4, <1>5 DEF DeployProcs
<1>7. proc' = [proc EXCEPT ![s] = p] /\ AgentMoves("awaiting")
  BY <1>1, <1>2, <1>3, <1>5 DEF StartProcess
<1>8. proc' \in [TargetSet -> DeployProcs] /\ proc'[s] = p /\ \A t \in TargetSet : t # s => proc'[t] = proc[t]
  BY <1>0, <1>6, <1>7, ProcMoves
<1>9. agentJob' \in AgentJobs /\ agentJob'.at = "awaiting" /\ agentJob'.ask = Job
      /\ agentJob'.seen = agentJob.seen
  BY <1>0, <1>7, AgentJobMoves DEF AgentStates
<1>10. AgentTyped'
  BY <1>0, <1>8, <1>9 DEF AgentTyped
<1>11. AsksInv'
  BY <1>0, <1>9, AsksSame DEF treeVars
<1>12. JobInv'
  <2>1. Job' = Job /\ Job'.s = s
    BY <1>1, <1>9 DEF Job
  <2>2. JobOK(agentJob')
    BY <1>1, <1>3, <1>9 DEF JobOK, Job
  <2>3. proc'[s].build = binary'[s] /\ Job.hash <= binary'[s]
    BY <1>0, <1>2, <1>3, <1>6, <1>8
  <2> QED BY <1>9, <2>1, <2>2, <2>3 DEF JobInv, JobOK, Strategy
<1>13. TargetInv(s)' /\ RunBuild(s) <= RunBuild(s)'
  <2>1. Source(s)' = Source(s) /\ built'[s] = built[s] /\ binary'[s] = b
    BY <1>0, <1>2, SourceSame DEF treeVars
  <2>2. proc[s].build <= b
    BY <1>0, <1>2, <1>3, <1>4 DEF TargetInv
  <2> QED BY <1>2, <1>3, <1>4, <1>6, <1>8, <2>1, <2>2 DEF TargetInv, RunBuild, Strategy
<1>14. \A t \in TargetSet : t # s => TargetInv(t)' /\ RunBuild(t) <= RunBuild(t)'
  BY <1>0, <1>8, TargetsSame
<1>15. ToldInv'
  BY <1>0, ToldSame
<1> QED BY <1>10, <1>11, <1>12, <1>13, <1>14, <1>15 DEF AgentInv, ToldInv, RunGrows

LEMMA ProcessFailsKept ==
  ASSUME SourcesTyped, AgentInv, ProcessFails, UNCHANGED <<treeVars, asks>>
  PROVE  AgentInv' /\ RunGrows
<1>0. AgentTyped /\ AsksInv /\ TargetsInv /\ ToldInv /\ AgentRests
      /\ UNCHANGED <<staged, binary, routed, answers>>
  BY AgentInvIs DEF ProcessFails
<1>1. CASE UNCHANGED proc
  BY <1>0, <1>1, RestKept
<1>2. CASE proc' = [proc EXCEPT ![Job.s].up = FALSE]
  <2>1. PICK s \in TargetSet : s = Job.s
    BY <1>0, JobFields
  <2>2. proc' = [proc EXCEPT ![s].up = FALSE]
    BY <1>2, <2>1
  <2>3. proc' \in [TargetSet -> DeployProcs]
        /\ \A t \in TargetSet : proc'[t].build = proc[t].build /\ proc'[t].checked = proc[t].checked
    BY <1>0, <2>2, UpDown
  <2>4. agentJob' \in AgentJobs /\ agentJob'.at = "idle"
    BY <1>0, JobRests
  <2>5. AgentTyped'
    BY <1>0, <2>3, <2>4 DEF AgentTyped
  <2>6. AsksInv'
    BY <1>0, <2>4, AsksSame DEF treeVars
  <2>7. JobInv'
    BY <2>4 DEF JobInv, JobOK, Installed
  <2>8. \A t \in TargetSet : TargetInv(t)' /\ RunBuild(t) <= RunBuild(t)'
    BY <1>0, <2>3, TargetsSame
  <2>9. ToldInv'
    BY <1>0, ToldSame
  <2> QED BY <2>5, <2>6, <2>7, <2>8, <2>9 DEF AgentInv, ToldInv, RunGrows
<1> QED BY <1>1, <1>2 DEF ProcessFails

LEMMA AwaitKept ==
  ASSUME SourcesTyped, AgentInv, AwaitRunning, UNCHANGED <<treeVars, asks>>
  PROVE  AgentInv' /\ RunGrows
<1>0. AgentTyped /\ JobInv /\ agentJob.at = "awaiting" /\ AgentMoves("telling")
      /\ UNCHANGED <<staged, binary, proc, routed, answers>>
  BY DEF AgentInv, AwaitRunning, AgentAt
<1>1. agentJob' \in AgentJobs /\ agentJob'.at = "telling" /\ agentJob'.ask = Job
      /\ agentJob'.seen = agentJob.seen
  BY <1>0, AgentJobMoves DEF AgentStates
<1>2. JobInv'
  BY <1>0, <1>1 DEF JobInv, JobOK, Installed, Job, Strategy
<1> QED BY <1>0, <1>1, <1>2, JobAlone

\* The agent tells how its job ended.
LEMMA ToldKept ==
  ASSUME AgentTyped, AsksInv, ToldInv, UNCHANGED asks, agentJob.at # "idle",
         NEW how \in {"confirmed", "rolled back", "failed"}, NEW checked \in BOOLEAN,
         NEW saw \in Nat, NEW got \in Int, Told(how, checked, saw, got),
         how = "confirmed" /\ checked => saw = Job.hash /\ got >= saw,
         how = "confirmed" /\ Strategy(Job.s) # "swap" => checked
  PROVE  answers' \subseteq DeployAnswers /\ ToldInv'
<1>1. PICK a : a = [id |-> Job.id, s |-> Job.s, how |-> how, checked |-> checked, hash |-> Job.hash,
                    seen |-> saw, got |-> got]
  OBVIOUS
<1>2. answers' = answers \union {a}
  BY <1>1 DEF Told
<1>3. a \in DeployAnswers
  BY <1>1, JobFields DEF DeployAnswers
<1>4. AnswerInv(a)
  BY <1>1 DEF AnswerInv, AsksInv, AskedOf
<1>5. \A b \in answers' : AnswerInv(b)
  BY <1>2, <1>4 DEF ToldInv
<1>6. ToldInv'
  BY <1>5 DEF ToldInv, AnswerInv, Strategy
<1> QED BY <1>2, <1>3, <1>6 DEF AgentTyped

LEMMA ConfirmKept ==
  ASSUME SourcesTyped, AgentInv, ConfirmDeploy, UNCHANGED <<treeVars, asks>>
  PROVE  AgentInv' /\ RunGrows
<1>0. AgentTyped /\ AsksInv /\ JobInv /\ TargetsInv /\ ToldInv /\ AgentRests
      /\ agentJob.at = "telling" /\ UNCHANGED <<staged, binary, proc, routed>>
  BY AgentInvIs DEF ConfirmDeploy, AgentAt
<1>1. CASE UNCHANGED answers
  BY <1>0, <1>1, RestKept
<1>2. CASE Told("confirmed", TRUE, agentJob.seen, binary[Job.s])
  <2>1. agentJob.seen \in Nat /\ binary[Job.s] \in Int /\ agentJob.seen = Job.hash
        /\ binary[Job.s] >= agentJob.seen
    BY <1>0, JobFields, TargetFields DEF JobInv, JobOK, Installed, Job
  <2>2. answers' \subseteq DeployAnswers /\ ToldInv'
    BY <1>0, <1>2, <2>1, ToldKept
  <2>4. agentJob' \in AgentJobs /\ agentJob'.at = "idle"
    BY <1>0, JobRests
  <2>5. AgentTyped'
    BY <1>0, <2>2, <2>4 DEF AgentTyped
  <2>6. AsksInv'
    BY <1>0, <2>4, AsksSame DEF treeVars
  <2>7. JobInv'
    BY <2>4 DEF JobInv, JobOK, Installed
  <2>8. \A t \in TargetSet : TargetInv(t)' /\ RunBuild(t) <= RunBuild(t)'
    BY <1>0, TargetsSame
  <2> QED BY <2>2, <2>5, <2>6, <2>7, <2>8 DEF AgentInv, ToldInv, RunGrows
<1> QED BY <1>1, <1>2 DEF ConfirmDeploy

LEMMA SwapKept ==
  ASSUME SourcesTyped, AgentInv, SwapVersions, UNCHANGED <<treeVars, asks>>
  PROVE  AgentInv' /\ RunGrows
<1>0. AgentTyped /\ AsksInv /\ JobInv /\ TargetsInv /\ ToldInv /\ AgentRests
      /\ agentJob.at = "swapping" /\ UNCHANGED <<staged, binary>>
  BY AgentInvIs DEF SwapVersions, AgentAt
<1>1. PICK s \in TargetSet : s = Job.s
  BY <1>0, JobFields
<1>2. Strategy(s) = "swap" /\ Job.hash \in Nat /\ Job.version \in DeployVersions /\ Job.by \in Clients
      /\ Job.hash <= built[s]
  BY <1>0, <1>1, JobFields DEF JobInv, JobOK, Job, AsksInv, AskedOf
<1>3. TargetInv(s) /\ built[s] \in Nat /\ proc[s].build \in Int /\ proc[s].checked \in Nat
  BY <1>0, TargetFields DEF TargetsInv
<1>4. agentJob' \in AgentJobs /\ agentJob'.at = "idle"
  BY <1>0, JobRests
<1>5. PICK p : p = [up |-> TRUE, build |-> built[s], checked |-> Job.hash, by |-> Job.by]
  OBVIOUS
<1>6. p \in DeployProcs /\ p.checked = Job.hash
  BY <1>2, <1>3, <1>5 DEF DeployProcs
<1>7. \/ UNCHANGED <<proc, routed>>
      \/ proc' = [proc EXCEPT ![s] = p] /\ routed' = [routed EXCEPT ![s] = Job.version]
  BY <1>1, <1>5 DEF SwapVersions
<1>8. \/ UNCHANGED answers
      \/ Told("confirmed", FALSE, Job.hash, proc[s].build)
      \/ built[s] = Job.hash /\ Told("confirmed", TRUE, Job.hash, built[s])
      \/ Told("rolled back", TRUE, 0, 0)
      \/ Told("failed", TRUE, 0, 0)
  BY <1>1 DEF SwapVersions
<1>9. answers' \subseteq DeployAnswers /\ ToldInv'
  <2>1. CASE UNCHANGED answers
    BY <1>0, <2>1, ToldSame DEF AgentTyped
  <2>2. CASE Told("confirmed", FALSE, Job.hash, proc[s].build)
    BY <1>0, <1>1, <1>2, <1>3, <2>2, ToldKept
  <2>3. CASE built[s] = Job.hash /\ Told("confirmed", TRUE, Job.hash, built[s])
    <3>1. PICK b \in Nat : b = built[s] /\ b = Job.hash
      BY <1>3, <2>3
    <3>2. b >= b /\ b \in Int /\ TRUE \in BOOLEAN
      OBVIOUS
    <3>3. Told("confirmed", TRUE, b, b)
      BY <2>3, <3>1
    <3> QED BY <1>0, <3>1, <3>2, <3>3, ToldKept
  <2>4. CASE Told("rolled back", TRUE, 0, 0)
    <3>1. 0 \in Nat /\ 0 \in Int /\ TRUE \in BOOLEAN
      OBVIOUS
    <3> QED BY <1>0, <2>4, <3>1, ToldKept
  <2>5. CASE Told("failed", TRUE, 0, 0)
    <3>1. 0 \in Nat /\ 0 \in Int /\ TRUE \in BOOLEAN
      OBVIOUS
    <3> QED BY <1>0, <2>5, <3>1, ToldKept
  <2> QED BY <1>8, <2>1, <2>2, <2>3, <2>4, <2>5
<1>10. AsksInv'
  BY <1>0, <1>4, AsksSame DEF treeVars
<1>11. JobInv'
  BY <1>4 DEF JobInv, JobOK, Installed
<1>12. CASE UNCHANGED <<proc, routed>>
  <2>1. AgentTyped'
    BY <1>0, <1>4, <1>9, <1>12 DEF AgentTyped
  <2>2. \A t \in TargetSet : TargetInv(t)' /\ RunBuild(t) <= RunBuild(t)'
    BY <1>0, <1>12, TargetsSame
  <2> QED BY <1>9, <1>10, <1>11, <2>1, <2>2 DEF AgentInv, ToldInv, RunGrows
<1>13. CASE proc' = [proc EXCEPT ![s] = p] /\ routed' = [routed EXCEPT ![s] = Job.version]
  <2>1. proc' \in [TargetSet -> DeployProcs] /\ proc'[s] = p
        /\ \A t \in TargetSet : t # s => proc'[t] = proc[t]
    BY <1>0, <1>6, <1>13, ProcMoves
  <2>2. routed' \in [TargetSet -> DeployVersions]
    BY <1>0, <1>2, <1>13 DEF AgentTyped
  <2>3. AgentTyped'
    BY <1>0, <1>4, <1>9, <2>1, <2>2 DEF AgentTyped
  <2>4. TargetInv(s)'
    <3>1. Source(s)' = Source(s) /\ built'[s] = built[s]
      BY SourceSame DEF treeVars
    <3> QED BY <1>2, <1>3, <1>6, <2>1, <3>1 DEF TargetInv, Strategy
  <2>5. \A t \in TargetSet : t # s => TargetInv(t)' /\ RunBuild(t) <= RunBuild(t)'
    BY <1>0, <2>1, TargetsSame
  <2> QED BY <1>2, <1>9, <1>10, <1>11, <2>3, <2>4, <2>5 DEF AgentInv, ToldInv, RunGrows
<1> QED BY <1>7, <1>12, <1>13

\* Every step of the agent.
LEMMA AgentKept ==
  ASSUME SourcesTyped, AgentInv, DeployAgentStep
  PROVE  AgentInv' /\ RunGrows
<1>1. UNCHANGED <<treeVars, asks>>
  BY AgentFrame DEF clientVars
<1>2. CASE InstallFails
  BY <1>1, <1>2, CutKept DEF InstallFails
<1>3. CASE AgentIsLost
  BY <1>1, <1>3, CutKept DEF AgentIsLost
<1> QED
  BY <1>1, <1>2, <1>3, TakeKept, CheckKept, InstallKept, StopProcessKept, StartKept, ProcessFailsKept,
     AwaitKept, ConfirmKept, SwapKept DEF DeployAgentStep

\* A client that is about to ask has a hash of what is built.
HashInv ==
  \A c \in Clients : deploy[c].at = "staging" => deploy[c].hash <= built[Now(c)]

\* A step of anybody else leaves the agent alone; builds and asks only grow.
LEMMA AgentLeft ==
  ASSUME SourcesTyped, SourcesTyped', TreeGrows, AgentInv, asks \in Nat, asks' \in Nat, asks <= asks',
         UNCHANGED agentVars,
         \/ UNCHANGED staged
         \/ \E m \in StagedAsks : /\ staged' = Append(staged, m) /\ m.id = asks'
                                  /\ m.hash <= built[m.s]
  PROVE  AgentInv' /\ RunGrows
<1>0. AgentTyped /\ AsksInv /\ JobInv /\ TargetsInv /\ ToldInv
      /\ UNCHANGED <<agentJob, binary, proc, routed, answers>>
  BY AgentInvIs DEF agentVars
<1>1. ASSUME NEW s \in TargetSet
      PROVE  built[s] \in Nat /\ built'[s] \in Nat /\ Source(s) \in Nat /\ Source(s)' \in Nat
             /\ built[s] <= built'[s] /\ built'[s] <= Source(s)' /\ Source(s) <= Source(s)'
  <2>1. built[s] \in Nat /\ built'[s] \in Nat /\ Source(s) \in Nat
    BY SourceIs DEF SourcesTyped
  <2>2. Source(s)' \in Nat
    <3>1. LastTouch(origin', s, tree'.head) \in Nat
      <4>1. tree'.head \in Nat
        BY DEF SourcesTyped
      <4> QED BY <4>1, LastTouchIs
    <3>2. Source(s)' = 2 * LastTouch(origin', s, tree'.head) + (IF s \in tree'.edits THEN 1 ELSE 0)
      BY DEF Source, SourceAt, LastTouch
    <3> QED BY <3>1, <3>2
  <2>3. Source(s) <= Source(s)'
    BY SourceGrows
  <2>4. built'[s] = built[s] \/ built'[s] = Source(s)
    BY DEF TreeGrows
  <2>5. built[s] <= Source(s)
    BY <1>0 DEF TargetsInv, TargetInv
  <2> QED BY <2>1, <2>2, <2>3, <2>4, <2>5
<1>2. ASSUME NEW m \in StagedAsks, AskedOf(m) PROVE m.id <= asks' /\ m.hash <= built'[m.s]
  <2>1. m.id \in Nat /\ m.hash \in Nat /\ m.s \in TargetSet
    BY <1>2 DEF StagedAsks
  <2> QED BY <1>1, <1>2, <2>1 DEF AskedOf
<1>3. staged' \in Seq(StagedAsks) /\ \A i \in DOMAIN staged' : staged'[i].id <= asks' /\ staged'[i].hash <= built'[staged'[i].s]
  <2>1. PICK q : q = staged
    OBVIOUS
  <2>2. q \in Seq(StagedAsks) /\ \A i \in DOMAIN q : q[i] \in StagedAsks /\ AskedOf(q[i])
    BY <1>0, <2>1 DEF AgentTyped, AsksInv
  <2>3. CASE staged' = q
    BY <1>2, <2>2, <2>3
  <2>4. ASSUME NEW m \in StagedAsks, staged' = Append(q, m), m.id = asks', m.hash <= built[m.s]
        PROVE  staged' \in Seq(StagedAsks) /\ \A i \in DOMAIN staged' : staged'[i].id <= asks' /\ staged'[i].hash <= built'[staged'[i].s]
    <3>1. staged' \in Seq(StagedAsks) /\ \A i \in DOMAIN staged' : staged'[i] = m \/ (i \in DOMAIN q /\ staged'[i] = q[i])
      BY <2>2, <2>4
    <3>2. m.id <= asks' /\ m.hash <= built'[m.s]
      <4>1. m.hash \in Nat /\ m.s \in TargetSet
        BY DEF StagedAsks
      <4> QED BY <1>1, <2>4, <4>1
    <3> QED BY <1>2, <2>2, <3>1, <3>2
  <2> QED BY <2>1, <2>3, <2>4
<1>4. AgentTyped'
  BY <1>0, <1>3 DEF AgentTyped
<1>5. AsksInv'
  <2>1. Job \in StagedAsks
    BY <1>0, JobFields
  <2>2. agentJob.at # "idle" => Job.id <= asks' /\ Job.hash <= built'[Job.s]
    BY <1>0, <1>2, <2>1 DEF AsksInv
  <2> QED BY <1>0, <1>3, <2>2 DEF AsksInv, AskedOf, Job
<1>6. JobInv'
  BY <1>0 DEF JobInv, JobOK, Job, Strategy
<1>7. ASSUME NEW s \in TargetSet PROVE TargetInv(s)' /\ RunBuild(s) <= RunBuild(s)'
  <2>1. TargetInv(s) /\ binary[s] \in Int /\ proc[s].build \in Int /\ proc[s].checked \in Nat
    BY <1>0, TargetFields DEF TargetsInv
  <2>2. TargetInv(s)'
    BY <1>0, <1>1, <2>1 DEF TargetInv, Strategy
  <2>3. RunBuild(s) <= RunBuild(s)'
    BY <1>0, <2>1 DEF RunBuild, Strategy
  <2> QED BY <2>2, <2>3
<1>8. ToldInv'
  <2>1. ASSUME NEW a \in answers PROVE a.id <= asks'
    <3>1. a \in DeployAnswers /\ a.id <= asks
      BY <1>0 DEF AgentTyped, ToldInv, AnswerInv
    <3>2. a.id \in Nat
      BY <3>1 DEF DeployAnswers
    <3> QED BY <3>1, <3>2
  <2> QED BY <1>0, <2>1 DEF ToldInv, AnswerInv, Strategy
<1> QED BY <1>4, <1>5, <1>6, <1>7, <1>8 DEF AgentInv, ToldInv, RunGrows

\* Only with a hash that has just been taken does a run get to the staging.
LEMMA StagingIs ==
  ASSUME DeployTyped, NEW c \in Clients, ClientStep(c), deploy'[c].at = "staging"
  PROVE  /\ HashBuild(c) \/ UiAsks(c)
         /\ Head(deploy'[c].todo) \in TargetSet
         /\ deploy'[c].hash \in {0, built[Head(deploy'[c].todo)]}
<1>0. ClientsTyped /\ SourcesTyped /\ DeployTyped
  BY DEF DeployTyped
<1>1. PICK x : x = deploy[c]
  OBVIOUS
<1>2. x \in DeployRuns /\ RunOK(c, x)
  BY <1>0, <1>1, RunFields
<1>3. PICK y : y = deploy'[c]
  OBVIOUS
<1>4. CASE HashBuild(c)
  <2>1. Moves(c, HashedRun(x)) /\ x.at = "hashing"
    BY <1>0, <1>1, <1>4, HashMoves DEF HashBuild
  <2>2. y = HashedRun(x)
    BY <1>0, <1>3, <2>1, MovesOne
  <2>3. Head(x.todo) \in TargetSet
    BY <1>0, <1>1, <2>1, HeadOfTodo DEF Underway, Now
  <2>4. y.hash = (IF Strategy(Head(x.todo)) = "python" THEN 0 ELSE built[Head(x.todo)]) /\ y.todo = x.todo
    BY <1>0, <1>2, <2>1, <2>2, <2>3, HashedRunIs
  <2> QED BY <1>3, <1>4, <2>3, <2>4
<1>5. CASE UiAsks(c)
  <2>1. PICK s \in TargetSet : Moves(c, UiRun(s))
    BY <1>5, UiAsksMoves
  <2>2. y = UiRun(s)
    BY <1>0, <1>3, <2>1, MovesOne
  <2>3. y.hash = (IF Strategy(s) = "python" THEN 0 ELSE built[s]) /\ Head(y.todo) = s
    BY <1>0, <2>2, UiRunIs
  <2> QED BY <1>3, <1>5, <2>3
<1>6. CASE ~HashBuild(c) /\ ~UiAsks(c)
  <2> SUFFICES y.at # "staging"
    BY <1>3
  <2>1. ASSUME NEW at, at # "staging", Moves(c, AtRun(x, at)) PROVE y.at # "staging"
    <3>1. y = AtRun(x, at)
      BY <1>0, <1>3, <2>1, MovesOne
    <3> QED BY <1>2, <2>1, <3>1 DEF AtRun, DeployRuns
  <2>2. CASE OperatorDeploys(c)
    <3>1. PICK todo \in Seq(TargetSet) : Moves(c, BegunRun(todo, 0))
      BY <2>2, OperatorMoves
    <3>2. y = BegunRun(todo, 0)
      BY <1>0, <1>3, <3>1, MovesOne
    <3> QED BY <2>2, <3>2, OperatorMoves, BegunRunIs
  <2>3. CASE CliFails(c) \/ SyncFails(c) \/ WaitTimesOut(c)
    BY <1>0, <1>1, <2>1, <2>3, GoesMoves DEF CliFails, SyncFails, WaitTimesOut
  <2>4. CASE Build(c)
    <3>0. SourcesTyped'
      <4>1. DeployNext
        BY DEF DeployNext
      <4> QED BY <1>0, <4>1, SourcesKept
    <3>1. PICK v \in DeployVersions : Moves(c, BuiltRun(x, v))
      BY <1>1, <1>0, <2>4, <3>0, BuildMoves
    <3>2. y = BuiltRun(x, v) /\ x.at = "next"
      BY <1>0, <1>1, <1>3, <2>4, <3>1, MovesOne DEF Build
    <3> QED BY <1>2, <3>2, BuiltRunIs
  <2>5. CASE SyncBundle(c)
    <3>1. CASE Moves(c, SyncedRun(x))
      <4>1. y = SyncedRun(x) /\ x.at = "syncing"
        BY <1>0, <1>1, <1>3, <2>5, <3>1, MovesOne DEF SyncBundle, Syncing
      <4> QED BY <1>2, <4>1, SyncedRunIs
    <3> QED BY <1>0, <1>1, <2>1, <2>5, <3>1, SyncMoves
  <2>6. CASE PublishStaged(c)
    <3>0. asks \in Nat
      BY <1>0 DEF ClientsTyped
    <3>1. Moves(c, StagedRun(x)) /\ x.at = "staging"
      BY <1>0, <1>1, <2>6, StagedMoves DEF PublishStaged
    <3>2. y = StagedRun(x)
      BY <1>0, <1>3, <3>1, MovesOne
    <3> QED BY <1>2, <3>0, <3>1, <3>2, StagedRunIs
  <2>7. CASE Hear(c)
    <3>1. CASE Moves(c, HeardRun(x))
      <4>1. y = HeardRun(x) /\ x.at = "waiting"
        BY <1>0, <1>1, <1>3, <2>7, <3>1, MovesOne DEF Hear
      <4> QED BY <1>2, <4>1, HeardRunIs
    <3> QED BY <1>0, <1>1, <2>1, <2>7, <3>1, HearMoves
  <2> QED BY <1>6, <2>2, <2>3, <2>4, <2>5, <2>6, <2>7 DEF ClientStep
<1> QED BY <1>4, <1>5, <1>6

\* A client's step moves its own run and no other.
LEMMA OthersStay ==
  ASSUME DeployTyped, SourcesTyped', NEW c \in Clients, ClientStep(c)
  PROVE  /\ deploy'[c] \in DeployRuns /\ RunOK(c, deploy'[c])
         /\ \A d \in Clients : d # c => deploy'[d] = deploy[d]
<1>1. PICK r : MayMove(c, r) /\ Moves(c, r)
  BY ClientMoves
<1>2. deploy'[c] = r /\ \A d \in Clients : d # c => deploy'[d] = deploy[d]
  BY <1>1, MovesOne DEF DeployTyped
<1> QED BY <1>1, <1>2 DEF MayMove

\* The driver's own steps move no other run.
LEMMA DriverMoves ==
  ASSUME DeployTyped, CronTick \/ CronEnds
  PROVE  /\ \A d \in Clients : d # Cron => deploy'[d] = deploy[d]
         /\ deploy'[Cron] = deploy[Cron] \/ deploy'[Cron].at \in {"idle", "next", "succeeded"}
<1>0. ClientsTyped /\ SourcesTyped /\ deploy \in [Clients -> DeployRuns] /\ Cron \in Clients
  BY CronIsClient DEF DeployTyped, ClientsTyped
<1>1. CASE CronTick
  <2>1. CASE UNCHANGED deploy
    BY <2>1
  <2>2. CASE Moves(Cron, BegunRun(TargetsFor(Since), Len(origin)))
    <3>1. PICK todo : todo = TargetsFor(Since)
      OBVIOUS
    <3>2. PICK r : r = BegunRun(todo, Len(origin))
      OBVIOUS
    <3>3. todo \in Seq(TargetSet) /\ Len(origin) \in Nat
      BY <1>0, <3>1, TargetsForIs DEF SourcesTyped
    <3>4. r.at \in {"next", "succeeded"}
      BY <3>2, <3>3, CronIsClient, BegunRunIs
    <3> QED BY <1>0, <2>2, <3>1, <3>2, <3>4, MovesOne
  <2> QED BY <1>1, <2>1, <2>2, TickMoves
<1>2. CASE CronEnds
  <2>1. deploy' = [deploy EXCEPT ![Cron] = IdleClient]
    BY <1>2 DEF CronEnds
  <2>2. IdleClient.at = "idle"
    BY DEF IdleClient
  <2> QED BY <1>0, <2>1, <2>2
<1> QED BY <1>1, <1>2

LEMMA BuiltGrows ==
  ASSUME SourcesTyped, SourcesTyped', TreeGrows, AgentInv, NEW s \in TargetSet
  PROVE  built[s] <= built'[s] /\ built[s] \in Nat /\ built'[s] \in Nat
<1>1. built[s] \in Nat /\ built'[s] \in Nat /\ Source(s) \in Nat
  BY SourceIs DEF SourcesTyped
<1>2. built[s] <= Source(s)
  BY DEF AgentInv, TargetInv
<1>3. built'[s] = built[s] \/ built'[s] = Source(s)
  BY DEF TreeGrows
<1> QED BY <1>1, <1>2, <1>3

\* A run that stays where it was keeps a hash of what is built.
LEMMA HashStays ==
  ASSUME DeployTyped, SourcesTyped', TreeGrows, AgentInv, HashInv, NEW d \in Clients,
         deploy'[d] = deploy[d], deploy'[d].at = "staging"
  PROVE  deploy'[d].hash <= built'[Head(deploy'[d].todo)]
<1>1. PICK s : s = Now(d)
  OBVIOUS
<1>2. s \in TargetSet
  BY <1>1, HeadOfTodo DEF DeployTyped, Underway
<1>3. built[s] <= built'[s] /\ built[s] \in Nat /\ built'[s] \in Nat
  BY <1>2, BuiltGrows DEF DeployTyped
<1>4. deploy[d].hash <= built[s] /\ deploy[d].hash \in Nat
  BY <1>1, RunFields DEF HashInv, DeployTyped, DeployRuns
<1>5. deploy'[d].hash <= built'[s]
  BY <1>3, <1>4
<1> QED BY <1>1, <1>5 DEF Now

LEMMA HashKept ==
  ASSUME DeployTyped, SourcesTyped', TreeGrows, AgentInv, HashInv, [DeployNext]_deployVars
  PROVE  HashInv'
<1> DEFINE Good(d) == deploy'[d].at = "staging" => deploy'[d].hash <= built'[Head(deploy'[d].todo)]
<1> SUFFICES ASSUME NEW d \in Clients PROVE Good(d)
  BY DEF HashInv, Now
<1>1. deploy'[d] = deploy[d] => Good(d)
  BY HashStays
<1>2. deploy'[d].at # "staging" => Good(d)
  OBVIOUS
<1>3. ASSUME NEW c \in Clients, ClientStep(c) PROVE Good(d)
  <2>1. CASE d # c
    BY <1>1, <1>3, <2>1, OthersStay
  <2>2. CASE d = c /\ deploy'[c].at = "staging"
    <3>1. PICK s : s = Head(deploy'[c].todo)
      OBVIOUS
    <3>2. HashBuild(c) \/ UiAsks(c)
      BY <1>3, <2>2, StagingIs
    <3>3. s \in TargetSet /\ deploy'[c].hash \in {0, built[s]}
      BY <1>3, <2>2, <3>1, StagingIs
    <3>4. built' = built
      BY <3>2 DEF HashBuild, UiAsks, treeVars
    <3>5. built[s] \in Nat
      BY <3>3 DEF DeployTyped, SourcesTyped
    <3>6. deploy'[c].hash <= built'[s]
      BY <3>3, <3>4, <3>5
    <3> QED BY <2>2, <3>1, <3>6
  <2> QED BY <1>2, <2>1, <2>2
<1>4. CASE DeployAgentStep
  <2>1. CASE deploy'[d] = AtRun(deploy[d], "lost")
    <3>1. deploy[d] \in DeployRuns
      BY RunFields DEF DeployTyped
    <3>2. deploy'[d].at = "lost"
      BY <2>1, <3>1 DEF AtRun, DeployRuns
    <3> QED BY <1>2, <3>2
  <2> QED BY <1>1, <1>4, <2>1, AgentMovesClients
<1>5. CASE CronTick \/ CronEnds
  <2>1. deploy'[d] = deploy[d] \/ deploy'[d].at \in {"idle", "next", "succeeded"}
    BY <1>5, DriverMoves
  <2> HIDE DEF Good
  <2> QED BY <1>1, <1>2, <2>1
<1>6. CASE Merged \/ EditSources \/ UNCHANGED deployVars
  BY <1>1, <1>6 DEF Merged, EditSources, deployVars
<1> HIDE DEF Good
<1> QED BY <1>3, <1>4, <1>5, <1>6 DEF DeployNext

\* Whoever steps, the agent's invariant holds on.
LEMMA AgentAlways ==
  ASSUME DeployTyped, SourcesTyped', TreeGrows, AgentInv, HashInv, [DeployNext]_deployVars
  PROVE  AgentInv' /\ RunGrows
<1>0. SourcesTyped /\ ClientsTyped /\ asks \in Nat
  BY DEF DeployTyped, ClientsTyped
<1>1. CASE DeployAgentStep
  BY <1>0, <1>1, AgentKept
<1>2. ASSUME UNCHANGED <<agentVars, staged, asks>> PROVE AgentInv' /\ RunGrows
  <2>1. asks' \in Nat /\ asks <= asks' /\ UNCHANGED agentVars /\ UNCHANGED staged
    BY <1>0, <1>2
  <2> QED BY <1>0, <2>1, AgentLeft
<1>3. ASSUME NEW c \in Clients, PublishStaged(c) PROVE AgentInv' /\ RunGrows
  <2>1. PICK x : x = deploy[c]
    OBVIOUS
  <2>2. x \in DeployRuns /\ Now(c) \in TargetSet /\ x.at = "staging" /\ x.hash \in Nat
        /\ x.version \in DeployVersions
    BY <1>0, <1>3, <2>1, RunFields, HeadOfTodo DEF PublishStaged, Underway, DeployRuns
  <2>3. PICK s : s = Now(c)
    OBVIOUS
  <2>4. PICK m : m = [id |-> asks + 1, s |-> s, hash |-> x.hash, version |-> x.version, by |-> c]
    OBVIOUS
  <2>5. m \in StagedAsks
    BY <1>0, <2>2, <2>3, <2>4 DEF StagedAsks
  <2>6. asks' = asks + 1 /\ staged' = Append(staged, m) /\ UNCHANGED <<treeVars, agentVars>>
    <3>1. asks' = asks + 1
      BY <1>3 DEF PublishStaged
    <3> QED BY <1>3, <2>1, <2>3, <2>4, <3>1 DEF PublishStaged
  <2>7. m.id = asks' /\ asks' \in Nat /\ asks <= asks'
    BY <1>0, <2>4, <2>6
  <2>8. m.hash <= built[m.s]
    BY <2>1, <2>2, <2>3, <2>4 DEF HashInv
  <2> QED BY <1>0, <2>5, <2>6, <2>7, <2>8, AgentLeft
<1>4. ASSUME NEW c \in Clients, ClientStep(c) PROVE AgentInv' /\ RunGrows
  <2>1. CASE PublishStaged(c)
    BY <1>3, <2>1
  <2>2. CASE ~PublishStaged(c)
    <3>1. UNCHANGED agentVars /\ UNCHANGED <<asks, staged>>
      BY <1>4, <2>2, ClientFrame
    <3> QED BY <1>2, <3>1
  <2> QED BY <2>1, <2>2
<1>5. CASE Merged \/ EditSources \/ CronTick \/ CronEnds \/ UNCHANGED deployVars
  BY <1>2, <1>5 DEF Merged, EditSources, CronTick, CronEnds, deployVars
<1> QED BY <1>1, <1>4, <1>5 DEF DeployNext

\* What the driver owes: the commits it has set out to deploy.
Single(s) == Strategy(s) # "swap"
Ships(s, g) == SourceAt(s, g) <= RunBuild(s)
TouchedIn(s, a, b) == \E i \in (a + 1)..b : s \in origin[i]

\* A target of the driver's run is built of the commit, and once it is asked for
\* it is installed, and confirmed, of the commit.
BuildsIt(x) ==
  x.at \in {"syncing", "hashing", "staging", "waiting"} =>
    LET s == Head(x.todo) IN Strategy(s) # "python" => SourceAt(s, x.goal) <= built[s]
InstallsIt(x) ==
  x.at = "waiting" /\ agentJob.at \in Installed /\ Job.id = x.id /\ Job.s = Head(x.todo) =>
    SourceAt(Job.s, x.goal) <= binary[Job.s]
HearsIt(x) ==
  x.at = "waiting" =>
    \A a \in answers : a.how = "confirmed" /\ a.id = x.id /\ a.s = Head(x.todo) /\ Single(a.s) =>
      Ships(a.s, x.goal)
\* What was touched and is not deployed yet is on the list.
LeavesNone(x) ==
  /\ x.at \in Underway \union {"succeeded"} =>
       \A s \in TargetSet : Single(s) /\ TouchedIn(s, mark.last, x.goal) =>
         s \in Range(x.todo) \/ Ships(s, x.goal)
  /\ x.at = "succeeded" => x.todo = <<>>
CronRunOK(x) == BuildsIt(x) /\ InstallsIt(x) /\ HearsIt(x) /\ LeavesNone(x)
MarkShips ==
  mark.last >= 0 =>
    \A s \in TargetSet : Single(s) /\ TouchedIn(s, mark.first, mark.last) => Ships(s, mark.last)
CronInv == (\A x \in {deploy[Cron]} : CronRunOK(x)) /\ MarkShips

\* What the driver's run is about.
LEMMA CronFields ==
  ASSUME DeployTyped, NEW x, x = deploy[Cron]
  PROVE  /\ x \in DeployRuns /\ RunOK(Cron, x) /\ x.goal \in 0..tree.head
         /\ x.goal \in 0..Len(origin) /\ x.id \in Nat /\ x.id <= asks /\ x.todo \in Seq(TargetSet)
         /\ x.at \in Underway => Head(x.todo) \in TargetSet /\ x.todo # <<>>
         /\ x.at # "idle" => 0 <= mark.last /\ mark.last <= x.goal
         /\ mark.last \in Int /\ mark.first \in Int /\ mark.last <= Len(origin)
         /\ mark.last >= 0 => mark.first >= 0
<1>1. x \in DeployRuns /\ RunOK(Cron, x) /\ x.goal <= tree.head /\ x.id <= asks
  BY CronIsClient, RunFields DEF DeployTyped
<1>2. x.goal \in Nat /\ x.id \in Nat /\ x.todo \in Seq(TargetSet)
  BY <1>1 DEF DeployRuns
<1>3. tree.head \in Nat /\ Len(origin) \in Nat /\ tree.head <= Len(origin)
  BY DEF DeployTyped, SourcesTyped
<1>4. x.at \in Underway => Head(x.todo) \in TargetSet /\ x.todo # <<>>
  BY CronIsClient, HeadOfTodo DEF DeployTyped, Now
<1>5. /\ x.at # "idle" => 0 <= mark.last /\ mark.last <= x.goal
      /\ mark.last \in Int /\ mark.first \in Int /\ mark.last <= tree.head
      /\ mark.last >= 0 => mark.first >= 0
  BY <1>3 DEF DeployTyped, MarkTyped
<1> QED BY <1>1, <1>2, <1>3, <1>4, <1>5

\* A commit's source and touch stay; what is built or runs is only replaced by later.
LEMMA TouchesStay ==
  ASSUME SourcesTyped, TreeGrows, NEW s, NEW a \in Nat, NEW b \in Int, b <= Len(origin)
  PROVE  TouchedIn(s, a, b)' <=> TouchedIn(s, a, b)
<1>1. Len(origin) \in Nat
  BY DEF SourcesTyped
<1>2. \A i \in (a + 1)..b : origin'[i] = origin[i]
  BY <1>1 DEF TreeGrows
<1> QED BY <1>2 DEF TouchedIn

LEMMA ShipsStay ==
  ASSUME SourcesTyped, TreeGrows, AgentInv, AgentInv', RunGrows, NEW s \in TargetSet, Single(s),
         NEW g \in 0..Len(origin), Ships(s, g)
  PROVE  Ships(s, g)'
<1>1. SourceAt(s, g)' = SourceAt(s, g)
  BY SourceAtStays
<1>2. SourceAt(s, g) \in Int
  <2>1. Len(origin) \in Nat
    BY DEF SourcesTyped
  <2>2. LastTouch(origin, s, g) \in 0..g
    BY <2>1, LastTouchIs
  <2> QED BY <2>1, <2>2, SourceAtIs
<1>3. RunBuild(s) \in Int /\ RunBuild(s)' \in Int
  BY DEF RunBuild, AgentInv, AgentTyped, DeployProcs
<1>4. RunBuild(s) <= RunBuild(s)'
  BY DEF RunGrows, Single
<1>5. SourceAt(s, g) <= RunBuild(s)
  BY DEF Ships
<1>6. SourceAt(s, g)' <= RunBuild(s)'
  BY <1>1, <1>2, <1>3, <1>4, <1>5
<1> QED BY <1>6 DEF Ships

LEMMA BuildsStay ==
  ASSUME SourcesTyped, SourcesTyped', TreeGrows, AgentInv, NEW s \in TargetSet,
         NEW g \in 0..Len(origin), SourceAt(s, g) <= built[s]
  PROVE  SourceAt(s, g)' <= built'[s]
<1>1. SourceAt(s, g)' = SourceAt(s, g)
  BY SourceAtStays
<1>2. SourceAt(s, g) \in Int
  <2>1. Len(origin) \in Nat
    BY DEF SourcesTyped
  <2>2. LastTouch(origin, s, g) \in 0..g
    BY <2>1, LastTouchIs
  <2> QED BY <2>1, <2>2, SourceAtIs
<1>3. built[s] <= built'[s] /\ built[s] \in Nat /\ built'[s] \in Nat
  BY BuiltGrows
<1> QED BY <1>1, <1>2, <1>3

\* The agent comes to an installed job by installing it, and tells of no single
\* process or binary but at the end of such a job.
LEMMA InstalledFrom ==
  ASSUME AgentTyped, DeployAgentStep, agentJob'.at \in Installed
  PROVE  /\ agentJob'.ask = Job
         /\ InstallBuild \/ (agentJob.at \in Installed /\ binary' = binary)
<1>0. agentJob \in AgentJobs
  BY DEF AgentTyped
<1>1. ~AgentRests
  BY DEF AgentRests, AgentAtRest, Installed
<1>2. ASSUME NEW at, AgentMoves(at) PROVE agentJob'.ask = Job
  BY <1>0, <1>2 DEF AgentMoves, AgentJobs, Job
<1>3. CASE TakeStagedAsk
  <2>1. agentJob'.at \in {"swapping", "checking"}
    BY <1>3 DEF TakeStagedAsk
  <2> QED BY <2>1 DEF Installed
<1>4. CASE CheckStaged
  <2>1. agentJob' = [agentJob EXCEPT !.at = "installing", !.seen = Job.hash]
    BY <1>1, <1>4 DEF CheckStaged
  <2>2. agentJob'.at = "installing"
    BY <1>0, <2>1 DEF AgentJobs
  <2> QED BY <2>2 DEF Installed
<1>5. CASE InstallBuild
  BY <1>2, <1>5 DEF InstallBuild
<1>6. CASE StopProcess
  BY <1>2, <1>6 DEF StopProcess, AgentAt, Installed
<1>7. CASE StartProcess
  BY <1>2, <1>7 DEF StartProcess, Installed
<1>8. CASE AwaitRunning
  BY <1>2, <1>8 DEF AwaitRunning, AgentAt, Installed
<1>9. CASE InstallFails \/ ProcessFails \/ ConfirmDeploy \/ SwapVersions \/ AgentIsLost
  BY <1>1, <1>9 DEF InstallFails, ProcessFails, ConfirmDeploy, SwapVersions, AgentIsLost
<1> QED BY <1>3, <1>4, <1>5, <1>6, <1>7, <1>8, <1>9 DEF DeployAgentStep

LEMMA ToldFrom ==
  ASSUME AgentInv, DeployAgentStep, NEW a \in answers', a \notin answers, Single(a.s)
  PROVE  /\ agentJob.at = "telling" /\ a.id = Job.id /\ a.s = Job.s
         /\ UNCHANGED <<binary, proc>>
<1>1. ~UNCHANGED answers
  OBVIOUS
<1>2. CASE ConfirmDeploy
  <2>1. Told("confirmed", TRUE, agentJob.seen, binary[Job.s]) /\ UNCHANGED <<binary, proc>>
        /\ agentJob.at = "telling"
    BY <1>1, <1>2 DEF ConfirmDeploy, AgentAt
  <2>2. a = [id |-> Job.id, s |-> Job.s, how |-> "confirmed", checked |-> TRUE, hash |-> Job.hash,
             seen |-> agentJob.seen, got |-> binary[Job.s]]
    BY <2>1 DEF Told
  <2> QED BY <2>1, <2>2
<1>3. CASE SwapVersions
  <2>1. agentJob.at = "swapping"
    BY <1>3 DEF SwapVersions, AgentAt
  <2>2. Strategy(Job.s) = "swap"
    BY <2>1 DEF AgentInv, JobInv, JobOK, Job
  <2>3. \E how, checked, saw, got : Told(how, checked, saw, got)
    BY <1>1, <1>3 DEF SwapVersions
  <2>4. a.s = Job.s
    BY <2>3 DEF Told
  <2> QED BY <2>2, <2>4 DEF Single
<1> QED
  BY <1>1, <1>2, <1>3 DEF DeployAgentStep, TakeStagedAsk, CheckStaged, InstallBuild, InstallFails,
     StopProcess, StartProcess, ProcessFails, AwaitRunning, AgentIsLost

\* A step of somebody else.
LEMMA BuildsItStays ==
  ASSUME DeployTyped, SourcesTyped', TreeGrows, AgentInv, NEW x, x = deploy[Cron], BuildsIt(x)
  PROVE  BuildsIt(x)'
<1> SUFFICES ASSUME x.at \in {"syncing", "hashing", "staging", "waiting"},
                    Strategy(Head(x.todo)) # "python"
             PROVE  SourceAt(Head(x.todo), x.goal)' <= built'[Head(x.todo)]
  BY DEF BuildsIt, Strategy
<1>1. PICK s : s = Head(x.todo)
  OBVIOUS
<1>2. s \in TargetSet /\ x.goal \in 0..Len(origin)
  BY <1>1, CronFields DEF Underway
<1>3. PICK g : g = x.goal
  OBVIOUS
<1>4. SourceAt(s, g) <= built[s]
  BY <1>1, <1>3 DEF BuildsIt
<1>5. SourceAt(s, g)' <= built'[s]
  BY <1>2, <1>3, <1>4, BuildsStay DEF DeployTyped
<1> QED BY <1>1, <1>3, <1>5 DEF SourceAt

LEMMA InstallsItStays ==
  ASSUME DeployTyped, SourcesTyped', TreeGrows, AgentInv, NEW x, x = deploy[Cron], BuildsIt(x), InstallsIt(x),
         UNCHANGED agentVars \/ DeployAgentStep
  PROVE  InstallsIt(x)'
<1>1. PICK s : s = Head(x.todo)
  OBVIOUS
<1>2. PICK g : g = x.goal
  OBVIOUS
<1> SUFFICES ASSUME x.at = "waiting", agentJob'.at \in Installed, agentJob'.ask.id = x.id,
                    agentJob'.ask.s = s
             PROVE  SourceAt(s, g)' <= binary'[s]
  BY <1>1, <1>2 DEF InstallsIt, Job, SourceAt
<1>3. s \in TargetSet /\ g \in 0..Len(origin) /\ g \in 0..tree.head
  BY <1>1, <1>2, CronFields DEF Underway
<1>4. SourceAt(s, g)' = SourceAt(s, g)
  BY <1>3, SourceAtStays DEF DeployTyped
<1>5. ASSUME UNCHANGED binary, agentJob'.ask = Job, agentJob.at \in Installed
      PROVE  SourceAt(s, g)' <= binary'[s]
  <2>1. Job.s = s /\ Job.id = x.id
    BY <1>5
  <2>2. SourceAt(Job.s, x.goal) <= binary[Job.s]
    BY <1>1, <1>5, <2>1 DEF InstallsIt
  <2> QED BY <1>2, <1>4, <1>5, <2>1, <2>2
<1>6. CASE UNCHANGED agentVars
  BY <1>5, <1>6 DEF agentVars, Job
<1>7. CASE DeployAgentStep /\ ~InstallBuild
  BY <1>5, <1>7, InstalledFrom DEF AgentInv
<1>8. CASE InstallBuild
  <2>1. agentJob'.ask = Job
    BY <1>8, InstalledFrom DEF AgentInv, DeployAgentStep
  <2>2. Job.s = s
    BY <1>1, <2>1
  <2>3. PICK b : b = IF Strategy(s) = "python" THEN Source(s) ELSE built[s]
    OBVIOUS
  <2>4. binary' = [binary EXCEPT ![s] = b]
    BY <1>8, <2>2, <2>3 DEF InstallBuild
  <2>5. binary'[s] = b
    BY <1>3, <2>4 DEF AgentInv, AgentTyped
  <2>6. SourceAt(s, g) <= Source(s)
    BY <1>3, SourceIs DEF DeployTyped
  <2>7. Strategy(s) # "python" => SourceAt(s, g) <= built[s]
    BY <1>1, <1>2 DEF BuildsIt
  <2> QED BY <1>4, <2>3, <2>5, <2>6, <2>7
<1> QED BY <1>6, <1>7, <1>8

LEMMA HearsItStays ==
  ASSUME DeployTyped, TreeGrows, AgentInv, AgentInv', RunGrows, NEW x, x = deploy[Cron], InstallsIt(x),
         HearsIt(x), UNCHANGED agentVars \/ DeployAgentStep
  PROVE  HearsIt(x)'
<1>1. PICK g : g = x.goal
  OBVIOUS
<1> SUFFICES ASSUME x.at = "waiting", NEW a \in answers', a.how = "confirmed", a.id = x.id,
                    a.s = Head(x.todo), Single(a.s)
             PROVE  Ships(a.s, g)'
  BY <1>1 DEF HearsIt, Ships, SourceAt, RunBuild, Single, Strategy
<1>2. PICK s : s = a.s
  OBVIOUS
<1>3. s \in TargetSet /\ g \in 0..Len(origin)
  BY <1>1, <1>2, CronFields DEF Underway
<1>4. Ships(s, g)
  <2>1. CASE a \in answers
    BY <1>1, <1>2, <2>1 DEF HearsIt
  <2>2. CASE a \notin answers
    <3>0. DeployAgentStep
      BY <2>2 DEF agentVars
    <3>1. agentJob.at = "telling" /\ a.id = Job.id /\ s = Job.s
      BY <1>2, <2>2, <3>0, ToldFrom
    <3>2. SourceAt(s, g) <= binary[s]
      BY <1>1, <1>2, <3>1 DEF InstallsIt, Installed
    <3>3. Strategy(s) # "canonical" => proc[s].build = binary[s]
      BY <3>1 DEF AgentInv, JobInv
    <3> QED BY <3>2, <3>3 DEF Ships, RunBuild
  <2> QED BY <2>1, <2>2
<1>5. Ships(s, g)'
  BY <1>2, <1>3, <1>4, ShipsStay DEF DeployTyped
<1> QED BY <1>2, <1>5 DEF Ships, SourceAt, RunBuild

LEMMA LeavesNoneStays ==
  ASSUME DeployTyped, TreeGrows, AgentInv, AgentInv', RunGrows, NEW x, x = deploy[Cron], LeavesNone(x),
         UNCHANGED mark
  PROVE  LeavesNone(x)'
<1>1. PICK g : g = x.goal
  OBVIOUS
<1>2. PICK l : l = mark.last
  OBVIOUS
<1>3. ASSUME x.at \in Underway \union {"succeeded"}, NEW s \in TargetSet, Single(s), TouchedIn(s, l, g)'
      PROVE  s \in Range(x.todo) \/ Ships(s, g)'
  <2>1. l \in Nat /\ g \in 0..Len(origin) /\ SourcesTyped
    BY <1>1, <1>2, <1>3, CronFields DEF Underway, DeployTyped
  <2>2. Len(origin) \in Nat
    BY <2>1 DEF SourcesTyped
  <2>3. TouchedIn(s, l, g)
    BY <1>3, <2>1, <2>2, TouchesStay
  <2>4. s \in Range(x.todo) \/ Ships(s, g)
    BY <1>1, <1>2, <1>3, <2>3 DEF LeavesNone
  <2> QED BY <1>3, <2>1, <2>4, ShipsStay
<1>4. x.at = "succeeded" => x.todo = <<>>
  BY DEF LeavesNone
<1>5. mark'.last = l
  BY <1>2
<1> QED BY <1>1, <1>3, <1>4, <1>5 DEF LeavesNone, TouchedIn, Ships, SourceAt, RunBuild, Single, Strategy

LEMMA MarkStays ==
  ASSUME DeployTyped, TreeGrows, AgentInv, AgentInv', RunGrows, MarkShips, UNCHANGED mark
  PROVE  MarkShips'
<1>1. PICK f : f = mark.first
  OBVIOUS
<1>2. PICK l : l = mark.last
  OBVIOUS
<1>3. ASSUME l >= 0, NEW s \in TargetSet, Single(s), TouchedIn(s, f, l)'
      PROVE  Ships(s, l)'
  <2>1. f \in Nat /\ l \in 0..Len(origin) /\ SourcesTyped
    BY <1>1, <1>2, <1>3, CronFields DEF DeployTyped
  <2>2. Len(origin) \in Nat
    BY <2>1 DEF SourcesTyped
  <2>3. TouchedIn(s, f, l)
    BY <1>3, <2>1, <2>2, TouchesStay
  <2>4. Ships(s, l)
    BY <1>1, <1>2, <1>3, <2>3 DEF MarkShips
  <2> QED BY <1>3, <2>1, <2>4, ShipsStay
<1>4. mark'.last = l /\ mark'.first = f
  BY <1>1, <1>2
<1> QED BY <1>3, <1>4 DEF MarkShips, TouchedIn, Ships, SourceAt, RunBuild, Single, Strategy

LEMMA CronStays ==
  ASSUME DeployTyped, SourcesTyped', TreeGrows, AgentInv, AgentInv', RunGrows, CronInv,
         deploy'[Cron] = deploy[Cron], UNCHANGED mark, UNCHANGED agentVars \/ DeployAgentStep
  PROVE  CronInv'
<1>1. PICK x : x = deploy[Cron]
  OBVIOUS
<1>2. BuildsIt(x) /\ InstallsIt(x) /\ HearsIt(x) /\ LeavesNone(x)
  BY <1>1 DEF CronInv, CronRunOK
<1>3. BuildsIt(x)'
  BY <1>1, <1>2, BuildsItStays
<1>4. InstallsIt(x)'
  BY <1>1, <1>2, InstallsItStays
<1>5. HearsIt(x)'
  BY <1>1, <1>2, HearsItStays
<1>6. LeavesNone(x)'
  BY <1>1, <1>2, LeavesNoneStays
<1>7. MarkShips'
  BY MarkStays DEF CronInv
<1>8. CronRunOK(x)'
  BY <1>3, <1>4, <1>5, <1>6 DEF CronRunOK
<1> QED BY <1>1, <1>7, <1>8 DEF CronInv

LEMMA SameCommits ==
  ASSUME UNCHANGED <<origin, agentVars>>
  PROVE  /\ \A s, g : SourceAt(s, g)' = SourceAt(s, g) /\ (Ships(s, g)' <=> Ships(s, g))
         /\ \A s, a, b : TouchedIn(s, a, b)' <=> TouchedIn(s, a, b)
BY DEF SourceAt, Ships, RunBuild, TouchedIn, agentVars

\* A step of the driver's run that leaves its list as it is.
LEMMA CronCarries ==
  ASSUME UNCHANGED <<origin, mark, agentVars>>, AgentInv, NEW x, LeavesNone(x), x.at \in Underway,
         NEW y, y.at \in Underway, y.todo = x.todo, y.goal = x.goal, BuildsIt(y)',
         y.at = "waiting" => y.id \in Nat /\ asks \in Nat /\ y.id > asks
  PROVE  CronRunOK(y)'
<1>0. /\ \A s, g : SourceAt(s, g)' = SourceAt(s, g) /\ (Ships(s, g)' <=> Ships(s, g))
      /\ \A s, a, b : TouchedIn(s, a, b)' <=> TouchedIn(s, a, b)
      /\ mark' = mark
  BY SameCommits
<1>1. LeavesNone(y)'
  <2>1. y.at # "succeeded"
    BY DEF Underway
  <2>2. ASSUME NEW s \in TargetSet, Single(s), TouchedIn(s, mark.last, x.goal)
        PROVE  s \in Range(x.todo) \/ Ships(s, x.goal)
    BY <2>2 DEF LeavesNone
  <2>3. PICK l : l = mark.last
    OBVIOUS
  <2>4. ASSUME NEW s \in TargetSet, Single(s), TouchedIn(s, l, y.goal)'
        PROVE  s \in Range(y.todo) \/ Ships(s, y.goal)'
    <3>1. TouchedIn(s, l, y.goal)
      BY <1>0, <2>4
    <3>2. s \in Range(x.todo) \/ Ships(s, y.goal)
      BY <2>2, <2>3, <2>4, <3>1
    <3> QED BY <1>0, <3>2
  <2>5. mark'.last = l
    BY <1>0, <2>3
  <2> QED BY <2>1, <2>4, <2>5 DEF LeavesNone, TouchedIn, Single, Strategy
<1>2. InstallsIt(y)'
  <2>1. agentJob' = agentJob
    BY DEF agentVars
  <2>2. agentJob.at \in Installed /\ y.at = "waiting" => Job.id # y.id
    <3>1. agentJob.at \in Installed => Job.id <= asks /\ Job.id \in Nat
      BY JobFields DEF AgentInv, AsksInv, AskedOf, Installed
    <3> QED BY <3>1
  <2> QED BY <2>1, <2>2 DEF InstallsIt, Job
<1>3. HearsIt(y)'
  <2>1. answers' = answers
    BY DEF agentVars
  <2>2. \A a \in answers : y.at = "waiting" => a.id # y.id
    <3>1. \A a \in answers : a.id \in Nat /\ a.id <= asks
      BY DEF AgentInv, AnswerInv, AgentTyped, DeployAnswers
    <3> QED BY <3>1
  <2> QED BY <2>1, <2>2 DEF HearsIt
<1> QED BY <1>1, <1>2, <1>3 DEF CronRunOK

LEMMA BuildsCarries ==
  ASSUME UNCHANGED <<origin, built>>, NEW x, BuildsIt(x),
         x.at \in {"syncing", "hashing", "staging", "waiting"}, NEW y, y.todo = x.todo, y.goal = x.goal
  PROVE  BuildsIt(y)'
<1>1. PICK s : s = Head(y.todo)
  OBVIOUS
<1>2. PICK g : g = y.goal
  OBVIOUS
<1>3. SourceAt(s, g)' = SourceAt(s, g)
  BY DEF SourceAt
<1>4. Strategy(s) # "python" => SourceAt(s, g) <= built[s]
  BY <1>1, <1>2 DEF BuildsIt
<1> QED BY <1>1, <1>2, <1>3, <1>4 DEF BuildsIt, SourceAt, Strategy

LEMMA HeadOrTail ==
  ASSUME NEW S, NEW q \in Seq(S), q # <<>>, NEW e \in Range(q)
  PROVE  e = Head(q) \/ e \in Range(Tail(q))
<1>1. PICK i \in 1..Len(q) : q[i] = e
  BY DEF Range
<1>2. CASE i = 1
  BY <1>1, <1>2
<1>3. CASE i # 1
  <2>1. i - 1 \in 1..Len(Tail(q)) /\ Tail(q)[i - 1] = q[i]
    BY <1>1, <1>3
  <2>2. i - 1 \in DOMAIN Tail(q)
    BY <2>1
  <2> QED BY <1>1, <2>1, <2>2 DEF Range
<1> QED BY <1>2, <1>3

\* The driver hears that what it waits for is deployed.
LEMMA CronHears ==
  ASSUME UNCHANGED <<origin, mark, agentVars>>, DeployTyped, NEW x, x = deploy[Cron], CronRunOK(x),
         x.at = "waiting", NEW a \in AnswersTo(Cron), a.how = "confirmed", NEW y, y = HeardRun(x)
  PROVE  CronRunOK(y)'
<1>0. /\ \A s, g : SourceAt(s, g)' = SourceAt(s, g) /\ (Ships(s, g)' <=> Ships(s, g))
      /\ \A s, t, b : TouchedIn(s, t, b)' <=> TouchedIn(s, t, b)
      /\ mark' = mark
  BY SameCommits
<1>1. x \in DeployRuns /\ RunOK(Cron, x) /\ x.todo \in Seq(TargetSet) /\ x.todo # <<>>
  BY CronFields DEF Underway
<1>2. y.at \in {"next", "succeeded"} /\ (y.at = "succeeded" <=> y.todo = <<>>)
      /\ y.todo = Tail(x.todo) /\ y.goal = x.goal
  BY <1>1, CronIsClient, HeardRunIs
<1>3. a \in answers /\ a.id = x.id /\ a.s = Head(x.todo)
  BY DEF AnswersTo, Now
<1>4. Single(Head(x.todo)) => Ships(Head(x.todo), x.goal)
  BY <1>3 DEF CronRunOK, HearsIt
<1>5. PICK l : l = mark.last
  OBVIOUS
<1>6. ASSUME NEW s \in TargetSet, Single(s), TouchedIn(s, l, y.goal)'
      PROVE  s \in Range(y.todo) \/ Ships(s, y.goal)'
  <2>1. TouchedIn(s, mark.last, x.goal)
    BY <1>0, <1>2, <1>5, <1>6
  <2>2. s \in Range(x.todo) \/ Ships(s, x.goal)
    BY <1>6, <2>1 DEF CronRunOK, LeavesNone, Underway
  <2>3. s \in Range(y.todo) \/ Ships(s, x.goal)
    BY <1>1, <1>2, <1>4, <1>6, <2>2, HeadOrTail
  <2> QED BY <1>0, <1>2, <2>3
<1>7. mark'.last = l
  BY <1>0, <1>5
<1>8. LeavesNone(y)'
  BY <1>2, <1>6, <1>7 DEF LeavesNone, TouchedIn, Single, Strategy
<1>9. BuildsIt(y)' /\ InstallsIt(y)' /\ HearsIt(y)'
  BY <1>2 DEF BuildsIt, InstallsIt, HearsIt
<1> QED BY <1>8, <1>9 DEF CronRunOK

LEMMA CronRuns ==
  ASSUME DeployTyped, SourcesTyped', TreeGrows, AgentInv, AgentInv', RunGrows, CronInv, ClientStep(Cron)
  PROVE  CronInv'
<1> DEFINE Goal == CronInv'
<1> SUFFICES Goal
  OBVIOUS
<1>0. ClientsTyped /\ SourcesTyped /\ DeployTyped /\ Cron \in Clients /\ Cron \notin Requests
  BY CronIsClient DEF DeployTyped
<1>1. PICK x : x = deploy[Cron]
  OBVIOUS
<1>2. x \in DeployRuns /\ RunOK(Cron, x) /\ CronRunOK(x)
  BY <1>0, <1>1, RunFields DEF CronInv
<1>3. PICK y : y = deploy'[Cron]
  OBVIOUS
<1>4. UNCHANGED <<origin, tree, mark, agentVars>> /\ UNCHANGED <<origin, mark, agentVars>>
  BY ClientFrame
<1>5. MarkShips'
  BY <1>4, MarkStays DEF CronInv
<1>6. ASSUME CronRunOK(y)' PROVE Goal
  BY <1>3, <1>5, <1>6 DEF CronInv
<1>7. ASSUME y.at \in {"idle", "failed"} PROVE Goal
  <2>1. BuildsIt(y)' /\ InstallsIt(y)' /\ HearsIt(y)' /\ LeavesNone(y)'
    BY <1>7 DEF BuildsIt, InstallsIt, HearsIt, LeavesNone, Underway
  <2> QED BY <1>6, <2>1 DEF CronRunOK
<1> HIDE DEF Goal
<1>8. ASSUME Moves(Cron, AtRun(x, "failed")) PROVE Goal
  <2>1. y = AtRun(x, "failed")
    BY <1>0, <1>3, <1>8, MovesOne
  <2>2. y.at = "failed"
    BY <1>2, <2>1 DEF AtRun, DeployRuns
  <2> QED BY <1>7, <2>2
<1>9. ASSUME x.at \in Underway, y.at \in Underway, y.todo = x.todo, y.goal = x.goal, BuildsIt(y)',
             y.at = "waiting" => y.id \in Nat /\ asks \in Nat /\ y.id > asks
      PROVE  Goal
  <2>1. LeavesNone(x)
    BY <1>2 DEF CronRunOK
  <2>2. CronRunOK(y)'
    BY <1>4, <1>9, <2>1, CronCarries
  <2> QED BY <1>6, <2>2
<1>10. ~OperatorDeploys(Cron) /\ ~UiAsks(Cron)
  BY DeployAssumption DEF OperatorDeploys, UiAsks
<1>11. CASE CliFails(Cron) \/ SyncFails(Cron) \/ WaitTimesOut(Cron)
  BY <1>0, <1>1, <1>8, <1>11, GoesMoves DEF CliFails, SyncFails, WaitTimesOut
<1>12. CASE Build(Cron)
  <2>1. PICK v \in DeployVersions : Moves(Cron, BuiltRun(x, v))
    BY <1>0, <1>1, <1>12, BuildMoves
  <2>2. y = BuiltRun(x, v) /\ x.at = "next"
    BY <1>0, <1>1, <1>3, <1>12, <2>1, MovesOne DEF Build
  <2>3. y.at \in {"syncing", "hashing"} /\ y.todo = x.todo /\ y.goal = x.goal
    BY <1>0, <1>2, <2>2, BuiltRunIs
  <2>4. PICK s : s = Head(x.todo)
    OBVIOUS
  <2>5. PICK g : g = x.goal
    OBVIOUS
  <2>6. s \in TargetSet /\ g \in 0..tree.head /\ Source(s) \in Nat
    BY <1>0, <1>1, <2>2, <2>4, <2>5, CronFields, SourceIs DEF Underway
  <2>7. Strategy(s) # "python" => built'[s] = Source(s)
    BY <1>0, <1>1, <1>12, <2>4, <2>6 DEF Build, Now, SourcesTyped
  <2>8. SourceAt(s, g) <= Source(s)
    BY <1>0, <2>6, SourceIs
  <2>9. SourceAt(s, g)' = SourceAt(s, g)
    BY <1>4, SameCommits
  <2>10. Strategy(s) # "python" => SourceAt(s, g)' <= built'[s]
    BY <2>7, <2>8, <2>9
  <2>11. BuildsIt(y)'
    BY <2>3, <2>4, <2>5, <2>10 DEF BuildsIt, SourceAt, Strategy
  <2> QED BY <1>9, <2>2, <2>3, <2>11 DEF Underway
<1>13. CASE SyncBundle(Cron)
  <2>1. CASE Moves(Cron, SyncedRun(x))
    <3>1. y = SyncedRun(x) /\ x.at = "syncing"
      BY <1>0, <1>1, <1>3, <1>13, <2>1, MovesOne DEF SyncBundle, Syncing
    <3>2. y.at \in {"syncing", "hashing"} /\ y.todo = x.todo /\ y.goal = x.goal
      BY <1>0, <1>2, <3>1, SyncedRunIs
    <3>3. UNCHANGED <<origin, built>>
      BY <1>13 DEF SyncBundle, treeVars
    <3>4. BuildsIt(y)'
      BY <1>2, <3>1, <3>2, <3>3, BuildsCarries DEF CronRunOK
    <3> QED BY <1>9, <3>1, <3>2, <3>4 DEF Underway
  <2> QED BY <1>0, <1>1, <1>8, <1>13, <2>1, SyncMoves
<1>14. CASE HashBuild(Cron)
  <2>1. Moves(Cron, HashedRun(x)) /\ x.at = "hashing"
    BY <1>0, <1>1, <1>14, HashMoves DEF HashBuild
  <2>2. y = HashedRun(x) /\ Head(x.todo) \in TargetSet
    BY <1>0, <1>1, <1>3, <2>1, MovesOne, CronFields DEF Underway
  <2>3. y.at = "staging" /\ y.todo = x.todo /\ y.goal = x.goal
    BY <1>0, <1>2, <2>1, <2>2, HashedRunIs
  <2>4. UNCHANGED <<origin, built>>
    BY <1>14 DEF HashBuild, treeVars
  <2>5. BuildsIt(y)'
    BY <1>2, <2>1, <2>3, <2>4, BuildsCarries DEF CronRunOK
  <2> QED BY <1>9, <2>1, <2>3, <2>5 DEF Underway
<1>15. CASE PublishStaged(Cron)
  <2>0. asks \in Nat
    BY <1>0 DEF ClientsTyped
  <2>1. Moves(Cron, StagedRun(x)) /\ x.at = "staging"
    BY <1>0, <1>1, <1>15, StagedMoves DEF PublishStaged
  <2>2. y = StagedRun(x)
    BY <1>0, <1>3, <2>1, MovesOne
  <2>3. y.at = "waiting" /\ y.todo = x.todo /\ y.goal = x.goal /\ y.id = asks + 1
    BY <1>0, <1>2, <2>0, <2>1, <2>2, StagedRunIs
  <2>4. UNCHANGED <<origin, built>>
    BY <1>15 DEF PublishStaged, treeVars
  <2>5. BuildsIt(y)'
    BY <1>2, <2>1, <2>3, <2>4, BuildsCarries DEF CronRunOK
  <2> QED BY <1>9, <2>0, <2>1, <2>3, <2>5 DEF Underway
<1>16. CASE Hear(Cron)
  <2>1. CASE Moves(Cron, HeardRun(x)) /\ \E a \in AnswersTo(Cron) : a.how = "confirmed"
    <3>1. y = HeardRun(x) /\ x.at = "waiting"
      BY <1>0, <1>1, <1>3, <1>16, <2>1, MovesOne DEF Hear
    <3>2. PICK a \in AnswersTo(Cron) : a.how = "confirmed"
      BY <2>1
    <3>3. CronRunOK(y)'
      BY <1>0, <1>1, <1>2, <1>4, <3>1, <3>2, CronHears
    <3> QED BY <1>6, <3>3
  <2> QED BY <1>0, <1>1, <1>8, <1>16, <2>1, HearMoves
<1> QED
  BY <1>10, <1>11, <1>12, <1>13, <1>14, <1>15, <1>16 DEF ClientStep

LEMMA CronIdles == ASSUME NEW x, x.at = "idle" PROVE CronRunOK(x)'
<1>1. BuildsIt(x)' /\ InstallsIt(x)' /\ HearsIt(x)' /\ LeavesNone(x)'
  BY DEF BuildsIt, InstallsIt, HearsIt, LeavesNone, Underway
<1> QED BY <1>1 DEF CronRunOK

\* What has changed since the mark is put on the list.
LEMMA CronSetsOut ==
  ASSUME DeployTyped, CronInv, CronTick, AgentInv, AgentInv', RunGrows, TreeGrows
  PROVE  CronInv'
<1>0. ClientsTyped /\ SourcesTyped /\ DeployTyped /\ Len(origin) \in Nat /\ Cron \in Clients \ Requests
  BY CronIsClient DEF DeployTyped, SourcesTyped
<1>1. UNCHANGED <<origin, agentVars>> /\ deploy[Cron].at = "idle"
  BY TickMoves
<1>2. PICK n : n = Len(origin)
  OBVIOUS
<1>3. CASE mark' = [last |-> Len(origin), first |-> Len(origin)] /\ UNCHANGED deploy
  <2>1. PICK x : x = deploy[Cron]
    OBVIOUS
  <2>2. CronRunOK(x)'
    BY <1>1, <2>1, CronIdles
  <2>3. mark'.last = n /\ mark'.first = n /\ n \in Nat
    BY <1>0, <1>2, <1>3
  <2>4. \A s : ~TouchedIn(s, n, n)'
    BY <2>3 DEF TouchedIn
  <2>5. MarkShips'
    BY <2>3, <2>4 DEF MarkShips, TouchedIn
  <2> QED BY <1>3, <2>1, <2>2, <2>5 DEF CronInv
<1>4. CASE mark.last # -1 /\ UNCHANGED mark /\ Moves(Cron, BegunRun(TargetsFor(Since), Len(origin)))
  <2>1. PICK todo : todo = TargetsFor(Since)
    OBVIOUS
  <2>2. PICK y : y = BegunRun(todo, n)
    OBVIOUS
  <2>3. todo \in Seq(TargetSet) /\ \A s \in TargetSet : s \in Since => s \in Range(todo)
    BY <2>1, TargetsForIs
  <2>4. y.at = (IF todo = <<>> THEN "succeeded" ELSE "next") /\ y.todo = todo /\ y.goal = n
    BY <1>0, <1>2, <2>2, <2>3, BegunRunIs
  <2>5. deploy'[Cron] = y
    BY <1>0, <1>2, <1>4, <2>1, <2>2, MovesOne
  <2>6. PICK l : l = mark.last
    OBVIOUS
  <2>7. ASSUME NEW s \in TargetSet, TouchedIn(s, l, y.goal)' PROVE s \in Range(y.todo)
    <3>1. TouchedIn(s, l, n)
      BY <1>1, <2>4, <2>7, SameCommits
    <3>2. s \in Since
      BY <1>2, <2>6, <3>1 DEF TouchedIn, Since
    <3> QED BY <2>3, <2>4, <3>2
  <2>8. mark'.last = l
    BY <1>4, <2>6
  <2>9. LeavesNone(y)'
    BY <2>4, <2>7, <2>8 DEF LeavesNone, TouchedIn
  <2>10. BuildsIt(y)' /\ InstallsIt(y)' /\ HearsIt(y)'
    BY <2>4 DEF BuildsIt, InstallsIt, HearsIt
  <2>11. CronRunOK(y)'
    BY <2>9, <2>10 DEF CronRunOK
  <2>12. MarkShips'
    BY <1>4, MarkStays DEF CronInv
  <2> QED BY <2>5, <2>11, <2>12 DEF CronInv
<1> QED BY <1>3, <1>4, TickMoves

\* Only what is deployed is passed by the mark.
LEMMA CronMarks ==
  ASSUME DeployTyped, CronInv, CronEnds
  PROVE  CronInv'
<1>0. ClientsTyped /\ SourcesTyped /\ DeployTyped /\ deploy \in [Clients -> DeployRuns]
      /\ Cron \in Clients \ Requests /\ mark \in [last : Int, first : Int]
  BY CronIsClient DEF DeployTyped, ClientsTyped, MarkTyped
<1>1. UNCHANGED <<origin, agentVars>> /\ deploy' = [deploy EXCEPT ![Cron] = IdleClient]
      /\ deploy[Cron].at \in {"succeeded", "failed"}
      /\ mark' = [mark EXCEPT !.last = IF deploy[Cron].at = "succeeded" THEN deploy[Cron].goal ELSE @]
  BY DEF CronEnds, treeVars
<1>2. /\ \A s, g : SourceAt(s, g)' = SourceAt(s, g) /\ (Ships(s, g)' <=> Ships(s, g))
      /\ \A s, a, b : TouchedIn(s, a, b)' <=> TouchedIn(s, a, b)
  BY <1>1, SameCommits
<1>3. PICK x : x = deploy[Cron]
  OBVIOUS
<1>4. PICK f : f = mark.first
  OBVIOUS
<1>5. PICK l : l = mark.last
  OBVIOUS
<1>6. PICK k : k = IF x.at = "succeeded" THEN x.goal ELSE l
  OBVIOUS
<1>7. mark'.first = f /\ mark'.last = k
  BY <1>0, <1>1, <1>3, <1>4, <1>5, <1>6
<1>8. l \in Nat /\ f \in Nat /\ x.goal \in 0..Len(origin) /\ l <= x.goal /\ k \in Nat
  BY <1>0, <1>1, <1>3, <1>4, <1>5, <1>6, CronFields
<1>9. ASSUME NEW s \in TargetSet, Single(s), TouchedIn(s, f, k)' PROVE Ships(s, k)'
  <2>1. TouchedIn(s, f, k)
    BY <1>2, <1>9
  <2>2. TouchedIn(s, f, l) => Ships(s, l)
    BY <1>4, <1>5, <1>8, <1>9 DEF CronInv, MarkShips
  <2>3. CASE x.at = "failed"
    BY <1>2, <1>6, <2>1, <2>2, <2>3
  <2>4. CASE x.at = "succeeded"
    <3>0. k = x.goal
      BY <1>6, <2>4
    <3>1. LeavesNone(x)
      BY <1>3 DEF CronInv, CronRunOK
    <3>2. x.todo = <<>>
      BY <2>4, <3>1 DEF LeavesNone
    <3>3. s \notin Range(x.todo)
      BY <3>2 DEF Range
    <3>4. CASE TouchedIn(s, l, k)
      <4>1. Ships(s, k)
        BY <1>5, <1>9, <2>4, <3>0, <3>1, <3>3, <3>4 DEF LeavesNone
      <4> QED BY <1>2, <4>1
    <3>5. CASE ~TouchedIn(s, l, k)
      <4>1. \A i \in (l + 1)..k : s \notin origin[i]
        BY <3>5 DEF TouchedIn
      <4>2. TouchedIn(s, f, l)
        BY <1>8, <2>1, <4>1 DEF TouchedIn
      <4>3. LastTouch(origin, s, l) = LastTouch(origin, s, k)
        BY <1>8, <3>0, <4>1, LastTouchGrows
      <4>4. SourceAt(s, l) = SourceAt(s, k)
        BY <4>3, SourceAtIs
      <4>5. Ships(s, k)
        BY <2>2, <4>2, <4>4 DEF Ships
      <4> QED BY <1>2, <4>5
    <3> QED BY <3>4, <3>5
  <2> QED BY <1>1, <1>3, <2>3, <2>4
<1>10. MarkShips'
  BY <1>7, <1>9 DEF MarkShips, TouchedIn, Ships, SourceAt, RunBuild, Single, Strategy
<1>11. PICK y : y = IdleClient
  OBVIOUS
<1>12. y.at = "idle" /\ deploy'[Cron] = y
  BY <1>0, <1>1, <1>11 DEF IdleClient
<1>13. CronRunOK(y)'
  BY <1>12, CronIdles
<1> QED BY <1>10, <1>12, <1>13 DEF CronInv

LEMMA CronKept ==
  ASSUME DeployTyped, SourcesTyped', TreeGrows, AgentInv, AgentInv', RunGrows, CronInv,
         [DeployNext]_deployVars
  PROVE  CronInv'
<1>1. ASSUME NEW c \in Clients, ClientStep(c) PROVE CronInv'
  <2>1. CASE c = Cron
    BY <1>1, <2>1, CronRuns
  <2>2. CASE c # Cron
    <3>1. deploy'[Cron] = deploy[Cron]
      BY <1>1, <2>2, CronIsClient, OthersStay
    <3>2. UNCHANGED mark /\ UNCHANGED agentVars
      BY <1>1, ClientFrame
    <3> QED BY <3>1, <3>2, CronStays
  <2> QED BY <2>1, <2>2
<1>2. CASE DeployAgentStep
  <2>1. deploy'[Cron] = deploy[Cron]
    BY <1>2, CronIsClient, AgentMovesClients
  <2>2. UNCHANGED mark
    BY <1>2, AgentFrame DEF clientVars
  <2> QED BY <1>2, <2>1, <2>2, CronStays
<1>3. CASE Merged \/ EditSources \/ UNCHANGED deployVars
  <2>1. deploy'[Cron] = deploy[Cron] /\ UNCHANGED mark /\ UNCHANGED agentVars
    BY <1>3 DEF Merged, EditSources, deployVars
  <2> QED BY <2>1, CronStays
<1> QED BY <1>1, <1>2, <1>3, CronSetsOut, CronMarks DEF DeployNext

\* Hence the property of the mark.
LEMMA MarkFollowed == DeployTyped /\ CronInv => SinglesFollowMark
<1> SUFFICES ASSUME DeployTyped, CronInv, NEW s \in Passed, Strategy(s) # "swap" PROVE RunsCommit(s)
  BY DEF SinglesFollowMark
<1>1. PICK i \in (mark.first + 1)..mark.last : s \in origin[i]
  BY DEF Passed
<1>2. s \in TargetSet
  BY DEF Passed
<1>3. mark.first \in Int /\ mark.last \in Int /\ mark.first >= -1
  BY DEF DeployTyped, MarkTyped
<1>4. mark.last >= 0
  BY <1>1, <1>3
<1>5. TouchedIn(s, mark.first, mark.last)
  BY <1>1 DEF TouchedIn
<1>6. Ships(s, mark.last)
  BY <1>2, <1>4, <1>5 DEF CronInv, MarkShips, Single
<1> QED BY <1>6 DEF Ships, RunBuild, RunsCommit

\* The runs that have built the dashboard and not asked for its deploy yet.
AtUi(c, x) ==
  c \notin Requests /\ x.at \in {"syncing", "hashing", "staging"} /\ Head(x.todo) = UiServer
Serves(h) == bundle.dist # NoBundle => h <= bundle.dist.build
UiRunOK(x) ==
  /\ x.at = "syncing" =>
       /\ x.step >= 2 => ~bundle.src.stray /\ built[UiServer] <= bundle.src.build
       /\ x.step = 3 => bundle.new = NoBundle
       /\ x.step \in 4..6 => bundle.new = bundle.src
       /\ x.step = 6 => bundle.dist = NoBundle
       /\ x.step = 7 => Serves(built[UiServer])
  /\ x.at = "hashing" => Serves(built[UiServer])
  /\ x.at = "staging" => Serves(x.hash)
ServedBy(m) == m.s = UiServer /\ m.by \notin Requests => Serves(m.hash)
ServesAll ==
  /\ \A i \in DOMAIN staged : ServedBy(staged[i])
  /\ agentJob.at # "idle" => ServedBy(Job)
  /\ proc[UiServer].by \notin Requests => Serves(proc[UiServer].checked)
\* Between its build and its request a run of the dashboard is alone, and what it
\* has moved is what the next command expects; no bundle served is older than what
\* was asked for.
UiServes ==
  /\ \A c, d \in Clients : AtUi(c, deploy[c]) /\ AtUi(d, deploy[d]) => c = d
  /\ \A c \in Clients : \A x \in {deploy[c]} : AtUi(c, x) => UiRunOK(x)
  /\ bundle.dist = NoBundle =>
       \E c \in Clients : AtUi(c, deploy[c]) /\ deploy[c].at = "syncing" /\ deploy[c].step = 6
  /\ ~bundle.dist.stray
  /\ ServesAll
UiInv == ~bundle.torn => UiServes

LEMMA SyncingIsAtUi ==
  ASSUME ClientsTyped, NEW c \in Clients, NEW x, x = deploy[c], x.at = "syncing"
  PROVE  AtUi(c, x) /\ x.step \in 1..7 /\ c \notin Requests
<1>1. x \in DeployRuns /\ RunOK(c, x)
  BY RunFields
<1> QED BY <1>1 DEF RunOK, AtUi

\* A step that touches no file of the bundle.
LEMMA UiCarries ==
  ASSUME UiServes, bundle'.dist = bundle.dist, ServesAll',
         \A d \in Clients : \A y \in {deploy'[d]} :
           AtUi(d, y) => AtUi(d, deploy[d]) /\ UiRunOK(y)',
         \A d \in Clients : AtUi(d, deploy[d]) /\ deploy[d].at = "syncing" /\ deploy[d].step = 6 =>
           deploy'[d] = deploy[d]
  PROVE  UiServes'
<1>1. ASSUME NEW c \in Clients, NEW d \in Clients, AtUi(c, deploy'[c]), AtUi(d, deploy'[d])
      PROVE  c = d
  BY <1>1 DEF UiServes
<1>2. ASSUME NEW c \in Clients, NEW y, y = deploy'[c], AtUi(c, y) PROVE UiRunOK(y)'
  BY <1>2
<1>3. ASSUME bundle'.dist = NoBundle
      PROVE  \E c \in Clients : /\ AtUi(c, deploy'[c]) /\ deploy'[c].at = "syncing"
                                /\ deploy'[c].step = 6
  <2>1. PICK c \in Clients : AtUi(c, deploy[c]) /\ deploy[c].at = "syncing" /\ deploy[c].step = 6
    BY <1>3 DEF UiServes
  <2>2. deploy'[c] = deploy[c]
    BY <2>1
  <2> QED BY <2>1, <2>2
<1>4. ~bundle'.dist.stray
  BY DEF UiServes
<1>5. \A c \in Clients : \A y \in {deploy'[c]} : AtUi(c, y) => UiRunOK(y)'
  BY <1>2
<1>6. \A c, d \in Clients : AtUi(c, deploy'[c]) /\ AtUi(d, deploy'[d]) => c = d
  BY <1>1
<1> HIDE DEF UiRunOK, ServesAll, NoBundle
<1> QED BY <1>3, <1>4, <1>5, <1>6 DEF UiServes, AtUi

\* A run that stays, beside a bundle and a build that stay.
LEMMA UiRunSame ==
  ASSUME bundle'.src = bundle.src, bundle'.new = bundle.new, bundle'.dist = bundle.dist,
         built'[UiServer] = built[UiServer], NEW x, UiRunOK(x)
  PROVE  UiRunOK(x)'
BY DEF UiRunOK, Serves

LEMMA ServesSame ==
  ASSUME bundle'.dist = bundle.dist, NEW h PROVE Serves(h)' <=> Serves(h)
BY DEF Serves

LEMMA OwedSame ==
  ASSUME bundle'.dist = bundle.dist, NEW m PROVE ServedBy(m)' <=> ServedBy(m)
BY ServesSame DEF ServedBy

\* What is owed after a step that leaves the bundle alone.
LEMMA OwedStays ==
  ASSUME ServesAll, bundle'.dist = bundle.dist,
         \A i \in DOMAIN staged' : ServedBy(staged'[i]),
         \A j \in {agentJob'} : j.at # "idle" => ServedBy(j.ask),
         \A p \in {proc'[UiServer]} : p.by \notin Requests => Serves(p.checked)
  PROVE  ServesAll'
<1>1. \A i \in DOMAIN staged' : \A m \in {staged'[i]} : ServedBy(m)'
  BY OwedSame
<1>2. \A j \in {agentJob'} : j.at # "idle" => \A m \in {j.ask} : ServedBy(m)'
  BY OwedSame
<1>3. \A p \in {proc'[UiServer]} : p.by \notin Requests => \A h \in {p.checked} : Serves(h)'
  BY ServesSame
<1> QED BY <1>1, <1>2, <1>3 DEF ServesAll, ServedBy, Serves, Job

\* Where the agent's messages, its job and what runs come from.
LEMMA StagedFrom ==
  ASSUME AgentTyped, DeployAgentStep
  PROVE  \A i \in DOMAIN staged' : \E k \in DOMAIN staged : staged'[i] = staged[k]
<1>0. staged \in Seq(StagedAsks)
  BY DEF AgentTyped
<1>1. CASE UNCHANGED staged
  BY <1>1
<1>2. CASE TakeStagedAsk
  <2>1. staged # <<>> /\ staged' = Tail(staged)
    BY <1>2 DEF TakeStagedAsk
  <2>2. \A i \in DOMAIN staged' : i + 1 \in DOMAIN staged /\ staged'[i] = staged[i + 1]
    BY <1>0, <2>1
  <2> QED BY <2>2
<1>3. CASE AgentIsLost
  <2>1. staged' = <<>>
    BY <1>3 DEF AgentIsLost
  <2>2. DOMAIN staged' = {}
    BY <2>1
  <2> QED BY <2>2
<1> QED
  BY <1>1, <1>2, <1>3 DEF DeployAgentStep, CheckStaged, InstallBuild, InstallFails, StopProcess,
     StartProcess, ProcessFails, AwaitRunning, ConfirmDeploy, SwapVersions

LEMMA JobFrom ==
  ASSUME AgentTyped, DeployAgentStep, agentJob'.at # "idle"
  PROVE  \/ agentJob.at # "idle" /\ agentJob'.ask = Job
         \/ \E k \in DOMAIN staged : agentJob'.ask = staged[k]
<1>0. agentJob \in AgentJobs /\ staged \in Seq(StagedAsks)
  BY DEF AgentTyped
<1>1. ~AgentRests
  BY DEF AgentRests, AgentAtRest
<1>2. ASSUME NEW at, AgentMoves(at) PROVE agentJob'.ask = Job
  BY <1>0, <1>2 DEF AgentMoves, AgentJobs, Job
<1>3. CASE TakeStagedAsk
  <2>1. agentJob'.ask = Head(staged) /\ staged # <<>>
    BY <1>3 DEF TakeStagedAsk
  <2>2. 1 \in DOMAIN staged /\ Head(staged) = staged[1]
    BY <1>0, <2>1
  <2> QED BY <2>1, <2>2
<1>4. CASE CheckStaged
  <2>1. agentJob' = [agentJob EXCEPT !.at = "installing", !.seen = Job.hash]
    BY <1>1, <1>4 DEF CheckStaged
  <2>2. agentJob'.ask = Job /\ agentJob.at = "checking"
    BY <1>0, <1>4, <2>1 DEF AgentJobs, Job, CheckStaged, AgentAt
  <2> QED BY <2>2
<1>5. CASE InstallBuild \/ StopProcess \/ StartProcess \/ AwaitRunning
  <2>1. agentJob.at # "idle"
    BY <1>5 DEF InstallBuild, StopProcess, StartProcess, AwaitRunning, AgentAt
  <2>2. agentJob'.ask = Job
    BY <1>2, <1>5 DEF InstallBuild, StopProcess, StartProcess, AwaitRunning
  <2> QED BY <2>1, <2>2
<1>6. CASE InstallFails \/ ProcessFails \/ ConfirmDeploy \/ SwapVersions \/ AgentIsLost
  BY <1>1, <1>6 DEF InstallFails, ProcessFails, ConfirmDeploy, SwapVersions, AgentIsLost
<1> QED BY <1>3, <1>4, <1>5, <1>6 DEF DeployAgentStep

LEMMA RunsFrom ==
  ASSUME AgentInv, DeployAgentStep, NEW s \in TargetSet
  PROVE  \/ proc'[s].by = proc[s].by /\ proc'[s].checked = proc[s].checked
         \/ /\ agentJob.at # "idle" /\ Job.s = s
            /\ proc'[s].by = Job.by /\ proc'[s].checked = Job.hash
<1>0. AgentTyped /\ proc \in [TargetSet -> DeployProcs] /\ JobOK(agentJob)
  BY DEF AgentInv, AgentTyped, JobInv
<1>1. CASE UNCHANGED proc
  BY <1>1
<1>2. ASSUME NEW u \in BOOLEAN, proc' = [proc EXCEPT ![Job.s].up = u]
      PROVE  proc'[s].by = proc[s].by /\ proc'[s].checked = proc[s].checked
  BY <1>0, <1>2, JobFields, UpDown
<1>3. CASE StopProcess
  <2>1. proc' = [proc EXCEPT ![Job.s].up = FALSE]
    BY <1>3 DEF StopProcess
  <2> QED BY <1>2, <2>1
<1>4. CASE ProcessFails
  <2>1. UNCHANGED proc \/ proc' = [proc EXCEPT ![Job.s].up = FALSE]
    BY <1>4 DEF ProcessFails
  <2> QED BY <1>1, <1>2, <2>1
<1>5. ASSUME NEW b, agentJob.at # "idle",
             proc' = [proc EXCEPT ![Job.s] = [up |-> TRUE, build |-> b, checked |-> Job.hash, by |-> Job.by]]
      PROVE  \/ proc'[s].by = proc[s].by /\ proc'[s].checked = proc[s].checked
             \/ /\ agentJob.at # "idle" /\ Job.s = s
                /\ proc'[s].by = Job.by /\ proc'[s].checked = Job.hash
  BY <1>0, <1>5
<1>6. CASE StartProcess
  <2>1. agentJob.at \in {"starting", "restarting"}
        /\ proc' = [proc EXCEPT ![Job.s] = [up |-> TRUE, build |-> binary[Job.s],
                                          checked |-> agentJob.seen, by |-> Job.by]]
    BY <1>6 DEF StartProcess
  <2>2. agentJob.seen = Job.hash
    BY <1>0, <2>1 DEF JobOK, Job
  <2> QED BY <1>5, <2>1, <2>2
<1>7. CASE SwapVersions
  <2>1. agentJob.at # "idle"
    BY <1>7 DEF SwapVersions, AgentAt
  <2>2. \/ UNCHANGED proc
        \/ proc' = [proc EXCEPT ![Job.s] = [up |-> TRUE, build |-> built[Job.s],
                                              checked |-> Job.hash, by |-> Job.by]]
    BY <1>7 DEF SwapVersions
  <2> QED BY <1>1, <1>5, <2>1, <2>2
<1> QED
  BY <1>1, <1>3, <1>4, <1>6, <1>7 DEF DeployAgentStep, TakeStagedAsk, CheckStaged, InstallBuild,
     InstallFails, AwaitRunning, ConfirmDeploy, AgentIsLost

LEMMA UiAgent ==
  ASSUME DeployTyped, AgentInv, UiServes, DeployAgentStep
  PROVE  UiServes'
<1>0. AgentTyped /\ UNCHANGED treeVars /\ UNCHANGED bundle /\ ServesAll /\ UiServer \in TargetSet
      /\ bundle'.dist = bundle.dist
  BY AgentFrame, DeployAssumption DEF AgentInv, clientVars, UiServes
<1>1. ASSUME NEW i \in DOMAIN staged' PROVE ServedBy(staged'[i])
  <2>1. PICK k \in DOMAIN staged : staged'[i] = staged[k]
    BY <1>0, <1>1, StagedFrom
  <2> QED BY <1>0, <2>1 DEF ServesAll
<1>2. ASSUME NEW j, j = agentJob', j.at # "idle" PROVE ServedBy(j.ask)
  <2>1. CASE agentJob.at # "idle" /\ j.ask = Job
    BY <1>0, <2>1 DEF ServesAll
  <2>2. CASE \E k \in DOMAIN staged : j.ask = staged[k]
    BY <1>0, <2>2 DEF ServesAll
  <2> QED BY <1>0, <1>2, <2>1, <2>2, JobFrom
<1>3. ASSUME NEW p, p = proc'[UiServer], p.by \notin Requests PROVE Serves(p.checked)
  <2>1. CASE p.by = proc[UiServer].by /\ p.checked = proc[UiServer].checked
    BY <1>0, <1>3, <2>1 DEF ServesAll
  <2>2. CASE /\ agentJob.at # "idle" /\ Job.s = UiServer
             /\ p.by = Job.by /\ p.checked = Job.hash
    BY <1>0, <1>3, <2>2 DEF ServesAll, ServedBy
  <2> QED BY <1>0, <1>3, <2>1, <2>2, RunsFrom
<1>4. ServesAll'
  BY <1>0, <1>1, <1>2, <1>3, OwedStays
<1>5. ASSUME NEW d \in Clients, d \notin Requests PROVE deploy'[d] = deploy[d]
  BY <1>5, AgentMovesClients
<1>6. ASSUME NEW d \in Clients, NEW y, y = deploy'[d], AtUi(d, y)
      PROVE  AtUi(d, deploy[d]) /\ UiRunOK(y)'
  <2>1. y = deploy[d]
    BY <1>5, <1>6 DEF AtUi
  <2>2. AtUi(d, deploy[d]) /\ UiRunOK(y)
    BY <1>6, <2>1 DEF UiServes
  <2>3. built' = built /\ bundle' = bundle
    BY <1>0 DEF treeVars
  <2> QED BY <2>2, <2>3, UiRunSame
<1>7. ASSUME NEW d \in Clients, AtUi(d, deploy[d]) PROVE deploy'[d] = deploy[d]
  BY <1>5, <1>7 DEF AtUi
<1> QED BY <1>0, <1>4, <1>6, <1>7, UiCarries

LEMMA ServesStays ==
  ASSUME ServesAll, bundle'.dist = bundle.dist, UNCHANGED <<staged, agentVars>>
  PROVE  ServesAll'
<1>1. UNCHANGED <<staged, agentJob, proc>>
  BY DEF agentVars
<1>2. \A i \in DOMAIN staged' : ServedBy(staged'[i])
  BY <1>1 DEF ServesAll
<1>3. \A j \in {agentJob'} : j.at # "idle" => ServedBy(j.ask)
  BY <1>1 DEF ServesAll, Job
<1>4. \A p \in {proc'[UiServer]} : p.by \notin Requests => Serves(p.checked)
  BY <1>1 DEF ServesAll
<1> QED BY <1>2, <1>3, <1>4, OwedStays

\* One run moves beside a bundle and a build that stay.
LEMMA UiMoves ==
  ASSUME UiServes, NEW c \in Clients, NEW x, x = deploy[c], NEW y, y = deploy'[c],
         \A d \in Clients : d # c => deploy'[d] = deploy[d],
         bundle'.src = bundle.src, bundle'.new = bundle.new, bundle'.dist = bundle.dist,
         built'[UiServer] = built[UiServer], ServesAll',
         AtUi(c, y) => AtUi(c, x) /\ UiRunOK(y),
         x.at = "syncing" /\ x.step = 6 /\ AtUi(c, x) => y = x
  PROVE  UiServes'
<1>1. ASSUME NEW d \in Clients, NEW z, z = deploy'[d], AtUi(d, z)
      PROVE  AtUi(d, deploy[d]) /\ UiRunOK(z)'
  <2>1. AtUi(d, deploy[d]) /\ UiRunOK(z)
    BY <1>1 DEF UiServes
  <2> QED BY <2>1, UiRunSame
<1>2. ASSUME NEW d \in Clients, AtUi(d, deploy[d]), deploy[d].at = "syncing", deploy[d].step = 6
      PROVE  deploy'[d] = deploy[d]
  BY <1>2
<1> QED BY <1>1, <1>2, UiCarries

\* A client's step that builds no dashboard and moves no file of one.
LEMMA UiClient ==
  ASSUME DeployTyped, SourcesTyped', AgentInv, UiServes, NEW c \in Clients, ClientStep(c),
         ~SyncBundle(c), ~SyncFails(c), ~(Build(c) /\ Now(c) = UiServer)
  PROVE  UiServes'
<1> DEFINE Goal == UiServes'
<1> SUFFICES Goal
  OBVIOUS
<1>0. ClientsTyped /\ SourcesTyped /\ DeployTyped /\ ServesAll /\ UiServer \in TargetSet
      /\ built \in [TargetSet -> Nat] /\ bundle \in UiBundles /\ bundle.dist.build \in Int
  BY DeployAssumption DEF DeployTyped, UiServes, SourcesTyped, ClientsTyped, UiBundles, UiFiles
<1>1. PICK x : x = deploy[c]
  OBVIOUS
<1>2. PICK y : y = deploy'[c]
  OBVIOUS
<1>3. x \in DeployRuns /\ RunOK(c, x)
  BY <1>0, <1>1, RunFields
<1>4. \A d \in Clients : d # c => deploy'[d] = deploy[d]
  BY OthersStay
<1>5. UNCHANGED agentVars /\ (~PublishStaged(c) => UNCHANGED staged) /\ (~Build(c) => UNCHANGED built)
  BY ClientFrame
<1>6. bundle'.src = bundle.src /\ bundle'.new = bundle.new /\ bundle'.dist = bundle.dist
      /\ built'[UiServer] = built[UiServer]
  <2>1. CASE Build(c)
    <3>1. PICK s : s = Now(c)
      OBVIOUS
    <3>2. s # UiServer
      BY <2>1, <3>1
    <3>3. built' = IF Strategy(s) = "python" THEN built ELSE [built EXCEPT ![s] = Source(s)]
      BY <2>1, <3>1 DEF Build
    <3>4. bundle' = [bundle EXCEPT !.torn = @ \/ (s = UiServer /\ MeetsAnother(c))]
      BY <2>1, <3>1 DEF Build
    <3>5. bundle'.src = bundle.src /\ bundle'.new = bundle.new /\ bundle'.dist = bundle.dist
      BY <1>0, <3>4 DEF UiBundles
    <3>6. built'[UiServer] = built[UiServer]
      BY <1>0, <3>2, <3>3
    <3> QED BY <3>5, <3>6
  <2>2. CASE ~Build(c)
    BY <2>2, ClientFrame
  <2> QED BY <2>1, <2>2
<1>7. ASSUME ServesAll', AtUi(c, y) => AtUi(c, x) /\ UiRunOK(y), x.at # "syncing" PROVE Goal
  BY <1>1, <1>2, <1>4, <1>6, <1>7, UiMoves
<1>8. ~PublishStaged(c) => ServesAll'
  BY <1>0, <1>5, <1>6, ServesStays
<1> HIDE DEF Goal
<1>9. ASSUME NEW at \in {"failed", "next", "succeeded"}, y.at = at, x.at # "syncing", ~PublishStaged(c)
      PROVE  Goal
  BY <1>7, <1>8, <1>9 DEF AtUi
<1>10. CASE OperatorDeploys(c)
  <2>1. PICK todo \in Seq(TargetSet) : Moves(c, BegunRun(todo, 0))
    BY <1>10, OperatorMoves
  <2>2. y = BegunRun(todo, 0)
    BY <1>0, <1>2, <2>1, MovesOne
  <2>3. y.at = (IF todo = <<>> THEN "succeeded" ELSE "next")
    BY <1>10, <2>2, OperatorMoves, BegunRunIs
  <2>4. x.at = "idle" /\ ~PublishStaged(c)
    BY <1>1, <1>10 DEF OperatorDeploys, PublishStaged
  <2> QED BY <1>9, <2>3, <2>4
<1>11. CASE CliFails(c) \/ WaitTimesOut(c)
  <2>1. Moves(c, AtRun(x, "failed"))
    BY <1>0, <1>1, <1>11, GoesMoves DEF CliFails, WaitTimesOut
  <2>2. y = AtRun(x, "failed")
    BY <1>0, <1>2, <2>1, MovesOne
  <2>3. y.at = "failed"
    BY <1>3, <2>2 DEF AtRun, DeployRuns
  <2>4. x.at # "syncing"
    BY <1>1, <1>11 DEF CliFails, WaitTimesOut
  <2>5. ~PublishStaged(c)
    <3>1. PublishStaged(c) => y.at = "waiting"
      BY <1>0, <1>2 DEF PublishStaged, ClientsTyped, DeployRuns
    <3> QED BY <2>3, <3>1
  <2> QED BY <1>9, <2>3, <2>4, <2>5
<1>12. CASE Build(c)
  <2>1. PICK v \in DeployVersions : Moves(c, BuiltRun(x, v))
    BY <1>0, <1>1, <1>12, BuildMoves
  <2>2. y = BuiltRun(x, v) /\ x.at = "next"
    BY <1>0, <1>1, <1>2, <1>12, <2>1, MovesOne DEF Build
  <2>3. y.todo = x.todo
    BY <1>3, <2>2, BuiltRunIs
  <2>4. Head(y.todo) # UiServer
    BY <1>1, <1>12, <2>3 DEF Now
  <2>5. ~PublishStaged(c)
    BY <1>12 DEF Build, PublishStaged
  <2> QED BY <1>7, <1>8, <2>2, <2>4, <2>5 DEF AtUi
<1>13. CASE HashBuild(c)
  <2>1. Moves(c, HashedRun(x)) /\ x.at = "hashing" /\ ~PublishStaged(c)
    BY <1>0, <1>1, <1>13, HashMoves DEF HashBuild, PublishStaged
  <2>2. y = HashedRun(x) /\ Head(x.todo) \in TargetSet
    BY <1>0, <1>1, <1>2, <2>1, MovesOne, HeadOfTodo DEF Underway, Now
  <2>3. y.at = "staging" /\ y.todo = x.todo /\ c \notin Requests
        /\ y.hash = IF Strategy(Head(x.todo)) = "python" THEN 0 ELSE built[Head(x.todo)]
    BY <1>0, <1>3, <2>1, <2>2, HashedRunIs
  <2>4. ASSUME AtUi(c, y) PROVE AtUi(c, x) /\ UiRunOK(y)
    <3>1. AtUi(c, x) /\ Head(x.todo) = UiServer
      BY <2>1, <2>3, <2>4 DEF AtUi
    <3>2. UiRunOK(x)
      BY <1>1, <3>1 DEF UiServes
    <3>3. Serves(built[UiServer])
      BY <2>1, <3>2 DEF UiRunOK
    <3>4. Serves(y.hash)
      BY <1>0, <2>3, <3>1, <3>3 DEF Serves
    <3> QED BY <2>3, <3>1, <3>4 DEF UiRunOK
  <2> QED BY <1>7, <1>8, <2>1, <2>4
<1>14. CASE UiAsks(c)
  <2>1. c \in Requests /\ x.at = "idle" /\ ~PublishStaged(c)
    BY <1>1, <1>14 DEF UiAsks, PublishStaged
  <2> QED BY <1>7, <1>8, <2>1 DEF AtUi
<1>15. CASE PublishStaged(c)
  <2>0. asks \in Nat
    BY <1>0 DEF ClientsTyped
  <2>1. Moves(c, StagedRun(x)) /\ x.at = "staging"
    BY <1>0, <1>1, <1>15, StagedMoves DEF PublishStaged
  <2>2. y = StagedRun(x)
    BY <1>0, <1>2, <2>1, MovesOne
  <2>3. y.at = "waiting"
    BY <1>3, <2>0, <2>1, <2>2, StagedRunIs
  <2>4. PICK m : m = [id |-> asks', s |-> Now(c), hash |-> deploy[c].hash,
                      version |-> deploy[c].version, by |-> c]
    OBVIOUS
  <2>5. staged' = Append(staged, m)
    BY <1>15, <2>4 DEF PublishStaged
  <2>6. ServedBy(m)
    <3>1. m.s = Now(c) /\ m.by = c /\ m.hash = x.hash
      BY <1>1, <2>4
    <3>2. ASSUME m.s = UiServer, c \notin Requests PROVE Serves(x.hash)
      <4>1. AtUi(c, x)
        BY <1>1, <2>1, <3>1, <3>2 DEF AtUi, Now
      <4>2. UiRunOK(x)
        BY <1>1, <4>1 DEF UiServes
      <4> QED BY <2>1, <4>2 DEF UiRunOK
    <3> QED BY <3>1, <3>2 DEF ServedBy
  <2>7. \A i \in DOMAIN staged' : (i \in DOMAIN staged /\ staged'[i] = staged[i]) \/ staged'[i] = m
    <3>1. staged \in Seq(StagedAsks)
      BY DEF AgentInv, AgentTyped
    <3> QED BY <2>5, <3>1
  <2>8. \A i \in DOMAIN staged' : ServedBy(staged'[i])
    BY <1>0, <2>6, <2>7 DEF ServesAll
  <2>9. UNCHANGED <<agentJob, proc>>
    BY <1>5 DEF agentVars
  <2>10. \A j \in {agentJob'} : j.at # "idle" => ServedBy(j.ask)
    BY <1>0, <2>9 DEF ServesAll, Job
  <2>11. \A p \in {proc'[UiServer]} : p.by \notin Requests => Serves(p.checked)
    BY <1>0, <2>9 DEF ServesAll
  <2>12. ServesAll'
    BY <1>0, <1>6, <2>8, <2>10, <2>11, OwedStays
  <2> QED BY <1>7, <2>1, <2>3, <2>12 DEF AtUi
<1>16. CASE Hear(c)
  <2>0. x.at = "waiting" /\ ~PublishStaged(c)
    BY <1>1, <1>16 DEF Hear, PublishStaged
  <2>1. CASE Moves(c, HeardRun(x))
    <3>1. y = HeardRun(x)
      BY <1>0, <1>2, <2>1, MovesOne
    <3>2. y.at = IF Len(x.todo) = 1 THEN "succeeded" ELSE "next"
      BY <1>3, <2>0, <3>1, HeardRunIs
    <3> QED BY <1>9, <2>0, <3>2
  <2>2. CASE Moves(c, AtRun(x, "failed"))
    <3>1. y = AtRun(x, "failed")
      BY <1>0, <1>2, <2>2, MovesOne
    <3>2. y.at = "failed"
      BY <1>3, <3>1 DEF AtRun, DeployRuns
    <3> QED BY <1>9, <2>0, <3>2
  <2> QED BY <1>0, <1>1, <1>16, <2>1, <2>2, HearMoves
<1> QED
  BY <1>10, <1>11, <1>12, <1>13, <1>14, <1>15, <1>16 DEF ClientStep

\* A run alone at the dashboard moves the bundle.
LEMMA UiAlone ==
  ASSUME NEW c \in Clients, NEW y, y = deploy'[c],
         \A d \in Clients : d # c => ~AtUi(d, deploy'[d]),
         AtUi(c, y) => UiRunOK(y)',
         bundle'.dist = NoBundle => AtUi(c, y) /\ y.at = "syncing" /\ y.step = 6,
         ~bundle'.dist.stray, ServesAll'
  PROVE  UiServes'
<1>1. \A d, e \in Clients : AtUi(d, deploy'[d]) /\ AtUi(e, deploy'[e]) => d = e
  OBVIOUS
<1>2. \A d \in Clients : \A z \in {deploy'[d]} : AtUi(d, z) => UiRunOK(z)'
  OBVIOUS
<1>3. bundle'.dist = NoBundle =>
        \E d \in Clients : AtUi(d, deploy'[d]) /\ deploy'[d].at = "syncing" /\ deploy'[d].step = 6
  OBVIOUS
<1> HIDE DEF UiRunOK, ServesAll, NoBundle
<1> QED BY <1>1, <1>2, <1>3 DEF UiServes, AtUi

\* The dashboard is built: nobody else may be at it.
LEMMA UiBuilds ==
  ASSUME DeployTyped, SourcesTyped', UiServes, NEW c \in Clients, Build(c), Now(c) = UiServer,
         ~bundle'.torn
  PROVE  UiServes'
<1>0. ClientsTyped /\ DeployTyped /\ bundle \in UiBundles /\ ServesAll
  BY DEF DeployTyped, ClientsTyped, UiServes
<1>1. ClientStep(c)
  BY DEF ClientStep
<1>2. PICK x : x = deploy[c]
  OBVIOUS
<1>3. PICK y : y = deploy'[c]
  OBVIOUS
<1>4. \A d \in Clients : d # c => deploy'[d] = deploy[d]
  BY <1>1, OthersStay
<1>5. PICK v \in DeployVersions : Moves(c, BuiltRun(x, v))
  BY <1>0, <1>2, BuildMoves
<1>6. y = BuiltRun(x, v) /\ x.at = "next" /\ x \in DeployRuns /\ RunOK(c, x)
  BY <1>0, <1>2, <1>3, <1>5, MovesOne, RunFields DEF Build
<1>7. y.at = "syncing" /\ y.step = 1
  BY <1>2, <1>6, BuiltRunIs DEF Now
<1>8. bundle' = [bundle EXCEPT !.torn = @ \/ MeetsAnother(c)]
  BY DEF Build
<1>9. bundle'.dist = bundle.dist /\ ~MeetsAnother(c)
  BY <1>0, <1>8 DEF UiBundles
<1>10. ASSUME NEW d \in Clients, d # c PROVE ~AtUi(d, deploy[d])
  BY <1>9, <1>10 DEF MeetsAnother, AtUi, Now
<1>11. bundle.dist # NoBundle
  <2>1. ~AtUi(c, x)
    BY <1>6 DEF AtUi
  <2> QED BY <1>2, <1>10, <2>1 DEF UiServes
<1>12. UNCHANGED <<staged, agentVars>>
  BY DEF Build
<1>13. ServesAll'
  BY <1>0, <1>9, <1>12, ServesStays
<1>14. UiRunOK(y)'
  BY <1>7 DEF UiRunOK
<1>15. ~bundle'.dist.stray
  BY <1>9 DEF UiServes
<1> QED BY <1>3, <1>4, <1>9, <1>10, <1>11, <1>13, <1>14, <1>15, UiAlone

\* The commands that put the bundle in its place, one after another.
LEMMA SyncStepIs ==
  ASSUME SourcesTyped, AgentInv, bundle \in UiBundles, NEW x, x.at = "syncing", NEW n \in 1..7, x.step = n,
         UiRunOK(x), NEW b, b = SyncStep(n), ~bundle.dist.stray,
         bundle.dist = NoBundle => n = 6
  PROVE  /\ ~(n = 6 /\ bundle.new = NoBundle)
         /\ ~b.dist.stray
         /\ b.dist = NoBundle => n = 5
         /\ n \in {1, 2, 3, 4, 5, 6} => ~b.src.stray /\ built[UiServer] <= b.src.build
         /\ n = 2 => b.new = NoBundle
         /\ n \in {3, 4, 5} => b.new = b.src
         /\ n = 5 => b.dist = NoBundle
         /\ n \in {6, 7} => built[UiServer] <= b.dist.build
         /\ n \notin {5, 6} => b.dist = bundle.dist
<1>0. built[UiServer] \in Nat /\ Source(UiServer) \in Nat /\ built[UiServer] <= Source(UiServer)
  BY DeployAssumption, SourceIs DEF SourcesTyped, AgentInv, TargetInv
<1>1. n >= 2 => ~bundle.src.stray /\ built[UiServer] <= bundle.src.build /\ bundle.src # NoBundle
  BY <1>0 DEF UiRunOK, NoBundle, Mixed
<1>2. n \in 4..6 => bundle.new = bundle.src
  BY DEF UiRunOK
<1>3. CASE n = 1
  <2>1. b = [bundle EXCEPT !.src = [build |-> Source(UiServer), stray |-> FALSE]]
    BY <1>3 DEF SyncStep
  <2>2. b.src.build = Source(UiServer) /\ b.src.stray = FALSE /\ b.dist = bundle.dist
    BY <2>1 DEF UiBundles
  <2> QED BY <1>0, <1>3, <2>2
<1>4. CASE n = 2
  <2>1. b = [bundle EXCEPT !.new = NoBundle]
    BY <1>4 DEF SyncStep
  <2>2. b.src = bundle.src /\ b.new = NoBundle /\ b.dist = bundle.dist
    BY <2>1 DEF UiBundles
  <2> QED BY <1>1, <1>4, <2>2
<1>5. CASE n = 3
  <2>1. b = [bundle EXCEPT !.new = Into(bundle.src, bundle.new)]
    BY <1>5 DEF SyncStep
  <2>2. bundle.new = NoBundle
    BY <1>5 DEF UiRunOK
  <2>3. b.src = bundle.src /\ b.new = bundle.src /\ b.dist = bundle.dist
    BY <2>1, <2>2 DEF UiBundles, Into
  <2> QED BY <1>1, <1>5, <2>3
<1>6. CASE n = 4
  <2>1. b = [bundle EXCEPT !.old = NoBundle]
    BY <1>6 DEF SyncStep
  <2>2. b.src = bundle.src /\ b.new = bundle.new /\ b.dist = bundle.dist
    BY <2>1 DEF UiBundles
  <2> QED BY <1>1, <1>2, <1>6, <2>2
<1>7. CASE n = 5
  <2>1. PICK o : o = IF bundle.dist = NoBundle THEN bundle.old ELSE Into(bundle.dist, bundle.old)
    OBVIOUS
  <2>2. b = [bundle EXCEPT !.old = o, !.dist = NoBundle]
    BY <1>7, <2>1 DEF SyncStep, UiBundles
  <2>3. b.src = bundle.src /\ b.new = bundle.new /\ b.dist = NoBundle
    BY <2>2 DEF UiBundles
  <2>4. ~NoBundle.stray
    BY DEF NoBundle
  <2> QED BY <1>1, <1>2, <1>7, <2>3, <2>4
<1>8. CASE n = 6
  <2>1. bundle.dist = NoBundle /\ bundle.new = bundle.src
    BY <1>2, <1>8 DEF UiRunOK
  <2>2. b = [bundle EXCEPT !.dist = Into(bundle.new, bundle.dist), !.new = NoBundle]
    BY <1>8 DEF SyncStep
  <2>3. b.src = bundle.src /\ b.dist = bundle.src
    BY <2>1, <2>2 DEF UiBundles, Into
  <2> QED BY <1>1, <1>8, <2>1, <2>3
<1>9. CASE n = 7
  <2>1. b = [bundle EXCEPT !.old = NoBundle]
    BY <1>9 DEF SyncStep
  <2>2. b.src = bundle.src /\ b.new = bundle.new /\ b.dist = bundle.dist
    BY <2>1 DEF UiBundles
  <2>3. Serves(built[UiServer])
    BY <1>9 DEF UiRunOK
  <2> QED BY <1>1, <1>9, <2>2, <2>3 DEF Serves
<1> QED BY <1>3, <1>4, <1>5, <1>6, <1>7, <1>8, <1>9

\* No hash that is owed is newer than what is built.
LEMMA OwedIsBuilt ==
  ASSUME SourcesTyped, AgentInv, UNCHANGED <<staged, agentVars>>, bundle' \in UiBundles,
         built[UiServer] <= bundle'.dist.build
  PROVE  ServesAll'
<1>0. UiServer \in TargetSet /\ staged \in Seq(StagedAsks) /\ AgentTyped /\ UNCHANGED <<agentJob, proc>>
      /\ bundle'.dist.build \in Int
  BY DeployAssumption DEF AgentInv, AgentTyped, agentVars, UiBundles, UiFiles
<1>1. ASSUME NEW h \in Nat, h <= built[UiServer] PROVE Serves(h)'
  <2>1. built[UiServer] \in Nat
    BY <1>0 DEF SourcesTyped
  <2>2. h <= bundle'.dist.build
    BY <1>0, <1>1, <2>1
  <2> QED BY <2>2 DEF Serves
<1>2. ASSUME NEW m \in StagedAsks, AskedOf(m) PROVE ServedBy(m)'
  BY <1>1, <1>2 DEF AskedOf, ServedBy, StagedAsks
<1>3. ASSUME NEW i \in DOMAIN staged PROVE ServedBy(staged[i])'
  <2>1. PICK m : m = staged[i]
    OBVIOUS
  <2>2. m \in StagedAsks /\ AskedOf(m)
    BY <1>0, <2>1 DEF AgentInv, AsksInv
  <2>3. ServedBy(m)'
    BY <1>2, <2>2
  <2> QED BY <1>0, <2>1, <2>3 DEF ServedBy, Serves
<1>4. ASSUME agentJob.at # "idle" PROVE ServedBy(Job)'
  <2>1. PICK m : m = Job
    OBVIOUS
  <2>2. m \in StagedAsks /\ AskedOf(m)
    BY <1>0, <1>4, <2>1, JobFields DEF AgentInv, AsksInv
  <2>3. ServedBy(m)'
    BY <1>2, <2>2
  <2> QED BY <1>0, <2>1, <2>3 DEF ServedBy, Serves, Job
<1>5. PICK h : h = proc[UiServer].checked
  OBVIOUS
<1>6. Serves(h)'
  <2>1. h \in Nat /\ h <= built[UiServer]
    BY <1>0, <1>5, TargetFields DEF AgentInv, TargetInv
  <2> QED BY <1>1, <2>1
<1>7. proc'[UiServer].by \notin Requests => Serves(proc[UiServer].checked)'
  BY <1>0, <1>5, <1>6 DEF Serves
<1>8. \A i \in DOMAIN staged' : ServedBy(staged[i])'
  <2>1. staged' = staged
    BY <1>0
  <2> QED BY <1>3, <2>1
<1> QED BY <1>0, <1>4, <1>7, <1>8 DEF ServesAll

LEMMA UiSyncs ==
  ASSUME DeployTyped, SourcesTyped', AgentInv, UiServes, NEW c \in Clients, SyncBundle(c)
  PROVE  UiServes'
<1>0. ClientsTyped /\ DeployTyped /\ SourcesTyped /\ bundle \in UiBundles /\ ServesAll /\ ~bundle.dist.stray
  BY DEF DeployTyped, ClientsTyped, UiServes
<1>1. ClientStep(c)
  BY DEF ClientStep
<1>2. PICK x : x = deploy[c]
  OBVIOUS
<1>3. PICK n : n = x.step
  OBVIOUS
<1>4. x.at = "syncing" /\ AtUi(c, x) /\ n \in 1..7 /\ x \in DeployRuns /\ RunOK(c, x)
  BY <1>0, <1>2, <1>3, SyncingIsAtUi, RunFields DEF SyncBundle, Syncing
<1>5. UiRunOK(x)
  BY <1>2, <1>4 DEF UiServes
<1>6. bundle.dist = NoBundle => n = 6
  <2> SUFFICES ASSUME bundle.dist = NoBundle PROVE n = 6
    OBVIOUS
  <2>1. PICK d \in Clients : AtUi(d, deploy[d]) /\ deploy[d].at = "syncing" /\ deploy[d].step = 6
    BY DEF UiServes
  <2>2. d = c
    BY <1>2, <1>4, <2>1 DEF UiServes
  <2> QED BY <1>2, <1>3, <2>1, <2>2
<1>7. PICK b : b = SyncStep(n)
  OBVIOUS
<1>8. /\ ~(n = 6 /\ bundle.new = NoBundle)
      /\ ~b.dist.stray
      /\ b.dist = NoBundle => n = 5
      /\ n \in {1, 2, 3, 4, 5, 6} => ~b.src.stray /\ built[UiServer] <= b.src.build
      /\ n = 2 => b.new = NoBundle
      /\ n \in {3, 4, 5} => b.new = b.src
      /\ n = 5 => b.dist = NoBundle
      /\ n \in {6, 7} => built[UiServer] <= b.dist.build
      /\ n \notin {5, 6} => b.dist = bundle.dist
  BY <1>0, <1>3, <1>4, <1>5, <1>6, <1>7, SyncStepIs
<1>9. bundle' = b /\ Moves(c, SyncedRun(x)) /\ UNCHANGED <<treeVars, staged, agentVars>>
  <2>1. /\ bundle' = SyncStep(deploy[c].step)
        /\ deploy' = [deploy EXCEPT ![c].step = @ + 1,
                            ![c].at = IF deploy[c].step = 7 THEN "hashing" ELSE @]
    BY <1>2, <1>3, <1>8 DEF SyncBundle
  <2>2. deploy \in [Clients -> DeployRuns]
    BY <1>0 DEF ClientsTyped
  <2>3. Moves(c, SyncedRun(x))
    BY <1>2, <2>1, <2>2 DEF Moves, SyncedRun
  <2> QED BY <1>2, <1>3, <1>7, <2>1, <2>3 DEF SyncBundle
<1>10. PICK y : y = deploy'[c]
  OBVIOUS
<1>11. y = SyncedRun(x)
  BY <1>0, <1>9, <1>10, MovesOne
<1>12. /\ y.at = IF n = 7 THEN "hashing" ELSE "syncing"
       /\ y.step = n + 1 /\ y.todo = x.todo /\ c \notin Requests
  BY <1>3, <1>4, <1>11, SyncedRunIs
<1>13. AtUi(c, y)
  BY <1>4, <1>12 DEF AtUi
<1>14. built'[UiServer] = built[UiServer] /\ bundle' \in UiBundles
  BY <1>0, <1>1, <1>9, BundleTyped DEF treeVars
<1>15. UiRunOK(y)'
  <2>1. y.at = "syncing" =>
         /\ ~b.src.stray /\ built[UiServer] <= b.src.build
         /\ y.step = 3 => b.new = NoBundle
         /\ y.step \in 4..6 => b.new = b.src
         /\ y.step = 6 => b.dist = NoBundle
         /\ y.step = 7 => built[UiServer] <= b.dist.build
    BY <1>4, <1>8, <1>12
  <2>2. y.at = "hashing" => built[UiServer] <= b.dist.build
    BY <1>8, <1>12
  <2>3. y.at # "staging"
    BY <1>12
  <2> QED BY <1>9, <1>14, <2>1, <2>2, <2>3 DEF UiRunOK, Serves
<1>16. ServesAll'
  <2>1. CASE n \notin {5, 6}
    <3>1. bundle'.dist = bundle.dist
      BY <1>8, <1>9, <2>1
    <3> QED BY <1>0, <1>9, <3>1, ServesStays
  <2>2. CASE n = 5
    <3>1. bundle'.dist = NoBundle
      BY <1>8, <1>9, <2>2
    <3> QED BY <3>1 DEF ServesAll, ServedBy, Serves
  <2>3. CASE n = 6
    <3>1. built[UiServer] <= bundle'.dist.build
      BY <1>8, <1>9, <2>3
    <3> QED BY <1>0, <1>9, <1>14, <3>1, OwedIsBuilt
  <2> QED BY <2>1, <2>2, <2>3
<1>17. bundle'.dist = NoBundle => AtUi(c, y) /\ y.at = "syncing" /\ y.step = 6
  BY <1>8, <1>9, <1>12, <1>13
<1>18. ~bundle'.dist.stray
  BY <1>8, <1>9
<1>19. ASSUME NEW d \in Clients, d # c PROVE ~AtUi(d, deploy'[d])
  <2>1. deploy'[d] = deploy[d]
    BY <1>1, <1>19, OthersStay
  <2> QED BY <1>2, <1>4, <1>19, <2>1 DEF UiServes
<1> QED BY <1>10, <1>15, <1>16, <1>17, <1>18, <1>19, UiAlone

LEMMA UiSyncFails ==
  ASSUME DeployTyped, SourcesTyped', UiServes, NEW c \in Clients, SyncFails(c), ~bundle'.torn
  PROVE  UiServes'
<1>0. ClientsTyped /\ DeployTyped /\ bundle \in UiBundles /\ ServesAll
  BY DEF DeployTyped, ClientsTyped, UiServes
<1>1. ClientStep(c)
  BY DEF ClientStep
<1>2. PICK x : x = deploy[c]
  OBVIOUS
<1>3. PICK y : y = deploy'[c]
  OBVIOUS
<1>4. x.at = "syncing" /\ AtUi(c, x) /\ x \in DeployRuns
  BY <1>0, <1>2, SyncingIsAtUi, RunFields DEF SyncFails, Syncing
<1>5. bundle' = [bundle EXCEPT !.torn = @ \/ bundle.dist = NoBundle]
  BY DEF SyncFails
<1>6. bundle'.src = bundle.src /\ bundle'.new = bundle.new /\ bundle'.dist = bundle.dist
      /\ bundle.dist # NoBundle
  BY <1>0, <1>5 DEF UiBundles
<1>7. y.at = "failed"
  <2>1. y = AtRun(x, "failed")
    BY <1>0, <1>2, <1>3, GoesMoves, MovesOne DEF SyncFails
  <2> QED BY <1>4, <2>1 DEF AtRun, DeployRuns
<1>8. UNCHANGED <<built, staged, agentVars>>
  BY DEF SyncFails, treeVars
<1>9. ServesAll'
  BY <1>0, <1>6, <1>8, ServesStays
<1>10. x.step # 6
  <2>1. UiRunOK(x)
    BY <1>2, <1>4 DEF UiServes
  <2> QED BY <1>4, <1>6, <2>1 DEF UiRunOK
<1>11. \A d \in Clients : d # c => deploy'[d] = deploy[d]
  BY <1>1, OthersStay
<1>12. ~AtUi(c, y) /\ built'[UiServer] = built[UiServer]
  BY <1>7, <1>8 DEF AtUi
<1> QED BY <1>2, <1>3, <1>6, <1>9, <1>10, <1>11, <1>12, UiMoves

\* The driver at its start and its end, and everybody who is no client.
LEMMA UiDriver ==
  ASSUME DeployTyped, UiServes, CronTick \/ CronEnds \/ Merged \/ EditSources \/ UNCHANGED deployVars
  PROVE  UiServes'
<1>0. UNCHANGED <<built, staged, agentVars>> /\ UNCHANGED bundle /\ ServesAll
  BY DEF CronTick, CronEnds, Merged, EditSources, deployVars, treeVars, UiServes
<1>1. ServesAll'
  BY <1>0, ServesStays
<1>2. PICK x : x = deploy[Cron]
  OBVIOUS
<1>3. PICK y : y = deploy'[Cron]
  OBVIOUS
<1>4. \A d \in Clients : d # Cron => deploy'[d] = deploy[d]
  BY DriverMoves DEF Merged, EditSources, deployVars
<1>5. y = x \/ ~AtUi(Cron, y)
  BY <1>2, <1>3, DriverMoves DEF Merged, EditSources, deployVars, AtUi
<1>6. AtUi(Cron, y) => AtUi(Cron, x) /\ UiRunOK(y)
  BY <1>2, <1>5, CronIsClient DEF UiServes
<1>7. x.at = "syncing" => y = x
  <2>1. CASE CronTick \/ CronEnds
    BY <1>2, <2>1 DEF CronTick, CronEnds
  <2>2. CASE Merged \/ EditSources \/ UNCHANGED deployVars
    BY <1>2, <1>3, <2>2 DEF Merged, EditSources, deployVars
  <2> QED BY <2>1, <2>2
<1> QED BY <1>0, <1>1, <1>2, <1>3, <1>4, <1>6, <1>7, CronIsClient, UiMoves

LEMMA TornStays ==
  ASSUME DeployTyped, [DeployNext]_deployVars, bundle.torn PROVE bundle'.torn
<1>0. bundle \in UiBundles
  BY DEF DeployTyped, ClientsTyped
<1>1. CASE UNCHANGED bundle
  BY <1>1
<1>2. ASSUME NEW c \in Clients, ClientStep(c) PROVE bundle'.torn
  <2>1. CASE Build(c)
    BY <1>0, <2>1 DEF Build, UiBundles
  <2>2. CASE SyncFails(c)
    BY <1>0, <2>2 DEF SyncFails, UiBundles
  <2>3. CASE SyncBundle(c)
    <3>1. CASE UNCHANGED bundle
      BY <3>1
    <3>2. CASE bundle' = SyncStep(deploy[c].step)
      <4>1. PICK x : x = deploy[c]
        OBVIOUS
      <4>2. x.step \in 1..7
        BY <2>3, <4>1, SyncingIsAtUi DEF SyncBundle, Syncing, DeployTyped
      <4>3. ASSUME NEW n \in 1..7 PROVE SyncStep(n).torn = bundle.torn
        <5>1. CASE n = 1
          BY <1>0, <5>1 DEF SyncStep, UiBundles
        <5>2. CASE n = 2
          BY <1>0, <5>2 DEF SyncStep, UiBundles
        <5>3. CASE n = 3
          BY <1>0, <5>3 DEF SyncStep, UiBundles
        <5>4. CASE n = 4
          BY <1>0, <5>4 DEF SyncStep, UiBundles
        <5>5. CASE n = 5
          BY <1>0, <5>5 DEF SyncStep, UiBundles
        <5>6. CASE n = 6
          BY <1>0, <5>6 DEF SyncStep, UiBundles
        <5>7. CASE n = 7
          BY <1>0, <5>7 DEF SyncStep, UiBundles
        <5>8. n \in {1, 2, 3, 4, 5, 6, 7}
          OBVIOUS
        <5> QED BY <5>1, <5>2, <5>3, <5>4, <5>5, <5>6, <5>7, <5>8
      <4> QED BY <3>2, <4>1, <4>2, <4>3
    <3> QED BY <2>3, <3>1, <3>2 DEF SyncBundle
  <2> QED BY <1>1, <1>2, <2>1, <2>2, <2>3, ClientFrame
<1>3. CASE DeployAgentStep
  BY <1>1, <1>3, AgentFrame DEF clientVars
<1>4. CASE Merged \/ EditSources \/ CronTick \/ CronEnds \/ UNCHANGED deployVars
  BY <1>1, <1>4 DEF Merged, EditSources, CronTick, CronEnds, deployVars
<1> QED BY <1>2, <1>3, <1>4 DEF DeployNext

LEMMA UiKept ==
  ASSUME DeployTyped, SourcesTyped', AgentInv, UiInv, [DeployNext]_deployVars
  PROVE  UiInv'
<1> SUFFICES ASSUME ~bundle'.torn PROVE UiServes'
  BY DEF UiInv
<1>1. UiServes
  BY TornStays DEF UiInv
<1>2. ASSUME NEW c \in Clients, ClientStep(c) PROVE UiServes'
  <2>1. CASE Build(c) /\ Now(c) = UiServer
    BY <1>1, <2>1, UiBuilds
  <2>2. CASE SyncBundle(c)
    BY <1>1, <2>2, UiSyncs
  <2>3. CASE SyncFails(c)
    BY <1>1, <2>3, UiSyncFails
  <2> QED BY <1>1, <1>2, <2>1, <2>2, <2>3, UiClient
<1> QED BY <1>1, <1>2, UiAgent, UiDriver DEF DeployNext

\* Hence the property of the bundle.
LEMMA BundleIsServed == UiInv => BundleServed
<1> SUFFICES ASSUME UiServes PROVE BundleServed
  BY DEF UiInv, BundleServed
<1>1. bundle.dist = NoBundle => \E c \in Clients : Syncing(c) /\ deploy[c].step = 6
  BY DEF UiServes, Syncing
<1>2. proc[UiServer].by \notin Requests /\ bundle.dist # NoBundle =>
        bundle.dist.build >= proc[UiServer].checked
  BY DEF UiServes, ServesAll, Serves
<1>3. ~bundle.dist.stray
  BY DEF UiServes
<1> QED BY <1>1, <1>2, <1>3 DEF BundleServed

DeployInv == DeployTyped /\ DoneInv /\ AgentInv /\ HashInv /\ CronInv /\ UiInv

LEMMA DeployStarts == DeployInit => DeployInv
<1> SUFFICES ASSUME DeployInit PROVE DeployInv
  OBVIOUS
<1>1. /\ origin = <<>> /\ tree = [head |-> 0, edits |-> {}]
      /\ built = [s \in TargetSet |-> 0]
      /\ deploy = [c \in Clients |-> IdleClient] /\ asks = 0
      /\ mark = [last |-> -1, first |-> -1] /\ staged = <<>> /\ agentJob = AgentAtRest
      /\ binary = [s \in TargetSet |-> 0]
      /\ proc = [s \in TargetSet |-> [up |-> TRUE, build |-> 0, checked |-> 0, by |-> Cron]]
      /\ routed = [s \in TargetSet |-> <<"installed">>]
      /\ answers = {}
      /\ bundle = [src |-> NoBundle, new |-> NoBundle, dist |-> [build |-> 0, stray |-> FALSE],
               old |-> NoBundle, torn |-> FALSE]
  BY DEF DeployInit
<1>2. \A c \in Clients : deploy[c].at = "idle"
  BY <1>1 DEF IdleClient
<1>3. SourcesTyped
  <2>1. origin \in Seq(TouchSets) /\ Len(origin) = 0
    BY <1>1
  <2>2. tree \in [head : Nat, edits : SUBSET TargetSet] /\ tree.head = 0
    BY <1>1
  <2>3. built \in [TargetSet -> Nat]
    BY <1>1
  <2> QED BY <2>1, <2>2, <2>3 DEF SourcesTyped
<1>4. ClientsTyped
  <2>1. deploy \in [Clients -> DeployRuns] /\ asks \in 0..MaxAsks
    BY <1>1, IdleRun, DeployAssumption
  <2>2. bundle \in UiBundles
    BY <1>1 DEF UiBundles, UiFiles, NoBundle, Mixed
  <2>3. ASSUME NEW c \in Clients
        PROVE  /\ RunOK(c, deploy[c])
               /\ deploy[c].goal <= tree.head /\ deploy[c].id <= asks
    <3>1. deploy[c].goal = 0 /\ deploy[c].id = 0 /\ tree.head = 0 /\ asks = 0
      BY <1>1 DEF IdleClient
    <3>2. RunOK(c, deploy[c])
      BY <1>2 DEF RunOK, Underway
    <3> QED BY <3>1, <3>2
  <2> QED BY <2>1, <2>2, <2>3 DEF ClientsTyped
<1>5. MarkTyped
  <2>1. mark.last = -1 /\ mark.first = -1 /\ tree.head = 0 /\ deploy[Cron].at = "idle"
        /\ mark \in [last : Int, first : Int]
    BY <1>1, <1>2, CronIsClient
  <2> QED BY <2>1 DEF MarkTyped
<1>6. AgentTyped
  <2>1. <<"installed">> \in DeployVersions
    BY DEF DeployVersions
  <2>2. routed \in [TargetSet -> DeployVersions]
    BY <1>1, <2>1
  <2>3. proc \in [TargetSet -> DeployProcs]
    BY <1>1, CronIsClient DEF DeployProcs
  <2>4. staged \in Seq(StagedAsks)
    BY <1>1
  <2>5. agentJob \in AgentJobs /\ binary \in [TargetSet -> Int] /\ answers \subseteq DeployAnswers
    BY <1>1, NoAskTyped
  <2> QED BY <2>2, <2>3, <2>4, <2>5 DEF AgentTyped
<1>7. agentJob.at = "idle"
  BY <1>1 DEF AgentAtRest
<1>8. AsksInv /\ DOMAIN staged = {}
  <2>1. DOMAIN staged = {}
    BY <1>1
  <2> QED BY <1>7, <2>1 DEF AsksInv
<1>9. JobInv
  BY <1>7 DEF JobInv, JobOK, Installed
<1>10. \A s \in TargetSet : TargetInv(s)
  <2> TAKE s \in TargetSet
  <2>1. built[s] = 0 /\ proc[s].checked = 0 /\ binary[s] = 0 /\ proc[s].build = 0
    BY <1>1
  <2>2. Source(s) \in Nat
    BY <1>3, SourceIs
  <2> QED BY <2>1, <2>2 DEF TargetInv
<1>11. AgentInv
  BY <1>1, <1>6, <1>8, <1>9, <1>10 DEF AgentInv
<1>12. DoneInv
  BY <1>1 DEF DoneInv, IdleClient
<1>13. HashInv
  BY <1>2 DEF HashInv
<1>14. CronInv
  <2>1. PICK x : x = deploy[Cron]
    OBVIOUS
  <2>2. x.at = "idle"
    BY <1>2, <2>1, CronIsClient
  <2>3. BuildsIt(x) /\ InstallsIt(x) /\ HearsIt(x) /\ LeavesNone(x)
    BY <2>2 DEF BuildsIt, InstallsIt, HearsIt, LeavesNone, Underway
  <2>4. mark.last = -1
    BY <1>1
  <2>5. MarkShips
    BY <2>4 DEF MarkShips
  <2> QED BY <2>1, <2>3, <2>5 DEF CronInv, CronRunOK
<1>15. UiInv
  <2>1. \A c \in Clients : ~AtUi(c, deploy[c])
    BY <1>2 DEF AtUi
  <2>2. bundle.dist.build = 0 /\ bundle.dist.stray = FALSE /\ bundle.dist # NoBundle
    BY <1>1 DEF NoBundle, Mixed
  <2>3. proc[UiServer].checked = 0
    BY <1>1, DeployAssumption
  <2>4. ServesAll
    BY <1>7, <1>8, <2>2, <2>3 DEF ServesAll, Serves
  <2> QED BY <2>1, <2>2, <2>4 DEF UiInv, UiServes
<1> QED BY <1>3, <1>4, <1>5, <1>6, <1>11, <1>12, <1>13, <1>14, <1>15 DEF DeployInv, DeployTyped

LEMMA DeployStep ==
  ASSUME DeployInv, [DeployNext]_deployVars
  PROVE  DeployInv'
<1>0. DeployTyped /\ DoneInv /\ AgentInv /\ HashInv /\ CronInv /\ UiInv
  BY DEF DeployInv
<1>1. SourcesTyped' /\ TreeGrows
  BY <1>0, SourcesKept
<1>2. ClientsTyped' /\ MarkTyped' /\ DoneInv'
  BY <1>0, ClientsKept
<1>3. AgentInv' /\ RunGrows
  BY <1>0, <1>1, AgentAlways
<1>4. HashInv'
  BY <1>0, <1>1, HashKept
<1>5. CronInv'
  BY <1>0, <1>1, <1>3, CronKept
<1>6. UiInv'
  BY <1>0, <1>1, UiKept
<1>7. AgentTyped'
  BY <1>3 DEF AgentInv
<1> QED BY <1>1, <1>2, <1>3, <1>4, <1>5, <1>6, <1>7 DEF DeployInv, DeployTyped

LEMMA DeployIsSafe == DeployInv => DeploySafety /\ DeployTypeOK
<1> SUFFICES ASSUME DeployInv PROVE DeploySafety /\ DeployTypeOK
  OBVIOUS
<1>1. ConfirmedIsDeclared
  <2>1. \A a \in answers : a.how = "confirmed" /\ a.checked => a.seen = a.hash /\ a.got >= a.seen
    BY DEF DeployInv, AgentInv, AnswerInv
  <2>2. \A c \in Clients : \A id \in deploy[c].done : \E a \in answers : a.id = id /\ a.how = "confirmed"
    BY DEF DeployInv, DoneInv, Confirmed
  <2> QED BY <2>1, <2>2 DEF ConfirmedIsDeclared
<1>2. SinglesFollowMark
  BY MarkFollowed DEF DeployInv
<1>3. BundleServed
  BY BundleIsServed DEF DeployInv
<1>4. DeployTypeOK
  BY DeployTypes DEF DeployInv
<1> QED BY <1>1, <1>2, <1>3, <1>4 DEF DeploySafety

\* Deploys on their own, by any number of operators and requests at once: what is
\* confirmed after a check is what its request declared, who reports a success was
\* told of it, the driver's mark has passed no commit whose single processes and
\* binaries do not run it, and the dashboard is served no bundle older than its
\* server, unless two syncs met or one failed between its renames.
THEOREM DeploySafetyHolds == DeploySpec => []DeploySafety
<1>1. DeployInv /\ [DeployNext]_deployVars => DeployInv'
  BY DeployStep
<1>2. DeployInv => DeploySafety
  BY DeployIsSafe
<1> QED
  BY <1>1, <1>2, DeployStarts, PTL DEF DeploySpec
=============================================================================
