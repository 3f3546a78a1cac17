--------------------------- MODULE TaskStoreProofs ---------------------------
(***************************************************************************)
(* What is proved of the SQLite store, for any number of processes, tasks  *)
(* and messages: a message is stored once, the projection and every load   *)
(* are those of the log, and the store implements the stream (TaskStream). *)
(*                                                                         *)
(* A replay is a fold over a stream.  What it computes is proved by        *)
(* induction over the positions of the stream, with a set for the          *)
(* predicate: every non-empty set of naturals has a least member.          *)
(***************************************************************************)
EXTENDS MCTaskStore, TLAPS, WellFoundedInduction

-----------------------------------------------------------------------------
(* Induction over the positions of a stream.  The library's induction      *)
(* theorems are about predicates; this one, about sets, is proved from the *)
(* well-foundedness of the natural numbers.                                *)

LEMMA LeastNumber ==
  ASSUME NEW S, S \subseteq Nat, S # {}
  PROVE  \E n \in S : \A m \in S : n <= m
<1> DEFINE R == OpToRel(<, Nat)
<1>1. IsWellFoundedOn(R, Nat)
  BY NatLessThanWellFounded
<1>2. \A m, n \in Nat : m < n => <<m, n>> \in R
  BY DEF OpToRel
<1> HIDE DEF R
<1>3. PICK n \in S : \A m \in S : <<m, n>> \notin R
  BY <1>1, WFMin
<1>4. \A m \in S : n <= m
  <2> TAKE m \in S
  <2>1. m \in Nat /\ n \in Nat
    OBVIOUS
  <2>2. ~(m < n)
    BY <1>2, <1>3, <2>1
  <2> QED BY <2>1, <2>2
<1> QED BY <1>4

LEMMA SetInduction ==
  ASSUME NEW S, 0 \in S, \A n \in Nat : n \in S => n + 1 \in S
  PROVE  Nat \subseteq S
<1> SUFFICES ASSUME Nat \ S # {} PROVE FALSE
  OBVIOUS
<1>1. PICK n \in Nat \ S : \A m \in Nat \ S : n <= m
  BY LeastNumber
<1> QED BY <1>1

-----------------------------------------------------------------------------
(* Replaying a stream.                                                     *)

\* f holds the states a replay of the first n records goes through.
Unfolds(f, a, records, n) ==
  f = [i \in 0..n |-> IF i = 0 THEN a ELSE Apply(f[i - 1], records[i].ev)]

LEMMA UnfoldsSomehow ==
  ASSUME NEW a, NEW records
  PROVE  \A n \in Nat : \E f : Unfolds(f, a, records, n)
<1> DEFINE S == {n \in Nat : \E f : Unfolds(f, a, records, n)}
<1>1. 0 \in S
  <2> DEFINE g == [i \in 0..0 |-> a]
  <2>1. g = [i \in 0..0 |-> IF i = 0 THEN a ELSE Apply(g[i - 1], records[i].ev)]
    OBVIOUS
  <2> QED BY <2>1 DEF Unfolds
<1>2. ASSUME NEW n \in Nat, n \in S PROVE n + 1 \in S
  <2>1. PICK f : Unfolds(f, a, records, n)
    BY <1>2
  <2> DEFINE g == [i \in 0..(n + 1) |->
                     IF i = n + 1 THEN Apply(f[n], records[n + 1].ev) ELSE f[i]]
  <2>2. ASSUME NEW i \in 0..(n + 1)
        PROVE  g[i] = IF i = 0 THEN a ELSE Apply(g[i - 1], records[i].ev)
    <3>1. CASE i = n + 1
      <4>1. g[i - 1] = f[n] /\ i # 0
        BY <3>1
      <4> QED BY <3>1, <4>1
    <3>2. CASE i # n + 1 /\ i # 0
      <4>1. i \in 0..n /\ i - 1 \in 0..n /\ i - 1 # n + 1 /\ i - 1 \in 0..(n + 1)
        BY <3>2
      <4>2. g[i] = f[i] /\ g[i - 1] = f[i - 1]
        BY <3>2, <4>1
      <4>3. f[i] = Apply(f[i - 1], records[i].ev)
        BY <2>1, <3>2, <4>1 DEF Unfolds
      <4> QED BY <3>2, <4>2, <4>3
    <3>3. CASE i = 0
      <4>1. 0 \in 0..n /\ i # n + 1
        BY <3>3
      <4>2. f[0] = a
        BY <2>1, <4>1 DEF Unfolds
      <4> QED BY <3>3, <4>1, <4>2
    <3> QED BY <3>1, <3>2, <3>3
  <2>3. g = [i \in 0..(n + 1) |-> IF i = 0 THEN a ELSE Apply(g[i - 1], records[i].ev)]
    BY <2>2
  <2> HIDE DEF g
  <2>4. Unfolds(g, a, records, n + 1)
    BY <2>3 DEF Unfolds
  <2> QED BY <2>4
<1> HIDE DEF S
<1>3. Nat \subseteq S
  BY <1>1, <1>2, SetInduction
<1> QED BY <1>3 DEF S

LEMMA ReplayUnfolds ==
  ASSUME NEW a, NEW records, Len(records) \in Nat
  PROVE  \E f : Unfolds(f, a, records, Len(records)) /\ Replay(a, records) = f[Len(records)]
<1> DEFINE f == CHOOSE f : Unfolds(f, a, records, Len(records))
<1>1. Unfolds(f, a, records, Len(records))
  BY UnfoldsSomehow
<1>2. Replay(a, records) = f[Len(records)]
  BY Zenon DEF Replay, Unfolds
<1> QED BY <1>1, <1>2

\* Streams that begin alike are replayed alike so far.
LEMMA UnfoldsAlike ==
  ASSUME NEW a, NEW r, NEW s, NEW n \in Nat, NEW m \in Nat, n <= m,
         \A i \in 1..n : r[i] = s[i],
         NEW f, NEW g, Unfolds(f, a, r, n), Unfolds(g, a, s, m)
  PROVE  f[n] = g[n]
<1> DEFINE S == {k \in Nat : k <= n => f[k] = g[k]}
<1>1. 0 \in S
  <2>1. 0 \in 0..n /\ 0 \in 0..m
    OBVIOUS
  <2> QED BY <2>1 DEF Unfolds
<1>2. ASSUME NEW k \in Nat, k \in S PROVE k + 1 \in S
  <2> SUFFICES ASSUME k + 1 <= n PROVE f[k + 1] = g[k + 1]
    OBVIOUS
  <2>1. /\ f[k] = g[k] /\ k + 1 \in 1..n /\ k + 1 \in 0..n /\ k + 1 \in 0..m
        /\ (k + 1) - 1 = k /\ k + 1 # 0
    BY <1>2
  <2>2. f[k + 1] = Apply(f[k], r[k + 1].ev)
    BY <2>1 DEF Unfolds
  <2>3. g[k + 1] = Apply(g[k], s[k + 1].ev)
    BY <2>1 DEF Unfolds
  <2> QED BY <2>1, <2>2, <2>3
<1> HIDE DEF S
<1>3. n \in S
  BY <1>1, <1>2, SetInduction
<1> QED BY <1>3 DEF S

LEMMA ReplayNothing == ASSUME NEW a PROVE Replay(a, <<>>) = a
<1>1. Len(<<>>) = 0 /\ 0 \in 0..0
  OBVIOUS
<1>2. PICK f : Unfolds(f, a, <<>>, 0) /\ Replay(a, <<>>) = f[0]
  BY <1>1, ReplayUnfolds
<1> QED BY <1>1, <1>2 DEF Unfolds

\* One more record is one more event applied.
LEMMA ReplayAppend ==
  ASSUME NEW a, NEW S, NEW records \in Seq(S), NEW e \in S
  PROVE  Replay(a, Append(records, e)) = Apply(Replay(a, records), e.ev)
<1> DEFINE n == Len(records)
<1> DEFINE more == Append(records, e)
<1>1. /\ n \in Nat /\ Len(more) = n + 1 /\ more[n + 1] = e
      /\ \A i \in 1..n : records[i] = more[i]
  OBVIOUS
<1> HIDE DEF more
<1>2. PICK f : Unfolds(f, a, records, n) /\ Replay(a, records) = f[n]
  BY <1>1, ReplayUnfolds
<1>3. PICK g : Unfolds(g, a, more, n + 1) /\ Replay(a, more) = g[n + 1]
  BY <1>1, ReplayUnfolds
<1>4. f[n] = g[n]
  BY <1>1, <1>2, <1>3, UnfoldsAlike
<1>5. n + 1 \in 0..(n + 1) /\ n + 1 # 0 /\ (n + 1) - 1 = n
  BY <1>1
<1>6. g[n + 1] = Apply(g[n], more[n + 1].ev)
  BY <1>3, <1>5 DEF Unfolds
<1> QED BY <1>1, <1>2, <1>3, <1>4, <1>6 DEF more

\* The tail of a stream that has grown is the tail of the stream, grown.
LEMMA SubSeqAppend ==
  ASSUME NEW S, NEW s \in Seq(S), NEW e \in S, NEW m \in 1..(Len(s) + 1)
  PROVE  /\ SubSeq(s, m, Len(s)) \in Seq(S)
         /\ SubSeq(Append(s, e), m, Len(s) + 1) = Append(SubSeq(s, m, Len(s)), e)
<1> DEFINE n == Len(s)
           u == SubSeq(s, m, n)
           v == SubSeq(Append(s, e), m, n + 1)
           w == Append(u, e)
<1>1. n \in Nat /\ m \in Nat /\ 1 <= m /\ m <= n + 1 /\ \A i \in 1..n : s[i] \in S
  OBVIOUS
<1>2. u = [i \in 1..(n + 1 - m) |-> s[i + m - 1]]
  BY <1>1
<1>3. v = [i \in 1..(n + 2 - m) |-> Append(s, e)[i + m - 1]]
  BY <1>1
<1>4. n + 1 - m \in Nat /\ \A i \in 1..(n + 1 - m) : i + m - 1 \in 1..n
  BY <1>1
<1>5. u \in [1..(n + 1 - m) -> S]
  BY <1>1, <1>2, <1>4
<1>6. u \in Seq(S) /\ Len(u) = n + 1 - m
  BY <1>4, <1>5
<1>7. w = [i \in 1..(n + 2 - m) |-> IF i = n + 2 - m THEN e ELSE u[i]]
  <2>1. w = [i \in 1..(Len(u) + 1) |-> IF i = Len(u) + 1 THEN e ELSE u[i]]
    BY <1>6
  <2> QED BY SMTT(40), <2>1, <1>6, <1>1
<1>8. \A i \in 1..(n + 2 - m) :
        Append(s, e)[i + m - 1] = IF i = n + 2 - m THEN e ELSE u[i]
  <2> TAKE i \in 1..(n + 2 - m)
  <2>1. CASE i = n + 2 - m
    <3>1. i + m - 1 = n + 1
      BY <1>1, <2>1
    <3> QED BY <3>1, <2>1
  <2>2. CASE i # n + 2 - m
    <3>1. i \in 1..(n + 1 - m) /\ i + m - 1 \in 1..n
      BY <1>1, <2>2
    <3>2. u[i] = s[i + m - 1]
      BY <1>2, <3>1
    <3>3. Append(s, e)[i + m - 1] = s[i + m - 1]
      BY <3>1
    <3> QED BY <2>2, <3>2, <3>3
  <2> QED BY <2>1, <2>2
<1>9. v = w
  BY <1>3, <1>7, <1>8
<1> QED BY <1>6, <1>9

\* Replaying events gives an aggregate.
LEMMA ReplayType ==
  ASSUME NEW a \in Aggregates, NEW records \in Seq(Records)
  PROVE  Replay(a, records) \in Aggregates
<1> DEFINE n == Len(records)
<1>1. n \in Nat /\ \A i \in 1..n : records[i].ev \in Events
  <2>1. n \in Nat /\ \A i \in 1..n : records[i] \in Records
    OBVIOUS
  <2> QED BY <2>1 DEF Records
<1>2. PICK f : Unfolds(f, a, records, n) /\ Replay(a, records) = f[n]
  BY <1>1, ReplayUnfolds
<1> DEFINE S == {k \in Nat : k <= n => f[k] \in Aggregates}
<1>3. 0 \in S
  <2>1. 0 \in 0..n
    BY <1>1
  <2> QED BY <1>2, <2>1 DEF Unfolds
<1>4. ASSUME NEW k \in Nat, k \in S PROVE k + 1 \in S
  <2> SUFFICES ASSUME k + 1 <= n PROVE f[k + 1] \in Aggregates
    OBVIOUS
  <2>1. /\ f[k] \in Aggregates /\ k + 1 \in 1..n /\ k + 1 \in 0..n
        /\ (k + 1) - 1 = k /\ k + 1 # 0
    BY <1>1, <1>4
  <2>2. f[k + 1] = Apply(f[k], records[k + 1].ev)
    BY <1>2, <2>1 DEF Unfolds
  <2> QED BY <1>1, <2>1, <2>2, ApplyType
<1> HIDE DEF S
<1>5. n \in S
  BY <1>1, <1>3, <1>4, SetInduction
<1> QED BY <1>1, <1>2, <1>5 DEF S

-----------------------------------------------------------------------------
(* KeyOnce rests on the unique index alone: nothing need be known of what  *)
(* the processes have read, of the live keys or of the snapshots.          *)

LogShape ==
  /\ log = [t \in Tasks |-> log[t]]
  /\ \A t \in Tasks : \E S : log[t] \in Seq(S)

KeyInv == LogShape /\ KeyOnce

\* A sequence with one more element, by its positions.
LEMMA AppendPositions ==
  ASSUME NEW S, NEW s \in Seq(S), NEW e
  PROVE  /\ Append(s, e) \in Seq(S \union {e})
         /\ DOMAIN s = 1..Len(s) /\ Len(s) \in Nat
         /\ DOMAIN Append(s, e) = 1..(Len(s) + 1)
         /\ \A i \in 1..Len(s) : Append(s, e)[i] = s[i]
         /\ Append(s, e)[Len(s) + 1] = e
<1>1. s \in Seq(S \union {e})
  <2>1. s \in [1..Len(s) -> S] /\ Len(s) \in Nat
    OBVIOUS
  <2>2. s \in [1..Len(s) -> S \union {e}]
    BY <2>1
  <2> QED BY <2>1, <2>2
<1> QED BY <1>1

\* One commit keeps the shape of the log and stores no key a second time.
LEMMA CommitKeepsKeys ==
  ASSUME KeyInv, NEW p \in Procs, NEW t \in Tasks, NEW e,
         UniqueInLog(e.key),
         log' = [log EXCEPT ![t] = Append(@, e)]
  PROVE  KeyInv'
<1>1. PICK S : log[t] \in Seq(S)
  BY DEF KeyInv, LogShape
<1> DEFINE s == log[t]
           n == Len(s)
<1>2. /\ Append(s, e) \in Seq(S \union {e})
      /\ DOMAIN s = 1..n /\ n \in Nat
      /\ DOMAIN Append(s, e) = 1..(n + 1)
      /\ \A i \in 1..n : Append(s, e)[i] = s[i]
      /\ Append(s, e)[n + 1] = e
  BY <1>1, AppendPositions
<1>3. /\ log'[t] = Append(s, e)
      /\ log' = [u \in Tasks |-> log'[u]]
      /\ \A u \in Tasks : u # t => log'[u] = log[u]
  BY DEF KeyInv, LogShape
<1>4. LogShape'
  <2>1. \A u \in Tasks : \E R : log'[u] \in Seq(R)
    BY <1>2, <1>3 DEF KeyInv, LogShape
  <2> QED BY <1>3, <2>1 DEF LogShape
<1>5. \* An entry of the new log is one of the old log, or the new entry.
      \A u \in Tasks : \A i \in DOMAIN log'[u] :
        \/ i \in DOMAIN log[u] /\ log'[u][i] = log[u][i]
        \/ u = t /\ i = n + 1 /\ log'[u][i] = e
  BY <1>2, <1>3
<1>6. \A u \in Tasks : \A i \in DOMAIN log[u] : log[u][i].key # e.key
  BY DEF UniqueInLog, LoggedKeys
<1>7. KeyOnce'
  <2> SUFFICES ASSUME NEW u \in Tasks, NEW v \in Tasks,
                      NEW i \in DOMAIN log'[u], NEW j \in DOMAIN log'[v],
                      log'[u][i].key = log'[v][j].key
               PROVE  u = v /\ i = j
    BY DEF KeyOnce
  <2> HIDE DEF n, s
  <2>1. CASE /\ i \in DOMAIN log[u] /\ log'[u][i] = log[u][i]
             /\ j \in DOMAIN log[v] /\ log'[v][j] = log[v][j]
    BY <2>1 DEF KeyInv, KeyOnce
  <2>2. CASE /\ i \in DOMAIN log[u] /\ log'[u][i] = log[u][i]
             /\ v = t /\ j = n + 1 /\ log'[v][j] = e
    BY <1>6, <2>2
  <2>3. CASE /\ u = t /\ i = n + 1 /\ log'[u][i] = e
             /\ j \in DOMAIN log[v] /\ log'[v][j] = log[v][j]
    BY <1>6, <2>3
  <2>4. CASE /\ u = t /\ i = n + 1 /\ v = t /\ j = n + 1
    BY <2>4
  <2> QED BY <1>5, <2>1, <2>2, <2>3, <2>4
<1> QED BY <1>4, <1>7 DEF KeyInv

\* A message is stored at most once, in one stream, however processes race,
\* die and handle it again, and whatever the garbage collection takes.
THEOREM KeyOnceHolds == StoreSpec => []KeyOnce
<1>1. StoreInit => KeyInv
  <2> SUFFICES ASSUME StoreInit PROVE KeyInv
    OBVIOUS
  <2>1. \A t \in Tasks : log[t] \in Seq({}) /\ DOMAIN log[t] = {}
    BY DEF StoreInit
  <2> QED BY <2>1 DEF StoreInit, KeyInv, LogShape, KeyOnce
<1>2. KeyInv /\ [StoreNext]_storeVars => KeyInv'
  <2> SUFFICES ASSUME KeyInv, [StoreNext]_storeVars
               PROVE  KeyInv'
    OBVIOUS
  <2>1. CASE UNCHANGED log
    BY <2>1 DEF KeyInv, LogShape, KeyOnce
  <2>2. ASSUME NEW p \in Procs, Commit(p), proc[p].env.task \in Tasks
        PROVE  KeyInv'
    <3> DEFINE t == proc[p].env.task
               e == [ev |-> proc[p].ev, key |-> proc[p].env.key]
    <3>1. log' = [log EXCEPT ![t] = Append(@, e)]
      BY <2>2 DEF Commit
    <3>2. UniqueInLog(e.key)
      BY <2>2 DEF Commit
    <3> HIDE DEF e
    <3> QED BY <2>2, <3>1, <3>2, CommitKeepsKeys
  <2>3. ASSUME NEW p \in Procs, Commit(p), proc[p].env.task \notin Tasks
        PROVE  KeyInv'
    <3> DEFINE t == proc[p].env.task
               e == [ev |-> proc[p].ev, key |-> proc[p].env.key]
    <3>1. log' = [log EXCEPT ![t] = Append(@, e)]
      BY <2>3 DEF Commit
    <3>2. log = [u \in Tasks |-> log[u]] /\ t \notin Tasks
      BY <2>3 DEF KeyInv, LogShape
    <3> HIDE DEF t, e
    <3>3. log' = log
      BY <3>1, <3>2
    <3> QED BY <2>1, <3>3
  <2>4. ASSUME NEW p \in Procs,
               \/ \E env \in Journal : Receive(p, env)
               \/ ReadVersion(p) \/ Begin(p) \/ MeetConflict(p) \/ GiveUp(p)
               \/ Retranslate(p) \/ Rollback(p) \/ Kill(p)
        PROVE  UNCHANGED log
    BY <2>4 DEF Receive, ReadVersion, Begin, MeetConflict, GiveUp, Retranslate,
                Rollback, Kill
  <2>5. ASSUME NEW expired \in liveKeys, GcKeys(expired)
        PROVE  UNCHANGED log
    BY <2>5 DEF GcKeys
  <2>6. ASSUME NEW t \in Tasks, OutdateSnapshot(t)
        PROVE  UNCHANGED log
    BY <2>6 DEF OutdateSnapshot
  <2>7. CASE UNCHANGED storeVars
    BY <2>1, <2>7 DEF storeVars
  <2> QED BY <2>1, <2>2, <2>3, <2>4, <2>5, <2>6, <2>7 DEF StoreNext
<1>3. KeyInv => KeyOnce
  BY DEF KeyInv
<1> QED BY <1>1, <1>2, <1>3, PTL DEF StoreSpec
-----------------------------------------------------------------------------
(* The invariant of the store.  What a process is about to append was      *)
(* checked and translated at the head of the stream, unless the stream has *)
(* grown since.                                                            *)

HeadOf(t) == Replay(NewAggregate, log[t])

Fresh(p) == proc[p].ev = Translate(proc[p].env, HasPr(HeadOf(proc[p].env.task)))

\* A second attempt expects a version the stream had when it failed.
RetryFits(p) ==
  /\ proc[p].pc = "translated" => proc[p].attempt = 1
  /\ proc[p].pc = "conflict" => proc[p].attempt = 2
  /\ proc[p].attempt = 2 => proc[p].expected <= Len(log[proc[p].env.task])
  /\ proc[p].attempt = 2 /\ proc[p].pc = "ready"
       /\ proc[p].expected = Len(log[proc[p].env.task]) => Fresh(p)

\* A transaction that nobody has overtaken writes at the head of the stream.
WriteFits(p) ==
  proc[p].pc = "writing" /\ ~proc[p].stale =>
    /\ Accepts(HeadOf(proc[p].env.task), proc[p].ev)
    /\ proc[p].attempt = 2 => Fresh(p)

Shapes == DOMAIN proc = Procs /\ DOMAIN rows = Tasks /\ DOMAIN snaps = Tasks

StoreInv ==
  /\ StoreTypeOK /\ Shapes /\ LoadIsReplay /\ ProjectionInSync
  /\ \A p \in Procs : proc[p] # Idle => RetryFits(p) /\ WriteFits(p)

Attempts == [pc: {"translated", "ready", "conflict", "writing"},
             env: Journal, ev: Events, attempt: 1..2, expected: Nat, stale: BOOLEAN]

LEMMA IdleIsNoAttempt == Idle \notin Attempts /\ Idle.pc = "idle"
BY DEF Idle, Attempts

LEMMA NewIsAggregate == NewAggregate \in Aggregates
BY DEF NewAggregate, Aggregates, Statuses, LiveStatuses, Outcomes

LEMMA TranslateType ==
  ASSUME NEW env \in Journal, NEW hasPr \in BOOLEAN
  PROVE  /\ Translate(env, hasPr) \in Events /\ env.task \in Tasks /\ env.key \in Keys
<1>1. env \in Envelopes
  BY JournalAssumption
<1>2. env.task \in Tasks /\ env.key \in Keys /\ env.ev \in Events
  BY <1>1 DEF Envelopes
<1>3. CASE env.ev.type = "ContinuationRequested"
  <2>1. env.ev \in [type: {"ContinuationRequested"}, phase: Phases]
    BY <1>2, <1>3 DEF Events, PlainEvents, SessionEvents, PrEvents
  <2>2. ContinuationPhase(hasPr) \in Phases
    BY DEF ContinuationPhase, Phases
  <2>3. [env.ev EXCEPT !.phase = ContinuationPhase(hasPr)]
          \in [type: {"ContinuationRequested"}, phase: Phases]
    BY <2>1, <2>2
  <2> QED BY <1>2, <1>3, <2>3 DEF Translate, Events
<1>4. CASE env.ev.type # "ContinuationRequested"
  BY <1>2, <1>4 DEF Translate
<1> QED BY <1>2, <1>3, <1>4

\* What a load returns is the head of the stream, an aggregate.
LEMMA LoadsHead ==
  ASSUME StoreInv, NEW t \in Tasks
  PROVE  LoadAggregate(t) = HeadOf(t) /\ HeadOf(t) \in Aggregates /\ HasPr(HeadOf(t)) \in BOOLEAN
<1>1. log[t] \in Seq(Records)
  BY DEF StoreInv, StoreTypeOK
<1> QED BY <1>1, ReplayType, NewIsAggregate
        DEF StoreInv, LoadIsReplay, HeadOf, HasPr

\* What an attempt is made of.
LEMMA AttemptIs ==
  ASSUME StoreInv, NEW p \in Procs, proc[p].pc # "idle"
  PROVE  /\ proc[p] \in Attempts /\ proc[p] # Idle /\ proc[p].env \in Journal
         /\ proc[p].env.task \in Tasks /\ proc[p].env.key \in Keys /\ proc[p].ev \in Events
         /\ proc[p].attempt \in 1..2 /\ proc[p].expected \in Nat /\ proc[p].stale \in BOOLEAN
         /\ proc[p].pc \in {"translated", "ready", "conflict", "writing"}
<1>1. proc[p] \in Attempts
  BY IdleIsNoAttempt DEF StoreInv, StoreTypeOK, Attempts
<1>2. proc[p] # Idle /\ proc[p].env \in Journal
  BY <1>1, IdleIsNoAttempt DEF Attempts
<1> QED BY <1>1, <1>2, TranslateType DEF Attempts

\* A step of one process that leaves the database alone.
LEMMA QuietKeeps ==
  ASSUME StoreInv, NEW p \in Procs, NEW x, proc' = [proc EXCEPT ![p] = x],
         UNCHANGED <<log, liveKeys, rows, snaps>>,
         \/ x = Idle
         \/ x \in Attempts /\ RetryFits(p)' /\ WriteFits(p)'
  PROVE  StoreInv'
<1>1. /\ \A t \in Tasks : LoadAggregate(t)' = LoadAggregate(t)
      /\ \A t : Replay(NewAggregate, log'[t]) = HeadOf(t)
  BY DEF HeadOf, LoadAggregate
<1>2. /\ proc'[p] = x /\ DOMAIN proc' = Procs
      /\ \A q \in Procs : q # p => proc'[q] = proc[q]
  BY DEF StoreInv, Shapes
<1>3. StoreTypeOK' /\ Shapes'
  BY <1>2 DEF StoreInv, StoreTypeOK, Shapes, Attempts
<1>4. LoadIsReplay' /\ ProjectionInSync'
  BY <1>1 DEF StoreInv, LoadIsReplay, ProjectionInSync
<1>5. ASSUME NEW q \in Procs, proc'[q] # Idle
      PROVE  RetryFits(q)' /\ WriteFits(q)'
  <2>1. CASE q = p
    BY <1>2, <1>5, <2>1
  <2>2. CASE q # p
    <3>1. proc'[q] = proc[q] /\ proc[q] # Idle
      BY <1>2, <1>5, <2>2
    <3>2. RetryFits(q) /\ WriteFits(q)
      BY <3>1 DEF StoreInv
    <3> QED BY <3>1, <3>2 DEF RetryFits, WriteFits, Fresh, HeadOf
  <2> QED BY <2>1, <2>2
<1> QED BY <1>3, <1>4, <1>5 DEF StoreInv

LEMMA ProcessSteps ==
  ASSUME StoreInv, NEW p \in Procs,
         \/ \E env \in Journal : Receive(p, env)
         \/ ReadVersion(p) \/ Begin(p) \/ MeetConflict(p) \/ GiveUp(p)
         \/ Retranslate(p) \/ Rollback(p) \/ Kill(p)
  PROVE  StoreInv'
<1>1. ASSUME NEW env \in Journal, Receive(p, env)
      PROVE  StoreInv'
  <2> DEFINE ev == Translate(env, HasPr(LoadAggregate(env.task)))
  <2> DEFINE x == [pc |-> "translated", env |-> env, attempt |-> 1, expected |-> 0,
                   ev |-> ev, stale |-> FALSE]
  <2>1. ev \in Events
    BY TranslateType, LoadsHead
  <2>2. proc' = [proc EXCEPT ![p] = x] /\ UNCHANGED <<log, liveKeys, rows, snaps>>
    BY <1>1 DEF Receive
  <2> HIDE DEF ev
  <2>3. x \in Attempts /\ x.pc = "translated" /\ x.attempt = 1
    BY <2>1 DEF Attempts
  <2> HIDE DEF x
  <2>4. proc'[p] = x
    BY <2>2 DEF StoreInv, Shapes
  <2>5. RetryFits(p)' /\ WriteFits(p)'
    BY <2>3, <2>4 DEF RetryFits, WriteFits
  <2> QED BY <2>2, <2>3, <2>5, QuietKeeps
<1>2. ASSUME ReadVersion(p)
      PROVE  StoreInv'
  <2> DEFINE v == LoadAggregate(proc[p].env.task).version
  <2> DEFINE x == [proc[p] EXCEPT !.pc = "ready", !.expected = v]
  <2>1. proc[p] \in Attempts /\ proc[p] # Idle /\ proc[p].pc = "translated" /\ proc[p].attempt = 1
    BY <1>2, AttemptIs DEF ReadVersion, StoreInv, RetryFits
  <2>2. v \in Nat
    BY <1>2, AttemptIs, LoadsHead DEF ReadVersion, Aggregates
  <2>3. proc' = [proc EXCEPT ![p] = x] /\ UNCHANGED <<log, liveKeys, rows, snaps>>
    BY <1>2 DEF ReadVersion
  <2> HIDE DEF v
  <2>4. x \in Attempts /\ x.pc = "ready" /\ x.attempt = 1
    BY <2>1, <2>2 DEF Attempts
  <2> HIDE DEF x
  <2>5. proc'[p] = x
    BY <2>3 DEF StoreInv, Shapes
  <2>6. RetryFits(p)' /\ WriteFits(p)'
    BY <2>4, <2>5 DEF RetryFits, WriteFits
  <2> QED BY <2>3, <2>4, <2>6, QuietKeeps
<1>3. ASSUME Begin(p)
      PROVE  StoreInv'
  <2> DEFINE x == [proc[p] EXCEPT !.pc = "writing"]
  <2>1. /\ proc[p] \in Attempts /\ proc[p] # Idle /\ proc[p].pc = "ready"
        /\ proc[p].env.task \in Tasks
    BY <1>3, AttemptIs DEF Begin
  <2>2. proc' = [proc EXCEPT ![p] = x] /\ UNCHANGED <<log, liveKeys, rows, snaps>>
    BY <1>3 DEF Begin
  <2>3. /\ x \in Attempts /\ x.pc = "writing" /\ x.env = proc[p].env /\ x.ev = proc[p].ev
        /\ x.attempt = proc[p].attempt /\ x.expected = proc[p].expected
    BY <2>1 DEF Attempts
  <2> HIDE DEF x
  <2>4. proc'[p] = x
    BY <2>2 DEF StoreInv, Shapes
  <2>5. /\ Len(log[proc[p].env.task]) = proc[p].expected
        /\ Accepts(HeadOf(proc[p].env.task), proc[p].ev)
    BY <1>3, <2>1, LoadsHead DEF Begin, Conflict, Refused
  <2>6. RetryFits(p)
    BY <2>1 DEF StoreInv
  <2>7. RetryFits(p)'
    BY <2>2, <2>3, <2>4, <2>6 DEF RetryFits
  <2>8. proc[p].attempt = 2 => Fresh(p)
    BY <2>1, <2>5, <2>6 DEF RetryFits
  <2>9. WriteFits(p)'
    BY <2>2, <2>3, <2>4, <2>5, <2>8 DEF WriteFits, Fresh, HeadOf
  <2> QED BY <2>2, <2>3, <2>7, <2>9, QuietKeeps
<1>4. ASSUME MeetConflict(p)
      PROVE  StoreInv'
  <2> DEFINE n == Len(log[proc[p].env.task])
  <2> DEFINE x == [proc[p] EXCEPT !.pc = "conflict", !.attempt = 2, !.expected = n]
  <2>1. proc[p] \in Attempts /\ proc[p].env.task \in Tasks
    BY <1>4, AttemptIs DEF MeetConflict
  <2>2. proc' = [proc EXCEPT ![p] = x] /\ UNCHANGED <<log, liveKeys, rows, snaps>>
    BY <1>4 DEF MeetConflict
  <2>3. n \in Nat
    BY <2>1 DEF StoreInv, StoreTypeOK
  <2>4. n <= n /\ 2 \in 1..2
    BY <2>3
  <2> HIDE DEF n
  <2>5. /\ x \in Attempts /\ x.pc = "conflict" /\ x.attempt = 2 /\ x.expected = n
        /\ x.env = proc[p].env
    BY <2>1, <2>3, <2>4 DEF Attempts
  <2> HIDE DEF x
  <2>6. proc'[p] = x
    BY <2>2 DEF StoreInv, Shapes
  <2>7. RetryFits(p)' /\ WriteFits(p)'
    BY <2>2, <2>4, <2>5, <2>6 DEF RetryFits, WriteFits, n
  <2> QED BY <2>2, <2>5, <2>7, QuietKeeps
<1>5. ASSUME Retranslate(p)
      PROVE  StoreInv'
  <2> DEFINE ev == Translate(proc[p].env, HasPr(LoadAggregate(proc[p].env.task)))
  <2> DEFINE x == [proc[p] EXCEPT !.pc = "ready", !.ev = ev]
  <2>1. /\ proc[p] \in Attempts /\ proc[p] # Idle /\ proc[p].pc = "conflict"
        /\ proc[p].env \in Journal /\ proc[p].env.task \in Tasks
    BY <1>5, AttemptIs DEF Retranslate
  <2>2. ev \in Events /\ ev = Translate(proc[p].env, HasPr(HeadOf(proc[p].env.task)))
    BY <2>1, TranslateType, LoadsHead
  <2>3. proc' = [proc EXCEPT ![p] = x] /\ UNCHANGED <<log, liveKeys, rows, snaps>>
    BY <1>5 DEF Retranslate
  <2> HIDE DEF ev
  <2>4. /\ x \in Attempts /\ x.pc = "ready" /\ x.env = proc[p].env /\ x.ev = ev
        /\ x.attempt = proc[p].attempt /\ x.expected = proc[p].expected
    BY <2>1, <2>2 DEF Attempts
  <2> HIDE DEF x
  <2>5. proc'[p] = x
    BY <2>3 DEF StoreInv, Shapes
  <2>6. RetryFits(p)
    BY <2>1 DEF StoreInv
  <2>7. RetryFits(p)' /\ WriteFits(p)'
    BY <2>1, <2>2, <2>3, <2>4, <2>5, <2>6 DEF RetryFits, WriteFits, Fresh, HeadOf
  <2> QED BY <2>3, <2>4, <2>7, QuietKeeps
<1>6. ASSUME GiveUp(p) \/ Rollback(p) \/ Kill(p)
      PROVE  StoreInv'
  BY <1>6, QuietKeeps DEF GiveUp, Rollback, Kill, Done
<1> QED BY <1>1, <1>2, <1>3, <1>4, <1>5, <1>6

LEMMA CollectKeeps ==
  ASSUME StoreInv, NEW expired \in liveKeys, GcKeys(expired)
  PROVE  StoreInv'
<1>1. /\ UNCHANGED <<log, rows, snaps>> /\ liveKeys' \subseteq liveKeys
      /\ DOMAIN proc' = Procs
      /\ \A q \in Procs : proc'[q] = IF Pinned(q) THEN [proc[q] EXCEPT !.stale = TRUE]
                                     ELSE proc[q]
  BY DEF GcKeys
<1>2. /\ \A t \in Tasks : LoadAggregate(t)' = LoadAggregate(t)
      /\ \A t : Replay(NewAggregate, log'[t]) = HeadOf(t)
  BY <1>1 DEF HeadOf, LoadAggregate
<1>3. ASSUME NEW q \in Procs, Pinned(q)
      PROVE  /\ proc'[q] \in Attempts /\ proc'[q].pc = "writing" /\ proc'[q].stale
             /\ proc'[q].attempt = proc[q].attempt /\ proc'[q].expected = proc[q].expected
             /\ proc'[q].env = proc[q].env /\ proc[q] # Idle
  <2>1. proc[q].pc = "writing" /\ proc[q] \in Attempts /\ proc[q] # Idle
    BY <1>3, AttemptIs DEF Pinned
  <2>2. proc'[q] = [proc[q] EXCEPT !.stale = TRUE]
    BY <1>1, <1>3
  <2> QED BY <2>1, <2>2 DEF Attempts
<1>4. StoreTypeOK' /\ Shapes'
  <2>1. \A q \in Procs : proc'[q] = Idle \/ proc'[q] \in Attempts
    BY <1>1, <1>3 DEF StoreInv, StoreTypeOK, Attempts
  <2> QED BY <1>1, <2>1 DEF StoreInv, StoreTypeOK, Shapes, Attempts
<1>5. LoadIsReplay' /\ ProjectionInSync'
  BY <1>1, <1>2 DEF StoreInv, LoadIsReplay, ProjectionInSync
<1>6. ASSUME NEW q \in Procs, proc'[q] # Idle
      PROVE  RetryFits(q)' /\ WriteFits(q)'
  <2>1. CASE Pinned(q)
    <3>1. RetryFits(q)
      BY <1>3, <2>1 DEF StoreInv
    <3> QED BY <1>1, <1>3, <2>1, <3>1 DEF RetryFits, WriteFits
  <2>2. CASE ~Pinned(q)
    <3>1. proc'[q] = proc[q] /\ RetryFits(q) /\ WriteFits(q)
      BY <1>1, <1>6, <2>2 DEF StoreInv
    <3> QED BY <1>1, <3>1 DEF RetryFits, WriteFits, Fresh, HeadOf
  <2> QED BY <2>1, <2>2
<1> QED BY <1>4, <1>5, <1>6 DEF StoreInv

LEMMA OutdateKeeps ==
  ASSUME StoreInv, NEW t \in Tasks, OutdateSnapshot(t)
  PROVE  StoreInv'
<1>1. /\ UNCHANGED <<log, liveKeys, rows, proc>> /\ DOMAIN snaps' = Tasks
      /\ snaps[t] \in [version: 1..Len(log[t]), state: Aggregates, readable: BOOLEAN]
      /\ snaps'[t] = [snaps[t] EXCEPT !.readable = FALSE]
      /\ \A u \in Tasks : u # t => snaps'[u] = snaps[u]
  BY DEF OutdateSnapshot, StoreInv, StoreTypeOK, Shapes
<1>2. /\ snaps'[t] \in [version: 1..Len(log[t]), state: Aggregates, readable: BOOLEAN]
      /\ ~snaps'[t].readable
  BY <1>1
<1>3. \A u \in Tasks : LoadAggregate(u)' = Replay(NewAggregate, log[u])
  <2> TAKE u \in Tasks
  <2>1. CASE u = t
    BY <1>1, <1>2, <2>1 DEF LoadAggregate
  <2>2. CASE u # t
    BY <1>1, <2>2 DEF LoadAggregate, StoreInv, LoadIsReplay
  <2> QED BY <2>1, <2>2
<1>4. StoreTypeOK' /\ Shapes'
  <2>1. \A u \in Tasks :
          \/ snaps'[u] = NoSnapshot
          \/ snaps'[u] \in [version: 1..Len(log'[u]), state: Aggregates, readable: BOOLEAN]
    BY <1>1, <1>2 DEF StoreInv, StoreTypeOK
  <2> QED BY <1>1, <2>1 DEF StoreInv, StoreTypeOK, Shapes
<1>5. LoadIsReplay' /\ ProjectionInSync'
  BY <1>1, <1>3 DEF StoreInv, LoadIsReplay, ProjectionInSync
<1>6. \A q \in Procs : proc'[q] # Idle => RetryFits(q)' /\ WriteFits(q)'
  BY <1>1 DEF StoreInv, RetryFits, WriteFits, Fresh, HeadOf
<1> QED BY <1>4, <1>5, <1>6 DEF StoreInv

\* A commit moves the head of one stream by one accepted event; every load,
\* also one from the snapshot just taken, returns the head of its stream.
LEMMA CommitLoads ==
  ASSUME StoreInv, NEW p \in Procs, Commit(p), NEW t \in Tasks, t = proc[p].env.task
  PROVE  /\ log' \in [Tasks -> Seq(Records)] /\ Len(log'[t]) = Len(log[t]) + 1
         /\ log'[t] # <<>> /\ \A u \in Tasks : u # t => log'[u] = log[u]
         /\ Accepts(HeadOf(t), proc[p].ev)
         /\ HeadOf(t)' = Apply(HeadOf(t), proc[p].ev)
         /\ HeadOf(t)' \in Aggregates
         /\ \A u \in Tasks : u # t => HeadOf(u)' = HeadOf(u)
         /\ \A u \in Tasks : LoadAggregate(u)' = HeadOf(u)'
         /\ rows' = [rows EXCEPT ![t] = Row(HeadOf(t)')]
         /\ DOMAIN snaps' = Tasks
         /\ \A u \in Tasks :
              \/ snaps'[u] = NoSnapshot
              \/ snaps'[u] \in [version: 1..Len(log'[u]), state: Aggregates, readable: BOOLEAN]
<1> DEFINE s == log[t]
           n == Len(s)
           e == [ev |-> proc[p].ev, key |-> proc[p].env.key]
           a == Apply(HeadOf(t), proc[p].ev)
<1>1. /\ proc[p].env.key \in Keys /\ proc[p].ev \in Events
      /\ proc[p].pc = "writing" /\ ~proc[p].stale /\ proc[p] # Idle
  BY AttemptIs DEF Commit
<1>2. e \in Records /\ e.ev = proc[p].ev
  BY <1>1 DEF Records
<1>3. s \in Seq(Records) /\ n \in Nat /\ log \in [Tasks -> Seq(Records)]
  BY DEF StoreInv, StoreTypeOK
<1>4. Accepts(HeadOf(t), proc[p].ev)
  BY <1>1 DEF StoreInv, WriteFits
<1>5. LoadAggregate(t) = HeadOf(t) /\ HeadOf(t) \in Aggregates
  BY LoadsHead
<1>6. a \in Aggregates
  BY <1>1, <1>5, ApplyType
<1>7. /\ log' = [log EXCEPT ![t] = Append(s, e)] /\ rows' = [rows EXCEPT ![t] = Row(a)]
      /\ snaps' = TakeSnapshot(t, n + 1, a)
  BY <1>5 DEF Commit, Upsert
<1> HIDE DEF e, a
<1>8. Append(s, e) \in Seq(Records) /\ Len(Append(s, e)) = n + 1 /\ Append(s, e) # <<>>
  BY <1>2, <1>3
<1>9. /\ log' \in [Tasks -> Seq(Records)] /\ log'[t] = Append(s, e)
      /\ \A u \in Tasks : u # t => log'[u] = log[u]
  BY <1>3, <1>7, <1>8
<1>10. HeadOf(t)' = a
  <2>1. Replay(NewAggregate, Append(s, e)) = Apply(Replay(NewAggregate, s), e.ev)
    BY <1>2, <1>3, ReplayAppend
  <2> QED BY <1>2, <1>9, <2>1 DEF HeadOf, a
<1>11. \A u \in Tasks : u # t => HeadOf(u)' = HeadOf(u)
  BY <1>9 DEF HeadOf
<1>12. /\ DOMAIN snaps' = Tasks
       /\ \A u \in Tasks : u # t => snaps'[u] = snaps[u]
       /\ \/ snaps'[t] = [version |-> n + 1, state |-> a, readable |-> TRUE]
          \/ snaps'[t] = snaps[t]
  BY <1>7 DEF TakeSnapshot, StoreInv, Shapes
<1>13. snaps[t] = NoSnapshot \/
       snaps[t] \in [version: 1..n, state: Aggregates, readable: BOOLEAN]
  BY DEF StoreInv, StoreTypeOK
<1>14. LoadAggregate(t)' = a
  <2>1. CASE snaps'[t] = [version |-> n + 1, state |-> a, readable |-> TRUE]
    <3>1. snaps'[t] # NoSnapshot /\ snaps'[t].readable /\ snaps'[t].state = a
          /\ snaps'[t].version = n + 1
      BY <2>1 DEF NoSnapshot
    <3>2. SubSeq(log'[t], n + 2, n + 1) = <<>>
      BY <1>3
    <3>3. (n + 1) + 1 = n + 2 /\ Len(log'[t]) = n + 1
      BY <1>3, <1>8, <1>9
    <3>4. LoadAggregate(t)' = Replay(a, <<>>)
      BY <3>1, <3>2, <3>3 DEF LoadAggregate
    <3> QED BY <3>4, ReplayNothing
  <2>2. CASE snaps'[t] = snaps[t] /\ ~(snaps[t] # NoSnapshot /\ snaps[t].readable)
    BY <1>10, <2>2 DEF LoadAggregate, HeadOf
  <2>3. CASE snaps'[t] = snaps[t] /\ snaps[t] # NoSnapshot /\ snaps[t].readable
    <3> DEFINE m == snaps[t].version + 1
               tail == SubSeq(s, m, n)
    <3>1. m \in 1..(Len(s) + 1)
      BY <1>3, <1>13, <2>3
    <3> HIDE DEF m
    <3>2. /\ tail \in Seq(Records)
          /\ SubSeq(Append(s, e), m, n + 1) = Append(tail, e)
      <4>1. ASSUME NEW r \in Seq(Records), NEW k \in 1..(Len(r) + 1)
            PROVE  /\ SubSeq(r, k, Len(r)) \in Seq(Records)
                   /\ SubSeq(Append(r, e), k, Len(r) + 1) = Append(SubSeq(r, k, Len(r)), e)
        BY <1>2, SubSeqAppend
      <4> HIDE DEF s
      <4> QED BY <1>3, <3>1, <4>1
    <3>3. LoadAggregate(t) = Replay(snaps[t].state, tail)
      BY <2>3 DEF LoadAggregate, m
    <3>4. LoadAggregate(t)' = Replay(snaps[t].state, SubSeq(Append(s, e), m, n + 1))
      BY <1>8, <1>9, <2>3 DEF LoadAggregate, m
    <3> HIDE DEF tail
    <3>5. Replay(snaps[t].state, Append(tail, e)) = Apply(Replay(snaps[t].state, tail), e.ev)
      BY <1>2, <3>2, ReplayAppend
    <3> QED BY <1>2, <1>5, <3>2, <3>3, <3>4, <3>5 DEF a
  <2> QED BY <1>12, <2>1, <2>2, <2>3
<1>15. \A u \in Tasks : LoadAggregate(u)' = HeadOf(u)'
  <2> TAKE u \in Tasks
  <2>1. CASE u = t
    BY <1>10, <1>14, <2>1
  <2>2. CASE u # t
    <3>1. LoadAggregate(u)' = LoadAggregate(u)
      BY <1>9, <1>12, <2>2 DEF LoadAggregate
    <3> QED BY <1>11, <2>2, <3>1, LoadsHead
  <2> QED BY <2>1, <2>2
<1>16. \A u \in Tasks :
         \/ snaps'[u] = NoSnapshot
         \/ snaps'[u] \in [version: 1..Len(log'[u]), state: Aggregates, readable: BOOLEAN]
  <2> TAKE u \in Tasks
  <2>1. CASE u # t
    BY <1>9, <1>12, <2>1 DEF StoreInv, StoreTypeOK
  <2>2. CASE u = t
    <3> DEFINE V == 1..(n + 1)
    <3>1. Len(log'[t]) = n + 1 /\ n + 1 \in V /\ \A v \in 1..n : v \in V
      <4>1. Len(log'[t]) = n + 1 /\ n \in Nat
        BY <1>3, <1>8, <1>9
      <4> HIDE DEF n
      <4> QED BY <4>1 DEF V
    <3> HIDE DEF V, n
    <3>2. CASE snaps'[t] = [version |-> n + 1, state |-> a, readable |-> TRUE]
      <4>1. snaps'[t] \in [version: V, state: Aggregates, readable: BOOLEAN]
        BY <1>6, <3>1, <3>2
      <4> QED BY <2>2, <3>1, <4>1 DEF V
    <3>3. CASE snaps'[t] = snaps[t]
      <4>1. \/ snaps'[t] = NoSnapshot
            \/ snaps'[t] \in [version: V, state: Aggregates, readable: BOOLEAN]
        BY <1>13, <3>1, <3>3
      <4> QED BY <2>2, <3>1, <4>1 DEF V
    <3> QED BY <1>12, <3>2, <3>3 DEF n
  <2> QED BY <2>1, <2>2
<1> QED BY <1>4, <1>6, <1>7, <1>8, <1>9, <1>10, <1>11, <1>12, <1>15, <1>16 DEF a

LEMMA CommitKeeps ==
  ASSUME StoreInv, NEW p \in Procs, Commit(p)
  PROVE  StoreInv'
<1>1. proc[p].pc = "writing" /\ proc[p].env.task \in Tasks /\ proc[p].env.key \in Keys
  BY AttemptIs DEF Commit
<1>2. PICK t \in Tasks : t = proc[p].env.task
  BY <1>1
<1>3. /\ log' \in [Tasks -> Seq(Records)] /\ Len(log'[t]) = Len(log[t]) + 1
      /\ log'[t] # <<>> /\ \A u \in Tasks : u # t => log'[u] = log[u]
      /\ \A u \in Tasks : u # t => HeadOf(u)' = HeadOf(u)
      /\ \A u \in Tasks : LoadAggregate(u)' = HeadOf(u)'
      /\ rows' = [rows EXCEPT ![t] = Row(HeadOf(t)')]
      /\ DOMAIN snaps' = Tasks
      /\ \A u \in Tasks :
           \/ snaps'[u] = NoSnapshot
           \/ snaps'[u] \in [version: 1..Len(log'[u]), state: Aggregates, readable: BOOLEAN]
  BY <1>2, CommitLoads
<1>4. /\ proc'[p] = Idle /\ DOMAIN proc' = Procs
      /\ \A q \in Procs : q # p /\ ~Pinned(q) => proc'[q] = proc[q]
      /\ \A q \in Procs : q # p /\ Pinned(q) => proc'[q] = [proc[q] EXCEPT !.stale = TRUE]
      /\ liveKeys' = liveKeys \union {proc[p].env.key}
  BY DEF Commit, Overtake
<1>5. ASSUME NEW q \in Procs, q # p, Pinned(q)
      PROVE  /\ proc'[q] \in Attempts /\ proc'[q].pc = "writing" /\ proc'[q].stale
             /\ proc'[q].attempt = proc[q].attempt /\ proc'[q].expected = proc[q].expected
             /\ proc'[q].env = proc[q].env /\ proc[q] # Idle
  <2>1. proc[q].pc = "writing" /\ proc[q] \in Attempts /\ proc[q] # Idle
    BY <1>5, AttemptIs DEF Pinned
  <2>2. proc'[q] = [proc[q] EXCEPT !.stale = TRUE]
    BY <1>4, <1>5
  <2> QED BY <2>1, <2>2 DEF Attempts
<1>6. StoreTypeOK' /\ Shapes'
  <2>1. \A q \in Procs : proc'[q] = Idle \/ proc'[q] \in Attempts
    BY <1>4, <1>5 DEF StoreInv, StoreTypeOK, Attempts
  <2>2. liveKeys' \subseteq Keys
    BY <1>1, <1>4 DEF StoreInv, StoreTypeOK
  <2>3. DOMAIN rows' = Tasks
    BY <1>3 DEF StoreInv, Shapes
  <2> QED BY <1>3, <1>4, <2>1, <2>2, <2>3 DEF StoreTypeOK, Shapes, Attempts
<1>7. LoadIsReplay'
  BY <1>3 DEF LoadIsReplay, HeadOf
<1>8. ProjectionInSync'
  <2> SUFFICES ASSUME NEW u \in Tasks
               PROVE  rows'[u] = IF log'[u] = <<>> THEN NoRow ELSE Row(HeadOf(u)')
    BY DEF ProjectionInSync, HeadOf
  <2>1. CASE u = t
    BY <1>3, <2>1 DEF StoreInv, Shapes
  <2>2. CASE u # t
    <3>1. rows'[u] = rows[u] /\ log'[u] = log[u] /\ HeadOf(u)' = HeadOf(u)
      BY <1>3, <2>2
    <3> QED BY <3>1 DEF StoreInv, ProjectionInSync, HeadOf
  <2> QED BY <2>1, <2>2
<1>9. ASSUME NEW q \in Procs, proc'[q] # Idle
      PROVE  RetryFits(q)' /\ WriteFits(q)'
  <2>1. q # p /\ proc[q] # Idle
    BY <1>4, <1>5, <1>9
  <2>2. proc[q] \in Attempts
    BY <2>1 DEF StoreInv, StoreTypeOK, Attempts
  <2>3. proc[q].pc \in {"translated", "ready", "conflict", "writing"}
        /\ proc[q].env \in Journal /\ proc[q].expected \in Nat
    BY <2>2 DEF Attempts
  <2>4. proc[q].env.task \in Tasks
    BY <2>3, TranslateType
  <2>5. RetryFits(q)
    BY <2>1 DEF StoreInv
  <2>6. PICK u \in Tasks : u = proc[q].env.task
    BY <2>4
  <2>7. /\ Len(log[u]) \in Nat /\ Len(log'[u]) \in Nat
        /\ Len(log[u]) <= Len(log'[u])
        /\ u = t => Len(log[u]) < Len(log'[u])
        /\ u # t => log'[u] = log[u] /\ HeadOf(u)' = HeadOf(u)
    <3>1. \A v \in Tasks : Len(log[v]) \in Nat /\ Len(log'[v]) \in Nat
      BY <1>3 DEF StoreInv, StoreTypeOK
    <3> QED BY <1>3, <3>1
  <2>8. CASE Pinned(q)
    <3>1. /\ proc'[q].pc = "writing" /\ proc'[q].stale /\ proc'[q].env.task = u
          /\ proc'[q].attempt = proc[q].attempt /\ proc'[q].expected = proc[q].expected
      BY <1>5, <2>1, <2>6, <2>8
    <3>2. proc'[q].attempt = 2 => proc'[q].expected <= Len(log'[u])
      BY <2>3, <2>5, <2>6, <2>7, <3>1 DEF RetryFits
    <3> QED BY <3>1, <3>2 DEF RetryFits, WriteFits
  <2>9. CASE ~Pinned(q)
    <3>1. proc'[q] = proc[q] /\ proc[q].pc # "writing"
      BY <1>4, <2>1, <2>9 DEF Pinned
    <3>2. proc[q].attempt = 2 => proc[q].expected <= Len(log[u])
      BY <2>5, <2>6 DEF RetryFits
    <3>3. proc[q].attempt = 2 => proc[q].expected <= Len(log'[u])
      BY <2>3, <2>7, <3>2
    <3>4. WriteFits(q)'
      BY <3>1 DEF WriteFits
    <3>5. ASSUME proc[q].attempt = 2, proc[q].pc = "ready", proc[q].expected = Len(log'[u])
          PROVE  Fresh(q)'
      <4>1. u # t
        BY <2>3, <2>7, <3>2, <3>5
      <4>2. Fresh(q)
        BY <2>5, <2>6, <2>7, <3>5, <4>1 DEF RetryFits
      <4> QED BY <2>6, <2>7, <3>1, <4>1, <4>2 DEF Fresh
    <3>6. RetryFits(q)'
      BY <2>5, <2>6, <3>1, <3>3, <3>5 DEF RetryFits
    <3> QED BY <3>4, <3>6
  <2> QED BY <2>8, <2>9
<1> QED BY <1>6, <1>7, <1>8, <1>9 DEF StoreInv

LEMMA StoreInitially == StoreInit => StoreInv
<1> SUFFICES ASSUME StoreInit PROVE StoreInv
  OBVIOUS
<1>1. /\ \A t \in Tasks : log[t] = <<>> /\ rows[t] = NoRow /\ snaps[t] = NoSnapshot
      /\ \A p \in Procs : proc[p] = Idle
      /\ liveKeys = {} /\ DOMAIN proc = Procs /\ DOMAIN rows = Tasks /\ DOMAIN snaps = Tasks
  BY DEF StoreInit
<1>2. log \in [Tasks -> Seq(Records)]
  BY DEF StoreInit
<1>3. StoreTypeOK /\ Shapes
  BY <1>1, <1>2 DEF StoreTypeOK, Shapes
<1>4. LoadIsReplay /\ ProjectionInSync
  BY <1>1 DEF LoadIsReplay, LoadAggregate, ProjectionInSync
<1> QED BY <1>1, <1>3, <1>4 DEF StoreInv

LEMMA StoreInductive == StoreInv /\ [StoreNext]_storeVars => StoreInv'
<1> SUFFICES ASSUME StoreInv, [StoreNext]_storeVars PROVE StoreInv'
  OBVIOUS
<1>1. CASE UNCHANGED storeVars
  <2>1. /\ UNCHANGED <<log, liveKeys, rows, snaps, proc>>
    BY <1>1 DEF storeVars
  <2>2. StoreTypeOK' /\ Shapes' /\ LoadIsReplay' /\ ProjectionInSync'
    BY <2>1
    DEF StoreInv, StoreTypeOK, Shapes, LoadIsReplay, LoadAggregate, ProjectionInSync
  <2>3. \A p \in Procs : proc'[p] # Idle => RetryFits(p)' /\ WriteFits(p)'
    BY <2>1 DEF StoreInv, RetryFits, WriteFits, Fresh, HeadOf
  <2> QED BY <2>2, <2>3 DEF StoreInv
<1>2. ASSUME NEW p \in Procs,
             \/ \E env \in Journal : Receive(p, env)
             \/ ReadVersion(p) \/ Begin(p) \/ MeetConflict(p) \/ GiveUp(p)
             \/ Retranslate(p) \/ Rollback(p) \/ Kill(p)
      PROVE  StoreInv'
  BY <1>2, ProcessSteps
<1> QED BY <1>1, <1>2, CommitKeeps, CollectKeeps, OutdateKeeps DEF StoreNext

LEMMA StoreInvariant == StoreSpec => []StoreInv
BY StoreInitially, StoreInductive, PTL DEF StoreSpec

\* The store's tables keep their types.
THEOREM StoreTypeCorrect == StoreSpec => []StoreTypeOK
<1>1. StoreInv => StoreTypeOK
  BY DEF StoreInv
<1> QED BY <1>1, StoreInvariant, PTL

\* The projected row and every load are those of the log, and a retry appends
\* what follows from the version it names, however processes interleave.
THEOREM StoreSafetyHolds == StoreSpec => []StoreSafety
<1>1. StoreInv => RetryIsFresh
  <2> SUFFICES ASSUME StoreInv, NEW p \in Procs,
                      proc[p].pc = "writing", proc[p].attempt = 2, ~proc[p].stale
               PROVE  proc[p].ev
                        = Translate(proc[p].env, HasPr(LoadAggregate(proc[p].env.task)))
    BY DEF RetryIsFresh
  <2>1. proc[p] # Idle /\ proc[p].env.task \in Tasks
    BY AttemptIs
  <2>2. Fresh(p)
    BY <2>1 DEF StoreInv, WriteFits
  <2> QED BY <2>1, <2>2, LoadsHead DEF Fresh
<1>2. StoreInv => StoreSafety
  BY <1>1 DEF StoreInv, StoreSafety
<1> QED BY <1>2, StoreInvariant, PTL

-----------------------------------------------------------------------------
(* The store implements the stream.                                        *)

\* The stream's aggregates, events and operators are the store's.
LEMMA StreamOperators ==
  /\ Stream!Events = Events
  /\ \A a, ev : Stream!Accepts(a, ev) <=> Accepts(a, ev)
  /\ \A a, ev : Stream!Apply(a, ev) = Apply(a, ev)
<1>1. Stream!Events = Events
  BY DEF Events, PlainEvents, SessionEvents, PrEvents, Phases, Stream!Events,
         Stream!PlainEvents, Stream!SessionEvents, Stream!PrEvents, Stream!Phases
<1>2. \A a, ev : Stream!Accepts(a, ev) <=> Accepts(a, ev)
  BY DEF Accepts, Stream!Accepts
<1>3. \A a, ev : Stream!ApplyFields(a, ev) = ApplyFields(a, ev)
  BY DEF ApplyFields, ClearSession, CountContinuation, HasPr, Stream!ApplyFields,
         Stream!ClearSession, Stream!CountContinuation, Stream!HasPr
<1>4. \A a, ev : Stream!RecordMetadata(a, ev) = RecordMetadata(a, ev)
  BY DEF RecordMetadata, Stream!RecordMetadata
<1>5. \A status, type : Stream!ComputeTransition(status, type) = ComputeTransition(status, type)
  BY DEF ComputeTransition, Stream!ComputeTransition
<1>6. \A status : Stream!IsTerminal(status) <=> IsTerminal(status)
  BY DEF IsTerminal, TerminalStatuses, Stream!IsTerminal, Stream!TerminalStatuses
<1>7. \A a, ev : Stream!Apply(a, ev) = Apply(a, ev)
  BY <1>3, <1>4, <1>5, <1>6 DEF Apply, Stream!Apply
<1> QED BY <1>1, <1>2, <1>7

\* A step that keeps the log keeps what a load returns and the keys spent.
LEMMA KeepsStream ==
  ASSUME StoreInv, StoreInv', UNCHANGED log
  PROVE  /\ UNCHANGED LoggedKeys
         /\ UNCHANGED [t \in Tasks |-> LoadAggregate(t)]
<1>1. UNCHANGED LoggedKeys
  BY DEF LoggedKeys
<1>2. \A t \in Tasks : LoadAggregate(t)' = LoadAggregate(t)
  BY DEF StoreInv, LoadIsReplay
<1> QED BY <1>1, <1>2

LEMMA CommitAppends ==
  ASSUME StoreInv, NEW p \in Procs, Commit(p)
  PROVE  \E t \in Tasks, ev \in Events, key \in Keys : Stream!AppendEvent(t, ev, key)
<1>1. /\ proc[p].env.task \in Tasks /\ proc[p].env.key \in Keys /\ proc[p].ev \in Events
  BY AttemptIs DEF Commit
<1>2. PICK t \in Tasks : t = proc[p].env.task
  BY <1>1
<1>3. PICK ev \in Events, key \in Keys : ev = proc[p].ev /\ key = proc[p].env.key
  BY <1>1
<1>4. /\ Accepts(HeadOf(t), ev) /\ HeadOf(t)' = Apply(HeadOf(t), ev)
      /\ \A u \in Tasks : u # t => HeadOf(u)' = HeadOf(u)
      /\ \A u \in Tasks : LoadAggregate(u)' = HeadOf(u)'
  BY <1>2, <1>3, CommitLoads
<1>5. \A u \in Tasks : LoadAggregate(u) = HeadOf(u)
  BY LoadsHead
<1>6. key \notin LoggedKeys
  BY <1>3 DEF Commit, UniqueInLog
<1>7. LoggedKeys' = LoggedKeys \union {key}
  <2> DEFINE e == [ev |-> ev, key |-> key]
  <2>1. log[t] \in Seq(Records) /\ log \in [Tasks -> Seq(Records)]
    BY DEF StoreInv, StoreTypeOK
  <2>2. log' = [log EXCEPT ![t] = Append(log[t], e)]
    BY <1>2, <1>3 DEF Commit
  <2>3. e.key = key
    OBVIOUS
  <2> HIDE DEF e
  <2>4. log'[t] = Append(log[t], e) /\ \A u \in Tasks : u # t => log'[u] = log[u]
    BY <2>1, <2>2
  <2> DEFINE n == Len(log[t])
  <2>5. /\ DOMAIN log[t] = 1..n /\ n \in Nat /\ DOMAIN log'[t] = 1..(n + 1)
        /\ \A i \in 1..n : log'[t][i] = log[t][i]
        /\ log'[t][n + 1] = e
    BY <2>1, <2>4, AppendPositions
  <2>6. {log'[t][i].key : i \in DOMAIN log'[t]}
          = {log[t][i].key : i \in DOMAIN log[t]} \union {key}
    <3>1. 1..(n + 1) = 1..n \union {n + 1}
      BY <2>5
    <3> HIDE DEF n
    <3> QED BY <2>3, <2>5, <3>1
  <2> DEFINE K(u) == {log[u][i].key : i \in DOMAIN log[u]}
             L(u) == {log'[u][i].key : i \in DOMAIN log'[u]}
  <2>7. L(t) = K(t) \union {key} /\ \A u \in Tasks : u # t => L(u) = K(u)
    BY <2>4, <2>6
  <2>8. LoggedKeys = UNION {K(u) : u \in Tasks} /\ LoggedKeys' = UNION {L(u) : u \in Tasks}
    BY DEF LoggedKeys
  <2> HIDE DEF K, L
  <2> QED BY <2>7, <2>8
<1>8. [u \in Tasks |-> LoadAggregate(u)]'
        = [[u \in Tasks |-> LoadAggregate(u)] EXCEPT
             ![t] = Apply([u \in Tasks |-> LoadAggregate(u)][t], ev)]
  BY <1>4, <1>5
<1>9. Stream!AppendEvent(t, ev, key)
  BY <1>4, <1>5, <1>6, <1>7, <1>8, StreamOperators DEF Stream!AppendEvent
<1> QED BY <1>9

\* What the store's clients see is the promised stream: a load moves only by
\* one accepted event at a time, and a key once spent stays spent, through
\* races, crashes, garbage collection and outdated snapshots.
THEOREM StreamImplementedHolds == StoreSpec => StreamImplemented
<1>1. StoreInit => Stream!StreamInit
  <2> SUFFICES ASSUME StoreInit PROVE Stream!StreamInit
    OBVIOUS
  <2>1. /\ \A t \in Tasks : log[t] = <<>> /\ snaps[t] = NoSnapshot
    BY DEF StoreInit
  <2>2. LoggedKeys = {}
    BY <2>1 DEF LoggedKeys
  <2>3. \A t \in Tasks : LoadAggregate(t) = NewAggregate
    BY <2>1, ReplayNothing DEF LoadAggregate
  <2> QED BY <2>2, <2>3 DEF Stream!StreamInit, Stream!NewAggregate, NewAggregate
<1>2. StoreInv /\ [StoreNext]_storeVars => [Stream!StreamNext]_Stream!streamVars
  <2> SUFFICES ASSUME StoreInv, [StoreNext]_storeVars
               PROVE  [Stream!StreamNext]_Stream!streamVars
    OBVIOUS
  <2>1. StoreInv'
    BY StoreInductive
  <2>2. ASSUME NEW p \in Procs, Commit(p)
        PROVE  Stream!StreamNext
    BY <2>2, CommitAppends, StreamOperators DEF Stream!StreamNext
  <2>3. ASSUME UNCHANGED log
        PROVE  UNCHANGED Stream!streamVars
    BY <2>1, <2>3, KeepsStream DEF Stream!streamVars
  <2>4. ASSUME NEW p \in Procs,
               \/ \E env \in Journal : Receive(p, env)
               \/ ReadVersion(p) \/ Begin(p) \/ MeetConflict(p) \/ GiveUp(p)
               \/ Retranslate(p) \/ Rollback(p) \/ Kill(p)
        PROVE  UNCHANGED log
    BY <2>4 DEF Receive, ReadVersion, Begin, MeetConflict, GiveUp, Retranslate,
                Rollback, Kill
  <2>5. (\E expired \in liveKeys : GcKeys(expired)) \/ (\E t \in Tasks : OutdateSnapshot(t))
        \/ UNCHANGED storeVars => UNCHANGED log
    BY DEF GcKeys, OutdateSnapshot, storeVars
  <2> QED BY <2>2, <2>3, <2>4, <2>5 DEF StoreNext
<1> QED BY <1>1, <1>2, StoreInvariant, PTL
        DEF StoreSpec, StreamImplemented, Stream!StreamSpec

-----------------------------------------------------------------------------
(* With one process at a time nothing is stored between the two loads of   *)
(* an append: an event is translated at the head it is appended to.        *)

OneAtWork == \A p, q \in Procs : proc[p] # Idle /\ proc[q] # Idle => p = q

\* The daemon translates no message to a ContinuationDispatched (adapter.rs):
\* only the aggregate knows that event.
NoneDispatched == \A env \in Journal : env.ev.type # "ContinuationDispatched"

HeadStarted == \A t \in Tasks : HeadOf(t).initialized <=> log[t] # <<>>
AllFresh == \A p \in Procs : proc[p] # Idle => Fresh(p)
CardInv == HeadStarted /\ AllFresh /\ CardMatchesJournal

LEMMA TranslateKeepsType ==
  ASSUME NEW env \in Journal, NEW hasPr \in BOOLEAN
  PROVE  /\ Translate(env, hasPr).type = env.ev.type
         /\ env.ev.type = "ContinuationRequested" =>
              Translate(env, hasPr).phase = ContinuationPhase(hasPr)
<1>1. env.ev \in Events
  BY JournalAssumption DEF Envelopes
<1>2. CASE env.ev.type = "ContinuationRequested"
  <2>1. env.ev \in [type: {"ContinuationRequested"}, phase: Phases]
    BY <1>1, <1>2 DEF Events, PlainEvents, SessionEvents, PrEvents
  <2> QED BY <1>2, <2>1 DEF Translate
<1>3. CASE env.ev.type # "ContinuationRequested"
  BY <1>3 DEF Translate
<1> QED BY <1>2, <1>3

\* What an event does to the session and to the end of a task.
LEMMA ApplySession ==
  ASSUME NEW a \in Aggregates, NEW ev \in Events, Accepts(a, ev),
         ev.type # "ContinuationDispatched"
  PROVE  /\ Apply(a, ev).initialized
         /\ ~a.initialized => Apply(a, ev).session = a.session
         /\ IsTerminal(a.status) /\ a.initialized => IsTerminal(Apply(a, ev).status)
         /\ a.initialized /\ ~IsTerminal(a.status) =>
              Apply(a, ev).session =
                IF ev.type = "PickerAssigned" THEN ev.session
                ELSE IF ev.type \in {"PickerSucceeded", "PickerFailed"} /\ a.session = ev.session
                THEN NoSession ELSE a.session
<1>1. CASE ~a.initialized
  BY <1>1 DEF Apply, Aggregates
<1>2. CASE a.initialized /\ IsTerminal(a.status)
  <2>1. /\ RecordMetadata(a, ev) \in Aggregates
        /\ RecordMetadata(a, ev).status = a.status
        /\ RecordMetadata(a, ev).initialized = a.initialized
    <3> DEFINE m == RecordMetadata(a, ev)
               s == m.session
               r == m.pr
    <3>1. m \in Aggregates /\ m = [a EXCEPT !.session = s, !.pr = r]
      BY RecordMetadataType
    <3> HIDE DEF s, r
    <3>2. [a EXCEPT !.session = s, !.pr = r].status = a.status
      BY DEF Aggregates
    <3>3. [a EXCEPT !.session = s, !.pr = r].initialized = a.initialized
      BY DEF Aggregates
    <3> HIDE DEF m
    <3>4. m \in Aggregates /\ m.status = a.status /\ m.initialized = a.initialized
      BY <3>1, <3>2, <3>3
    <3> QED BY <3>4 DEF m
  <2>2. Apply(a, ev) = [RecordMetadata(a, ev) EXCEPT !.version = a.version + 1]
    BY <1>2 DEF Apply
  <2> QED BY <1>2, <2>1, <2>2 DEF Aggregates
<1>3. CASE a.initialized /\ ~IsTerminal(a.status)
  <2> DEFINE f == ApplyFields(a, ev)
  <2>1. f \in Aggregates /\ f.initialized = a.initialized
    BY ApplyFieldsType
  <2>2. Apply(a, ev) = [f EXCEPT !.status = ComputeTransition(a.status, ev.type),
                                 !.version = a.version + 1]
    BY <1>3 DEF Apply
  <2>3. f.session = IF ev.type = "PickerAssigned" THEN ev.session
                    ELSE IF ev.type \in {"PickerSucceeded", "PickerFailed"} /\ a.session = ev.session
                    THEN NoSession ELSE a.session
    <3>1. CASE ev.type = "PickerAssigned"
      BY <3>1 DEF ApplyFields, Aggregates
    <3>2. CASE ev.type \in {"PickerSucceeded", "PickerFailed"}
      BY <3>2 DEF ApplyFields, ClearSession, Aggregates
    <3>3. CASE ev.type \notin {"PickerAssigned", "PickerSucceeded", "PickerFailed"}
      BY <3>3 DEF ApplyFields, CountContinuation, HasPr, Aggregates
    <3> QED BY <3>1, <3>2, <3>3
  <2> HIDE DEF f
  <2>4. Apply(a, ev).session = f.session /\ Apply(a, ev).initialized = f.initialized
    BY <2>1, <2>2 DEF Aggregates
  <2> QED BY <1>3, <2>1, <2>3, <2>4
<1> QED BY <1>1, <1>2, <1>3

\* The prefixes of a stream that has grown.
LEMMA PrefixKept ==
  ASSUME NEW S, NEW s \in Seq(S), NEW e \in S
  PROVE  /\ \A i \in 1..Len(s) : SubSeq(Append(s, e), 1, i - 1) = SubSeq(s, 1, i - 1)
         /\ SubSeq(Append(s, e), 1, Len(s)) = s
<1> DEFINE n == Len(s)
<1>1. n \in Nat /\ \A i \in 1..n : Append(s, e)[i] = s[i]
  OBVIOUS
<1>2. ASSUME NEW i \in 1..n
      PROVE  SubSeq(Append(s, e), 1, i - 1) = SubSeq(s, 1, i - 1)
  <2>1. SubSeq(Append(s, e), 1, i - 1) = [j \in 1..(i - 1) |-> Append(s, e)[j]]
    BY <1>1
  <2>2. SubSeq(s, 1, i - 1) = [j \in 1..(i - 1) |-> s[j]]
    BY <1>1
  <2>3. \A j \in 1..(i - 1) : j \in 1..n
    BY <1>1
  <2> QED BY <1>1, <2>1, <2>2, <2>3
<1>3. SubSeq(Append(s, e), 1, n) = s
  <2>1. SubSeq(Append(s, e), 1, n) = [j \in 1..n |-> Append(s, e)[j]]
    BY <1>1
  <2>2. s = [j \in 1..n |-> s[j]]
    OBVIOUS
  <2> QED BY <1>1, <2>1, <2>2
<1> QED BY <1>2, <1>3

\* The stream that a commit makes longer.
LEMMA CommitGrows ==
  ASSUME StoreInv, NEW p \in Procs, Commit(p), NEW t \in Tasks, t = proc[p].env.task
  PROVE  \E e \in Records, n \in Nat :
           /\ e.ev = proc[p].ev /\ n = Len(log[t]) /\ log[t] \in Seq(Records)
           /\ log'[t] = Append(log[t], e)
           /\ DOMAIN log[t] = 1..n /\ DOMAIN log'[t] = 1..(n + 1) /\ Len(log'[t]) = n + 1
           /\ \A i \in 1..n : log'[t][i] = log[t][i]
           /\ log'[t][n + 1] = e
<1> DEFINE e == [ev |-> proc[p].ev, key |-> proc[p].env.key]
           n == Len(log[t])
<1>1. e \in Records /\ e.ev = proc[p].ev
  BY AttemptIs DEF Commit, Records
<1>2. log' = [log EXCEPT ![t] = Append(log[t], e)]
  BY DEF Commit
<1> HIDE DEF e
<1>3. log \in [Tasks -> Seq(Records)] /\ log[t] \in Seq(Records) /\ n \in Nat
  BY DEF StoreInv, StoreTypeOK
<1>4. log'[t] = Append(log[t], e)
  BY <1>2, <1>3
<1>5. /\ DOMAIN log[t] = 1..n /\ DOMAIN log'[t] = 1..(n + 1) /\ Len(log'[t]) = n + 1
      /\ \A i \in 1..n : log'[t][i] = log[t][i]
      /\ log'[t][n + 1] = e
  BY <1>1, <1>3, <1>4
<1> QED BY <1>1, <1>3, <1>4, <1>5

\* The phase of the event that is stored is that of the stream before it.
LEMMA CommitKeepsPhases ==
  ASSUME StoreInv, PhaseMatchesPr, NEW p \in Procs, Commit(p), Fresh(p)
  PROVE  PhaseMatchesPr'
<1>1. proc[p].env \in Journal /\ proc[p].env.task \in Tasks
  BY AttemptIs DEF Commit
<1>2. PICK t \in Tasks : t = proc[p].env.task
  BY <1>1
<1>3. PICK e \in Records, n \in Nat :
        /\ e.ev = proc[p].ev /\ n = Len(log[t]) /\ log[t] \in Seq(Records)
        /\ log'[t] = Append(log[t], e)
        /\ DOMAIN log[t] = 1..n /\ DOMAIN log'[t] = 1..(n + 1) /\ Len(log'[t]) = n + 1
        /\ \A i \in 1..n : log'[t][i] = log[t][i]
        /\ log'[t][n + 1] = e
  BY <1>2, CommitGrows
<1>4. \A u \in Tasks : u # t => log'[u] = log[u]
  BY <1>2, CommitLoads
<1>5. HasPr(HeadOf(t)) \in BOOLEAN
  BY LoadsHead
<1>6. e.ev.type = "ContinuationRequested" => e.ev.phase = ContinuationPhase(HasPr(HeadOf(t)))
  BY <1>1, <1>2, <1>3, <1>5, TranslateKeepsType DEF Fresh
<1>7. /\ \A i \in 1..n : SubSeq(log'[t], 1, i - 1) = SubSeq(log[t], 1, i - 1)
      /\ SubSeq(log'[t], 1, n) = log[t]
  BY <1>3, PrefixKept
<1>8. ASSUME NEW u \in Tasks, NEW i \in DOMAIN log'[u]
      PROVE  PhaseFits(u, i)'
  <2>1. CASE u # t
    <3>1. log'[u] = log[u] /\ PhaseFits(u, i)
      BY <1>4, <1>8, <2>1 DEF PhaseMatchesPr
    <3> QED BY <3>1 DEF PhaseFits
  <2>2. CASE u = t /\ i \in 1..n
    <3>1. PhaseFits(u, i)
      BY <1>3, <2>2 DEF PhaseMatchesPr
    <3>2. log'[u][i] = log[u][i] /\ SubSeq(log'[u], 1, i - 1) = SubSeq(log[u], 1, i - 1)
      BY <1>3, <1>7, <2>2
    <3> QED BY <3>1, <3>2 DEF PhaseFits
  <2>3. CASE u = t /\ i = n + 1
    <3>1. log'[u][i] = e /\ i - 1 = n /\ SubSeq(log'[u], 1, i - 1) = log[t]
      BY <1>3, <1>7, <2>3
    <3> QED BY <1>6, <3>1 DEF PhaseFits, HeadOf
  <2> QED BY <1>3, <1>8, <2>1, <2>2, <2>3
<1> QED BY <1>8 DEF PhaseMatchesPr

\* The session of a live task follows the event that is stored.
LEMMA CommitKeepsSession ==
  ASSUME StoreInv, HeadStarted, SessionIsLatestPicker, NoneDispatched,
         NEW p \in Procs, Commit(p), Fresh(p)
  PROVE  HeadStarted' /\ SessionIsLatestPicker'
<1>1. proc[p].env \in Journal /\ proc[p].env.task \in Tasks /\ proc[p].ev \in Events
  BY AttemptIs DEF Commit
<1>2. PICK t \in Tasks : t = proc[p].env.task
  BY <1>1
<1>3. PICK e \in Records, n \in Nat :
        /\ e.ev = proc[p].ev /\ n = Len(log[t]) /\ log[t] \in Seq(Records)
        /\ log'[t] = Append(log[t], e)
        /\ DOMAIN log[t] = 1..n /\ DOMAIN log'[t] = 1..(n + 1) /\ Len(log'[t]) = n + 1
        /\ \A i \in 1..n : log'[t][i] = log[t][i]
        /\ log'[t][n + 1] = e
  BY <1>2, CommitGrows
<1>4. /\ \A u \in Tasks : u # t => log'[u] = log[u] /\ HeadOf(u)' = HeadOf(u)
      /\ \A u \in Tasks : LoadAggregate(u)' = HeadOf(u)'
      /\ HeadOf(t)' = Apply(HeadOf(t), e.ev) /\ Accepts(HeadOf(t), e.ev)
      /\ log'[t] # <<>>
  <2>1. /\ \A u \in Tasks : u # t => log'[u] = log[u] /\ HeadOf(u)' = HeadOf(u)
        /\ \A u \in Tasks : LoadAggregate(u)' = HeadOf(u)'
        /\ HeadOf(t)' = Apply(HeadOf(t), proc[p].ev) /\ Accepts(HeadOf(t), proc[p].ev)
        /\ log'[t] # <<>>
    BY <1>2, CommitLoads
  <2>2. e.ev = proc[p].ev
    BY <1>3
  <2> QED BY <2>1, <2>2, Zenon
<1>5. /\ HeadOf(t) \in Aggregates /\ HasPr(HeadOf(t)) \in BOOLEAN
      /\ \A u \in Tasks : LoadAggregate(u) = HeadOf(u)
  BY LoadsHead
<1>6. e.ev.type # "ContinuationDispatched" /\ e.ev \in Events
  BY <1>1, <1>2, <1>3, <1>5, TranslateKeepsType DEF Fresh, NoneDispatched
<1> DEFINE a == HeadOf(t)
           b == Apply(a, e.ev)
<1>7. /\ b.initialized
      /\ ~a.initialized => b.session = a.session
      /\ IsTerminal(a.status) /\ a.initialized => IsTerminal(b.status)
      /\ a.initialized /\ ~IsTerminal(a.status) =>
           b.session =
             IF e.ev.type = "PickerAssigned" THEN e.ev.session
             ELSE IF e.ev.type \in {"PickerSucceeded", "PickerFailed"} /\ a.session = e.ev.session
             THEN NoSession ELSE a.session
  BY <1>4, <1>5, <1>6, ApplySession
<1>8. HeadStarted'
  BY <1>4, <1>7 DEF HeadStarted
<1> DEFINE Running(i, s) == LastHeardRunning(t, i, s)
           RunningNext(i, s) ==
             /\ log'[t][i].ev = [type |-> "PickerAssigned", session |-> s]
             /\ \A j \in (i + 1)..(n + 1) :
                  /\ log'[t][j].ev.type # "PickerAssigned"
                  /\ log'[t][j].ev.type \in {"PickerSucceeded", "PickerFailed"} =>
                       log'[t][j].ev.session # s
<1>9. ASSUME NEW i \in 2..(n + 1), NEW s
      PROVE  LastHeardRunning(t, i, s)' = RunningNext(i, s)
  BY <1>3 DEF LastHeardRunning
<1>10. ASSUME NEW i \in 1..n, NEW s
       PROVE  RunningNext(i, s) <=>
                /\ Running(i, s)
                /\ e.ev.type # "PickerAssigned"
                /\ e.ev.type \in {"PickerSucceeded", "PickerFailed"} => e.ev.session # s
  <2>1. \A j : j \in (i + 1)..(n + 1) <=> j \in (i + 1)..n \/ j = n + 1
    OBVIOUS
  <2>2. \A j \in (i + 1)..n : log'[t][j] = log[t][j]
    BY <1>3
  <2>3. log'[t][i] = log[t][i] /\ log'[t][n + 1] = e /\ Len(log[t]) = n
    BY <1>3
  <2> QED BY <2>1, <2>2, <2>3 DEF LastHeardRunning
<1>11. ASSUME NEW s
       PROVE  RunningNext(n + 1, s) <=> e.ev = [type |-> "PickerAssigned", session |-> s]
  <2>1. (n + 1 + 1)..(n + 1) = {}
    OBVIOUS
  <2> QED BY <1>3, <2>1
<1>12. ASSUME b.initialized, ~IsTerminal(b.status), NEW s \in SessionIds
       PROVE  b.session = s <=> \E i \in 2..(n + 1) : RunningNext(i, s)
  <2> HIDE DEF Running, RunningNext, b
  <2>1. CASE ~a.initialized
    <3>1. n = 0 /\ a = NewAggregate
      <4>1. log[t] = <<>>
        BY <2>1 DEF HeadStarted
      <4> QED BY <1>3, <4>1, ReplayNothing DEF HeadOf
    <3>2. b.session # s
      BY <1>7, <2>1, <3>1, NoSessionAssumption DEF NewAggregate
    <3>3. 2..(n + 1) = {}
      BY <3>1
    <3> QED BY <3>2, <3>3
  <2>2. CASE a.initialized
    <3>1. ~IsTerminal(a.status)
      BY <1>7, <1>12, <2>2
    <3>2. a.session = s <=> \E i \in 2..n : Running(i, s)
      BY <1>3, <1>5, <2>2, <3>1 DEF SessionIsLatestPicker, Running
    <3>3. n >= 1
      <4>1. log[t] # <<>>
        BY <2>2 DEF HeadStarted
      <4> QED BY <1>3, <4>1
    <3>4. /\ n + 1 \in 2..(n + 1)
          /\ \A i : i \in 2..(n + 1) <=> i \in 2..n \/ i = n + 1
          /\ \A i \in 2..n : i \in 1..n
      BY <3>3
    <3>5. CASE e.ev.type = "PickerAssigned"
      <4>1. e.ev = [type |-> "PickerAssigned", session |-> s] <=> e.ev.session = s
        BY <1>6, <3>5 DEF Events, PlainEvents, SessionEvents, PrEvents
      <4>2. \A i \in 2..n : ~RunningNext(i, s)
        BY <1>10, <3>4, <3>5
      <4>3. (\E i \in 2..(n + 1) : RunningNext(i, s)) <=> e.ev.session = s
        BY <1>11, <3>4, <4>1, <4>2
      <4> QED BY <1>7, <2>2, <3>1, <3>5, <4>3
    <3>6. CASE e.ev.type # "PickerAssigned"
      <4>1. ~RunningNext(n + 1, s)
        <5>1. [type |-> "PickerAssigned", session |-> s].type = "PickerAssigned"
          OBVIOUS
        <5>2. e.ev # [type |-> "PickerAssigned", session |-> s]
          BY <3>6, <5>1
        <5>3. RunningNext(n + 1, s) <=> e.ev = [type |-> "PickerAssigned", session |-> s]
          BY <1>11
        <5> QED BY <5>2, <5>3
      <4>2. (\E i \in 2..(n + 1) : RunningNext(i, s)) <=>
              /\ \E i \in 2..n : Running(i, s)
              /\ e.ev.type \in {"PickerSucceeded", "PickerFailed"} => e.ev.session # s
        BY <1>10, <3>4, <3>6, <4>1
      <4> QED BY <1>7, <2>2, <3>1, <3>2, <3>6, <4>2, NoSessionAssumption
    <3> QED BY <3>5, <3>6
  <2> QED BY <2>1, <2>2
<1>13. SessionIsLatestPicker'
  <2> SUFFICES ASSUME NEW u \in Tasks, HeadOf(u)'.initialized, ~IsTerminal(HeadOf(u)'.status),
                      NEW s \in SessionIds
               PROVE  HeadOf(u)'.session = s <=>
                        \E i \in 2..Len(log'[u]) : LastHeardRunning(u, i, s)'
    BY <1>4 DEF SessionIsLatestPicker, IsTerminal
  <2>1. CASE u # t
    <3>1. log'[u] = log[u] /\ HeadOf(u)' = HeadOf(u)
      BY <1>4, <2>1
    <3>2. HeadOf(u).session = s <=> \E i \in 2..Len(log[u]) : LastHeardRunning(u, i, s)
      BY <1>5, <3>1 DEF SessionIsLatestPicker
    <3> QED BY <3>1, <3>2 DEF LastHeardRunning
  <2>2. CASE u = t
    <3>1. b.initialized /\ ~IsTerminal(b.status) /\ HeadOf(u)' = b
      BY <1>4, <2>2
    <3> HIDE DEF b, RunningNext
    <3>2. b.session = s <=> \E i \in 2..(n + 1) : RunningNext(i, s)
      BY <1>12, <3>1
    <3>3. \A i \in 2..(n + 1) : LastHeardRunning(t, i, s)' = RunningNext(i, s)
      BY <1>9
    <3>4. Len(log'[u]) = n + 1
      BY <1>3, <2>2
    <3>5. \A i \in 2..(n + 1) : LastHeardRunning(u, i, s)' = RunningNext(i, s)
      BY <2>2, <3>3
    <3> QED BY <3>1, <3>2, <3>4, <3>5
  <2> QED BY <2>1, <2>2
<1> QED BY <1>8, <1>13

LEMMA CardInductive ==
  ASSUME StoreInv, NoneDispatched, CardInv, OneAtWork, OneAtWork', [StoreNext]_storeVars
  PROVE  CardInv'
<1>1. StoreInv'
  BY StoreInductive
<1>2. ASSUME UNCHANGED log
      PROVE  HeadStarted' /\ CardMatchesJournal'
  <2>1. \A t \in Tasks : LoadAggregate(t)' = LoadAggregate(t)
    BY <1>1, <1>2 DEF StoreInv, LoadIsReplay
  <2>2. HeadStarted'
    BY <1>2 DEF CardInv, HeadStarted, HeadOf
  <2>3. PhaseMatchesPr'
    BY <1>2 DEF CardInv, CardMatchesJournal, PhaseMatchesPr, PhaseFits
  <2>4. SessionIsLatestPicker'
    BY <1>2, <2>1
    DEF CardInv, CardMatchesJournal, SessionIsLatestPicker, LastHeardRunning
  <2> QED BY <2>2, <2>3, <2>4 DEF CardMatchesJournal
<1>3. ASSUME UNCHANGED log,
             \A q \in Procs : proc'[q] # Idle =>
               \/ proc[q] # Idle /\ proc'[q].ev = proc[q].ev /\ proc'[q].env = proc[q].env
               \/ Fresh(q)'
      PROVE  CardInv'
  <2>1. AllFresh'
    BY <1>3 DEF CardInv, AllFresh, Fresh, HeadOf
  <2> QED BY <1>2, <1>3, <2>1 DEF CardInv
<1>4. ASSUME NEW p \in Procs, NEW x, proc' = [proc EXCEPT ![p] = x], UNCHANGED log,
             \/ x = Idle
             \/ proc[p] # Idle /\ x.ev = proc[p].ev /\ x.env = proc[p].env
             \/ x.ev = Translate(x.env, HasPr(HeadOf(x.env.task)))
      PROVE  CardInv'
  <2>1. proc'[p] = x /\ \A q \in Procs : q # p => proc'[q] = proc[q]
    BY <1>4 DEF StoreInv, Shapes
  <2>2. x.ev = Translate(x.env, HasPr(HeadOf(x.env.task))) => Fresh(p)'
    BY <1>4, <2>1 DEF Fresh, HeadOf
  <2> QED BY <1>3, <1>4, <2>1, <2>2
<1>5. ASSUME NEW p \in Procs, NEW env \in Journal, Receive(p, env)
      PROVE  CardInv'
  <2>1. env.task \in Tasks /\ LoadAggregate(env.task) = HeadOf(env.task)
    BY TranslateType, LoadsHead
  <2> DEFINE x == [pc |-> "translated", env |-> env, attempt |-> 1, expected |-> 0,
                   ev |-> Translate(env, HasPr(HeadOf(env.task))), stale |-> FALSE]
  <2>2. proc' = [proc EXCEPT ![p] = x] /\ UNCHANGED log
    BY <1>5, <2>1 DEF Receive
  <2>3. x.ev = Translate(x.env, HasPr(HeadOf(x.env.task)))
    OBVIOUS
  <2> HIDE DEF x
  <2> QED BY <1>4, <2>2, <2>3
<1>6. ASSUME NEW p \in Procs, Retranslate(p)
      PROVE  CardInv'
  <2>1. /\ proc[p] \in Attempts /\ proc[p].env.task \in Tasks
        /\ LoadAggregate(proc[p].env.task) = HeadOf(proc[p].env.task)
    BY <1>6, AttemptIs, LoadsHead DEF Retranslate
  <2> DEFINE ev == Translate(proc[p].env, HasPr(HeadOf(proc[p].env.task)))
             x == [proc[p] EXCEPT !.pc = "ready", !.ev = ev]
  <2>2. proc' = [proc EXCEPT ![p] = x] /\ UNCHANGED log
    BY <1>6, <2>1 DEF Retranslate
  <2> HIDE DEF ev
  <2>3. x.ev = ev /\ x.env = proc[p].env
    BY <2>1 DEF Attempts
  <2> HIDE DEF x
  <2> QED BY <1>4, <2>2, <2>3 DEF ev
<1>7. ASSUME NEW p \in Procs, ReadVersion(p) \/ Begin(p) \/ MeetConflict(p)
      PROVE  CardInv'
  <2>1. proc[p] # Idle
    BY <1>7, IdleIsNoAttempt DEF ReadVersion, Begin, MeetConflict
  <2>2. PICK x : /\ proc' = [proc EXCEPT ![p] = x] /\ UNCHANGED log
                 /\ x.ev = proc[p].ev /\ x.env = proc[p].env
    <3>0. proc[p] \in Attempts
      BY <1>7, AttemptIs DEF ReadVersion, Begin, MeetConflict
    <3>1. CASE ReadVersion(p)
      <4> DEFINE v == LoadAggregate(proc[p].env.task).version
                 x == [proc[p] EXCEPT !.pc = "ready", !.expected = v]
      <4>1. proc' = [proc EXCEPT ![p] = x] /\ UNCHANGED log
        BY <3>1 DEF ReadVersion, StoreInv, Shapes
      <4> HIDE DEF v
      <4>2. x.ev = proc[p].ev /\ x.env = proc[p].env
        BY <3>0 DEF Attempts
      <4> HIDE DEF x
      <4> QED BY <4>1, <4>2
    <3>2. CASE Begin(p)
      <4> DEFINE x == [proc[p] EXCEPT !.pc = "writing"]
      <4>1. proc' = [proc EXCEPT ![p] = x] /\ UNCHANGED log
        BY <3>2 DEF Begin
      <4>2. x.ev = proc[p].ev /\ x.env = proc[p].env
        BY <3>0 DEF Attempts
      <4> HIDE DEF x
      <4> QED BY <4>1, <4>2
    <3>3. CASE MeetConflict(p)
      <4> DEFINE v == Len(log[proc[p].env.task])
                 x == [proc[p] EXCEPT !.pc = "conflict", !.attempt = 2, !.expected = v]
      <4>1. proc' = [proc EXCEPT ![p] = x] /\ UNCHANGED log
        BY <3>3 DEF MeetConflict, StoreInv, Shapes
      <4> HIDE DEF v
      <4>2. x.ev = proc[p].ev /\ x.env = proc[p].env
        BY <3>0 DEF Attempts
      <4> HIDE DEF x
      <4> QED BY <4>1, <4>2
    <3> QED BY <1>7, <3>1, <3>2, <3>3
  <2> QED BY <1>4, <2>1, <2>2
<1>8. ASSUME NEW p \in Procs, GiveUp(p) \/ Rollback(p) \/ Kill(p)
      PROVE  CardInv'
  BY <1>4, <1>8 DEF GiveUp, Rollback, Kill, Done
<1>9. ASSUME NEW p \in Procs, Commit(p)
      PROVE  CardInv'
  <2>1. proc[p] # Idle
    BY <1>9, AttemptIs DEF Commit
  <2>2. \A q \in Procs : proc'[q] = Idle
    BY <1>9, <2>1 DEF Commit, Overtake, Pinned, OneAtWork, Idle
  <2>3. Fresh(p)
    BY <2>1 DEF CardInv, AllFresh
  <2>4. PhaseMatchesPr'
    BY <1>9, <2>3, CommitKeepsPhases DEF CardInv, CardMatchesJournal
  <2>5. HeadStarted' /\ SessionIsLatestPicker'
    BY <1>9, <2>3, CommitKeepsSession DEF CardInv, CardMatchesJournal
  <2> QED BY <2>2, <2>4, <2>5 DEF CardInv, AllFresh, CardMatchesJournal
<1>10. ASSUME NEW expired \in liveKeys, GcKeys(expired)
       PROVE  CardInv'
  <2>1. UNCHANGED log
    BY <1>10 DEF GcKeys
  <2>2. ASSUME NEW q \in Procs, proc'[q] # Idle
        PROVE  proc[q] # Idle /\ proc'[q].ev = proc[q].ev /\ proc'[q].env = proc[q].env
    BY <1>10, <2>2, IdleIsNoAttempt DEF GcKeys, Pinned
  <2> QED BY <1>3, <2>1, <2>2
<1>11. ASSUME UNCHANGED <<log, proc>>
       PROVE  CardInv'
  BY <1>3, <1>11
<1>12. (\E t \in Tasks : OutdateSnapshot(t)) \/ UNCHANGED storeVars => CardInv'
  BY <1>11 DEF OutdateSnapshot, storeVars
<1> QED BY <1>5, <1>6, <1>7, <1>8, <1>9, <1>10, <1>12 DEF StoreNext

\* With one append at a time, the stored stream says what the journal said of
\* the living task: continuations count in the phase the task was in, and its
\* session is the Picker assigned last, however late an end is stored.
THEOREM CardMatchesJournalHolds ==
  NoneDispatched /\ StoreSpec /\ []OneAtWork => []CardMatchesJournal
<1>1. StoreInit => CardInv
  <2> SUFFICES ASSUME StoreInit PROVE CardInv
    OBVIOUS
  <2>1. /\ \A t \in Tasks : log[t] = <<>> /\ snaps[t] = NoSnapshot
        /\ \A p \in Procs : proc[p] = Idle
    BY DEF StoreInit
  <2>2. \A t \in Tasks : HeadOf(t) = NewAggregate /\ LoadAggregate(t) = NewAggregate
    BY <2>1, ReplayNothing DEF HeadOf, LoadAggregate
  <2>3. HeadStarted
    BY <2>1, <2>2 DEF HeadStarted, NewAggregate
  <2>4. PhaseMatchesPr
    BY <2>1 DEF PhaseMatchesPr
  <2>5. SessionIsLatestPicker
    BY <2>2 DEF SessionIsLatestPicker, NewAggregate
  <2> QED BY <2>1, <2>3, <2>4, <2>5 DEF CardInv, AllFresh, CardMatchesJournal
<1>2. /\ NoneDispatched /\ StoreInv /\ CardInv /\ OneAtWork /\ OneAtWork'
      /\ [StoreNext]_storeVars
      => CardInv'
  BY CardInductive
<1>3. CardInv => CardMatchesJournal
  BY DEF CardInv
<1>4. NoneDispatched => NoneDispatched'
  BY DEF NoneDispatched
<1> QED BY <1>1, <1>2, <1>3, <1>4, StoreInvariant, PTL DEF StoreSpec

\* The same of the run of one process among those of two (MCTaskStore).
THEOREM AloneMatchesJournalHolds ==
  NoneDispatched /\ StoreRunSpec => []AloneMatchesJournal
<1>1. StoreRunInit => StoreInit
  BY DEF StoreRunInit
<1>2. [StoreRunNext]_<<storeVars, alone>> => [StoreNext]_storeVars
  BY DEF StoreRunNext
<1>3. StoreRunInit => (alone => OneAtWork)
  BY DEF StoreRunInit, StoreInit, OneAtWork
<1>4. (alone => OneAtWork) /\ [StoreRunNext]_<<storeVars, alone>> => (alone => OneAtWork)'
  <2> SUFFICES ASSUME alone => OneAtWork, [StoreRunNext]_<<storeVars, alone>>, alone'
               PROVE  OneAtWork'
    OBVIOUS
  <2>1. CASE StoreRunNext
    BY <2>1 DEF StoreRunNext, Busy, OneAtWork
  <2>2. CASE UNCHANGED <<storeVars, alone>>
    BY <2>2 DEF storeVars, OneAtWork
  <2> QED BY <2>1, <2>2
<1>5. [StoreRunNext]_<<storeVars, alone>> => (alone' <=> alone)
  BY DEF StoreRunNext
<1>6. (alone => CardMatchesJournal) => AloneMatchesJournal
  BY DEF AloneMatchesJournal
<1> QED BY <1>1, <1>2, <1>3, <1>4, <1>5, <1>6, CardMatchesJournalHolds, PTL
        DEF StoreSpec, StoreRunSpec
=============================================================================
