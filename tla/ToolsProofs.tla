------------------------------ MODULE ToolsProofs ------------------------------
(***************************************************************************)
(* The inductive invariants of the services that bring text in from        *)
(* outside, of what is written to the knowledge graph, of the checks       *)
(* before a PR, the snapshots of the world, the review artifacts and the   *)
(* commits of people to the canonical worktree, each over the variables of *)
(* its own component. DaemonsProofs states the theorems that follow.       *)
(***************************************************************************)
EXTENDS SearchService, ResearchRuns, TempyrReconcilers, PreChecks, WorldFacts,
        ReviewArtifacts, CanonicalGraph, FiniteSetTheorems, WellFoundedInduction, TLAPS

-----------------------------------------------------------------------------
(***************************************************************************)
(* Numbers.                                                                *)
(***************************************************************************)
LEMMA LeastNumber ==
  ASSUME NEW S, S \subseteq Nat, S # {}
  PROVE  \E n \in S : \A m \in S : n <= m
<1> DEFINE R == OpToRel(<, Nat)
<1>1. IsWellFoundedOn(R, Nat)
  BY NatLessThanWellFounded
<1>2. \A m, n \in Nat : m < n => <<m, n>> \in R
  BY DEF OpToRel
<1> HIDE DEF R
<1>3. PICK n \in S : \A m \in S : <<m, n>> \notin R
  BY <1>1, WFMin
<1>4. \A m \in S : n <= m
  <2> TAKE m \in S
  <2>1. m \in Nat /\ n \in Nat
    OBVIOUS
  <2>2. ~(m < n)
    BY <1>2, <1>3, <2>1
  <2> QED BY <2>1, <2>2
<1> QED BY <1>4

LEMMA SetInduction ==
  ASSUME NEW S, 0 \in S, \A n \in Nat : n \in S => n + 1 \in S
  PROVE  Nat \subseteq S
<1> SUFFICES ASSUME Nat \ S # {} PROVE FALSE
  OBVIOUS
<1>1. PICK n \in Nat \ S : \A m \in Nat \ S : n <= m
  BY LeastNumber
<1> QED BY <1>1

-----------------------------------------------------------------------------
(***************************************************************************)
(* The crawl: breadth first, so that what it has not taken is farther.     *)
(***************************************************************************)
\* What a step makes of a value, step after step.
Iterates(f, V, h, v, n) ==
  f \in [0..n -> V] /\ f[0] = v /\ \A i \in 1..n : f[i] = h[<<f[i - 1], i>>]

LEMMA IteratesSomehow ==
  ASSUME NEW V, NEW h \in [V \X Nat -> V], NEW v \in V
  PROVE  \A n \in Nat : \E f : Iterates(f, V, h, v, n)
<1> DEFINE S == {n \in Nat : \E f : Iterates(f, V, h, v, n)}
<1>1. 0 \in S
  <2> DEFINE g == [i \in 0..0 |-> v]
  <2>1. Iterates(g, V, h, v, 0)
    BY DEF Iterates
  <2> QED
    BY <2>1
<1>2. ASSUME NEW n \in Nat, n \in S PROVE n + 1 \in S
  <2>1. PICK f : Iterates(f, V, h, v, n)
    BY <1>2
  <2>2. f \in [0..n -> V] /\ f[0] = v /\ \A i \in 1..n : f[i] = h[<<f[i - 1], i>>]
    BY <2>1 DEF Iterates
  <2>3. PICK w : w = h[<<f[n], n + 1>>]
    OBVIOUS
  <2>4. w \in V
    <3>1. f[n] \in V /\ n + 1 \in Nat
      BY <2>2
    <3> QED
      BY <2>3, <3>1
  <2> DEFINE g == [i \in 0..(n + 1) |-> IF i = n + 1 THEN w ELSE f[i]]
  <2>5. g \in [0..(n + 1) -> V] /\ g[0] = v
    <3>1. \A i \in 0..(n + 1) : i # n + 1 => i \in 0..n
      OBVIOUS
    <3>2. 0 \in 0..(n + 1) /\ 0 # n + 1
      OBVIOUS
    <3> QED
      BY <2>2, <2>4, <3>1, <3>2
  <2>6. ASSUME NEW i \in 1..(n + 1) PROVE g[i] = h[<<g[i - 1], i>>]
    <3>1. i \in 0..(n + 1) /\ i - 1 \in 0..(n + 1) /\ i - 1 # n + 1 /\ g[i - 1] = f[i - 1]
      OBVIOUS
    <3>2. CASE i = n + 1
      BY <2>3, <3>1, <3>2
    <3>3. CASE i # n + 1
      <4>1. i \in 1..n /\ g[i] = f[i]
        BY <3>1, <3>3
      <4> QED
        BY <2>2, <3>1, <4>1
    <3> QED
      BY <3>2, <3>3
  <2> HIDE DEF g
  <2>7. Iterates(g, V, h, v, n + 1)
    BY <2>5, <2>6 DEF Iterates
  <2> QED
    BY <2>7
<1> HIDE DEF S
<1>3. Nat \subseteq S
  BY <1>1, <1>2, SetInduction
<1> QED
  BY <1>3 DEF S

LinksOk == links \in [Pages -> Seq(Pages)] /\ \A p \in Pages : IsInjective(links[p])

\* The pages one link away from some.
Beyond(P) == P \union UNION {Range(links[p]) : p \in P}

ReachFcn(f, n) ==
  f = [i \in 0..n |-> IF i = 0 THEN {Root}
                      ELSE f[i - 1] \union UNION {Range(links[p]) : p \in f[i - 1]}]

LEMMA LinksArePages == LinksOk => \A p \in Pages : Range(links[p]) \subseteq Pages
<1> SUFFICES ASSUME LinksOk, NEW p \in Pages, NEW i \in DOMAIN links[p] PROVE links[p][i] \in Pages
  BY DEF Range
<1>1. links[p] \in Seq(Pages)
  BY DEF LinksOk
<1> QED
  BY <1>1

LEMMA ReachSomehow == ASSUME LinksOk PROVE \A n \in Nat : \E f : ReachFcn(f, n)
<1>1. PICK V : V = SUBSET Pages
  OBVIOUS
<1>2. PICK h : h = [x \in V \X Nat |-> Beyond(x[1])]
  OBVIOUS
<1>3. \A P \in V : Beyond(P) \in V
  BY <1>1, LinksArePages DEF Beyond
<1>4. h \in [V \X Nat -> V] /\ \A P \in V, i \in Nat : h[<<P, i>>] = Beyond(P)
  BY <1>2, <1>3
<1>5. {Root} \in V
  BY <1>1, CrawlAssumption
<1> SUFFICES ASSUME NEW n \in Nat PROVE \E f : ReachFcn(f, n)
  OBVIOUS
<1>6. PICK f : Iterates(f, V, h, {Root}, n)
  BY <1>4, <1>5, IteratesSomehow
<1>7. ASSUME NEW i \in 0..n, i # 0
      PROVE  f[i] = f[i - 1] \union UNION {Range(links[p]) : p \in f[i - 1]}
  <2>1. i \in 1..n /\ i - 1 \in 0..n /\ i \in Nat
    BY <1>7
  <2>2. f[i - 1] \in V
    BY <1>6, <2>1 DEF Iterates
  <2>3. f[i] = h[<<f[i - 1], i>>]
    BY <1>6, <2>1 DEF Iterates
  <2> QED
    BY <1>4, <2>1, <2>2, <2>3 DEF Beyond
<1>8. f = [i \in 0..n |-> f[i]] /\ f[0] = {Root}
  BY <1>6 DEF Iterates
<1>9. ReachFcn(f, n)
  BY <1>7, <1>8 DEF ReachFcn
<1> QED
  BY <1>9

LEMMA ReachUnique ==
  ASSUME NEW n \in Nat, NEW m \in Nat, NEW f, NEW g, ReachFcn(f, n), ReachFcn(g, m)
  PROVE  \A i \in Nat : i <= n /\ i <= m => f[i] = g[i]
<1> DEFINE S == {i \in Nat : i <= n /\ i <= m => f[i] = g[i]}
<1>1. 0 \in S
  BY DEF ReachFcn
<1>2. ASSUME NEW i \in Nat, i \in S PROVE i + 1 \in S
  <2> SUFFICES ASSUME i + 1 <= n, i + 1 <= m PROVE f[i + 1] = g[i + 1]
    OBVIOUS
  <2>1. i <= n /\ i <= m /\ i + 1 \in 0..n /\ i + 1 \in 0..m /\ i + 1 # 0 /\ (i + 1) - 1 = i
    OBVIOUS
  <2>2. f[i] = g[i]
    BY <1>2, <2>1
  <2>3. f[i + 1] = f[i] \union UNION {Range(links[p]) : p \in f[i]}
    BY <2>1 DEF ReachFcn
  <2>4. g[i + 1] = g[i] \union UNION {Range(links[p]) : p \in g[i]}
    BY <2>1 DEF ReachFcn
  <2> QED
    BY <2>2, <2>3, <2>4
<1> HIDE DEF S
<1>3. Nat \subseteq S
  BY <1>1, <1>2, SetInduction
<1> QED
  BY <1>3 DEF S

LEMMA WithinSteps ==
  ASSUME LinksOk
  PROVE  /\ Within(0) = {Root}
         /\ \A n \in Nat : Within(n + 1) = Beyond(Within(n))
         /\ \A n \in Nat : Within(n) \subseteq Within(n + 1)
<1>1. ASSUME NEW n \in Nat PROVE \E f : ReachFcn(f, n) /\ Within(n) = f[n]
  <2> DEFINE f == CHOOSE f : ReachFcn(f, n)
  <2>1. ReachFcn(f, n)
    BY ReachSomehow
  <2>2. Within(n) = f[n]
    BY Zenon DEF Within, ReachFcn
  <2> QED
    BY <2>1, <2>2
<1>2. Within(0) = {Root}
  <2>1. PICK f : ReachFcn(f, 0) /\ Within(0) = f[0]
    BY <1>1
  <2>2. f[0] = {Root}
    BY <2>1 DEF ReachFcn
  <2> QED
    BY <2>1, <2>2
<1>3. ASSUME NEW n \in Nat PROVE Within(n + 1) = Beyond(Within(n))
  <2>1. PICK f : ReachFcn(f, n) /\ Within(n) = f[n]
    BY <1>1
  <2>2. n + 1 \in Nat /\ n + 1 \in 0..(n + 1) /\ n + 1 # 0 /\ (n + 1) - 1 = n /\ n <= n + 1 /\ n <= n
    OBVIOUS
  <2>3. PICK g : ReachFcn(g, n + 1) /\ Within(n + 1) = g[n + 1]
    BY <1>1, <2>2
  <2>4. f[n] = g[n]
    BY <2>1, <2>2, <2>3, ReachUnique
  <2>5. g[n + 1] = g[n] \union UNION {Range(links[p]) : p \in g[n]}
    BY <2>2, <2>3 DEF ReachFcn
  <2> QED
    BY <2>1, <2>3, <2>4, <2>5 DEF Beyond
<1> QED
  BY <1>2, <1>3 DEF Beyond

LEMMA WithinGrows ==
  ASSUME LinksOk, NEW n \in Nat
  PROVE  \A m \in Nat : n <= m => Within(n) \subseteq Within(m)
<1> DEFINE S == {k \in Nat : Within(n) \subseteq Within(n + k)}
<1>1. 0 \in S
  <2>1. n + 0 = n
    OBVIOUS
  <2> QED
    BY <2>1
<1>2. ASSUME NEW k \in Nat, k \in S PROVE k + 1 \in S
  <2>1. Within(n) \subseteq Within(n + k)
    BY <1>2
  <2>2. n + k \in Nat /\ (n + k) + 1 = n + (k + 1)
    OBVIOUS
  <2>3. Within(n + k) \subseteq Within((n + k) + 1)
    BY <2>2, WithinSteps
  <2>4. Within(n) \subseteq Within(n + (k + 1))
    BY <2>1, <2>2, <2>3
  <2> QED
    BY <2>4
<1> HIDE DEF S
<1>3. Nat \subseteq S
  BY <1>1, <1>2, SetInduction
<1>4. \A k \in Nat : Within(n) \subseteq Within(n + k)
  BY <1>3 DEF S
<1> SUFFICES ASSUME NEW m \in Nat, n <= m PROVE Within(n) \subseteq Within(m)
  OBVIOUS
<1>5. PICK k \in Nat : k = m - n
  OBVIOUS
<1>6. n + k = m
  BY <1>5
<1> QED
  BY <1>4, <1>6

\* What the links of a page are sifted to, link after link.
Sifted(f, l, S) ==
  f = [i \in 0..Len(l) |-> IF i = 0 THEN <<>>
                           ELSE IF l[i] \in S THEN f[i - 1] ELSE Append(f[i - 1], l[i])]

LEMMA SiftedSomehow == ASSUME NEW l \in Seq(Pages), NEW S PROVE \E f : Sifted(f, l, S)
<1>1. PICK V : V = Seq(Pages)
  OBVIOUS
<1>2. PICK h : h = [x \in V \X Nat |-> IF x[2] \in DOMAIN l /\ l[x[2]] \notin S
                                      THEN Append(x[1], l[x[2]]) ELSE x[1]]
  OBVIOUS
<1>3. \A x \in V \X Nat : h[x] \in V
  <2> SUFFICES ASSUME NEW x \in V \X Nat PROVE h[x] \in V
    OBVIOUS
  <2>1. PICK s : s = x[1]
    OBVIOUS
  <2>2. PICK i : i = x[2]
    OBVIOUS
  <2>3. s \in Seq(Pages) /\ h[x] = IF i \in DOMAIN l /\ l[i] \notin S THEN Append(s, l[i]) ELSE s
    BY <1>1, <1>2, <2>1, <2>2
  <2>4. i \in DOMAIN l => l[i] \in Pages
    OBVIOUS
  <2>5. i \in DOMAIN l => Append(s, l[i]) \in Seq(Pages)
    BY <2>3, <2>4
  <2> QED
    BY <1>1, <2>3, <2>5
<1>4. h \in [V \X Nat -> V] /\ <<>> \in V
  BY <1>1, <1>2, <1>3
<1>5. Len(l) \in Nat /\ DOMAIN l = 1..Len(l)
  OBVIOUS
<1>6. PICK f : Iterates(f, V, h, <<>>, Len(l))
  BY <1>4, <1>5, IteratesSomehow
<1>7. ASSUME NEW i \in 0..Len(l), i # 0
      PROVE  f[i] = IF l[i] \in S THEN f[i - 1] ELSE Append(f[i - 1], l[i])
  <2>1. i \in 1..Len(l) /\ i - 1 \in 0..Len(l) /\ i \in Nat /\ i \in DOMAIN l
    BY <1>5, <1>7
  <2>2. f[i - 1] \in V /\ f[i] = h[<<f[i - 1], i>>]
    BY <1>6, <2>1 DEF Iterates
  <2> QED
    BY <1>2, <2>1, <2>2
<1>8. f = [i \in 0..Len(l) |-> f[i]] /\ f[0] = <<>>
  BY <1>6 DEF Iterates
<1>9. Sifted(f, l, S)
  BY <1>7, <1>8 DEF Sifted
<1> QED
  BY <1>9

\* What is kept of the first links holds the ones that are not in the set.
LEMMA SiftedFacts ==
  ASSUME NEW l \in Seq(Pages), IsInjective(l), NEW S, NEW f, Sifted(f, l, S)
  PROVE  /\ f[Len(l)] \in Seq(Pages)
         /\ \A p : (\E i \in DOMAIN f[Len(l)] : f[Len(l)][i] = p) <=> p \in Range(l) /\ p \notin S
         /\ \A i, j \in DOMAIN f[Len(l)] : f[Len(l)][i] = f[Len(l)][j] => i = j
<1> DEFINE OneTo(n) == {l[j] : j \in 1..n} \ S
           Good(s, n) ==
             /\ s \in Seq(Pages)
             /\ \A p : (\E i \in DOMAIN s : s[i] = p) <=> p \in OneTo(n)
             /\ \A i, j \in DOMAIN s : s[i] = s[j] => i = j
           G == {n \in Nat : n <= Len(l) => Good(f[n], n)}
<1>1. 0 \in G
  <2>1. f[0] = <<>>
    BY DEF Sifted
  <2>2. OneTo(0) = {}
    OBVIOUS
  <2>3. Good(<<>>, 0)
    BY <2>2
  <2> QED
    BY <2>1, <2>3
<1>2. ASSUME NEW n \in Nat, n \in G PROVE n + 1 \in G
  <2> SUFFICES ASSUME n + 1 <= Len(l) PROVE Good(f[n + 1], n + 1)
    OBVIOUS
  <2>1. n + 1 \in 0..Len(l) /\ n + 1 # 0 /\ (n + 1) - 1 = n /\ n <= Len(l) /\ n + 1 \in DOMAIN l
    OBVIOUS
  <2>2. PICK s : s = f[n]
    OBVIOUS
  <2>3. Good(s, n)
    BY <1>2, <2>1, <2>2
  <2>4. PICK x : x = l[n + 1]
    OBVIOUS
  <2>5. f[n + 1] = IF x \in S THEN s ELSE Append(s, x)
    BY <2>1, <2>2, <2>4 DEF Sifted
  <2>6. OneTo(n + 1) = OneTo(n) \union ({x} \ S)
    BY <2>4
  <2>7. x \notin {l[j] : j \in 1..n}
    <3> SUFFICES ASSUME NEW j \in 1..n, l[j] = x PROVE FALSE
      OBVIOUS
    <3>1. j \in DOMAIN l /\ j # n + 1
      BY <2>1
    <3> QED
      BY <2>1, <2>4, <3>1 DEF IsInjective
  <2>8. CASE x \in S
    BY <2>3, <2>5, <2>6, <2>8
  <2>9. CASE x \notin S
    <3>1. x \in Pages
      BY <2>1, <2>4
    <3>2. PICK t : t = Append(s, x)
      OBVIOUS
    <3>3. s \in Seq(Pages) /\ Len(s) \in Nat
      BY <2>3
    <3>4. /\ t \in Seq(Pages) /\ DOMAIN t = 1..(Len(s) + 1) /\ DOMAIN s = 1..Len(s)
          /\ t[Len(s) + 1] = x /\ \A i \in 1..Len(s) : t[i] = s[i]
      BY <3>1, <3>2, <3>3
    <3>5. \A i \in DOMAIN s : s[i] # x
      BY <2>3, <2>7
    <3>6. \A i \in DOMAIN t : i # Len(s) + 1 => i \in DOMAIN s /\ t[i] = s[i]
      BY <3>3, <3>4
    <3>7. \A i, j \in DOMAIN t : t[i] = t[j] => i = j
      BY <2>3, <3>4, <3>5, <3>6
    <3>8. \A i \in DOMAIN s : i \in DOMAIN t /\ t[i] = s[i]
      BY <3>3, <3>4
    <3>9. Len(s) + 1 \in DOMAIN t
      BY <3>3, <3>4
    <3>10. ASSUME NEW p PROVE (\E i \in DOMAIN t : t[i] = p) <=> p \in OneTo(n) \/ p = x
      <4>1. (\E i \in DOMAIN s : s[i] = p) <=> p \in OneTo(n)
        BY <2>3
      <4> QED
        BY <3>4, <3>6, <3>8, <3>9, <4>1
    <3>11. f[n + 1] = t
      BY <2>5, <2>9, <3>2
    <3>12. \A p : p \in OneTo(n + 1) <=> p \in OneTo(n) \/ p = x
      BY <2>6, <2>9
    <3> QED
      BY <3>4, <3>7, <3>10, <3>11, <3>12
  <2> QED
    BY <2>8, <2>9
<1> HIDE DEF G
<1>3. Nat \subseteq G
  BY <1>1, <1>2, SetInduction
<1>4. Len(l) \in Nat
  OBVIOUS
<1>5. Good(f[Len(l)], Len(l))
  <2>1. Len(l) \in G
    BY <1>3, <1>4
  <2>2. Len(l) <= Len(l)
    BY <1>4
  <2> HIDE DEF Good
  <2> QED
    BY <2>1, <2>2 DEF G
<1>6. OneTo(Len(l)) = Range(l) \ S
  <2>1. DOMAIN l = 1..Len(l)
    OBVIOUS
  <2> QED
    BY <2>1 DEF Range
<1> QED
  BY <1>5, <1>6

\* The links of a page that are not seen yet, each once.
Unfound(new, page) ==
  /\ new \in Seq(Pages)
  /\ \A p : (\E i \in DOMAIN new : new[i] = p) <=> p \in Range(links[page]) /\ p \notin crawl.seen
  /\ \A i, j \in DOMAIN new : new[i] = new[j] => i = j

LEMMA NewLinksFacts ==
  ASSUME LinksOk, NEW page \in Pages PROVE Unfound(NewLinks(page), page)
<1>1. links[page] \in Seq(Pages) /\ IsInjective(links[page])
  BY DEF LinksOk
<1>2. \E f : Sifted(f, links[page], crawl.seen)
  BY <1>1, SiftedSomehow
<1>3. PICK f : Sifted(f, links[page], crawl.seen) /\ NewLinks(page) = f[Len(links[page])]
  BY <1>2 DEF NewLinks, Sifted
<1>4. PICK new : new = f[Len(links[page])]
  OBVIOUS
<1>5. Unfound(new, page)
  BY <1>1, <1>3, <1>4, SiftedFacts DEF Unfound
<1> QED
  BY <1>3, <1>4, <1>5

(***************************************************************************)
(* The crawl.                                                              *)
(***************************************************************************)
CrawlItems == [page : Pages, depth : Nat]
PageCrawls ==
  [at : {"fetching", "answered", "failed"}, depth : Nat, limit : Nat,
   queue : Seq(CrawlItems), seen : SUBSET Pages, pages : Seq(CrawlItems)]
ExtractCalls == [at : {"extracting", "answered", "failed"}, urls : Seq(Pages), pages : Seq(Pages)]
JobCalls ==
  [at : {"job", "collecting", "answered", "failed"}, limit : Nat,
   status : {"queued", "completed", "failed"}, left : Int, got : Nat]

\* The items of a sequence, and that no page is in it twice.
OncePages(s) == \A i, j \in DOMAIN s : s[i].page = s[j].page => i = j
ItemFor(p, d) ==
  \/ \E i \in DOMAIN crawl.pages : crawl.pages[i].page = p /\ crawl.pages[i].depth <= d
  \/ \E i \in DOMAIN crawl.queue : crawl.queue[i].page = p /\ crawl.queue[i].depth <= d

\* The queue is in the order of depth and holds two depths at most, none less
\* than that of what is taken.
NearestFirst ==
  /\ \A i, j \in DOMAIN crawl.queue :
       /\ i <= j => crawl.queue[i].depth <= crawl.queue[j].depth
       /\ crawl.queue[j].depth <= crawl.queue[i].depth + 1
  /\ \A i \in DOMAIN crawl.pages, j \in DOMAIN crawl.queue :
       crawl.pages[i].depth <= crawl.queue[j].depth

\* What is seen is what is taken or queued, each page once.
SeenInv ==
  /\ OncePages(crawl.pages) /\ OncePages(crawl.queue)
  /\ \A i \in DOMAIN crawl.pages, j \in DOMAIN crawl.queue :
       crawl.pages[i].page # crawl.queue[j].page
  /\ \A p : p \in crawl.seen <=> \/ \E i \in DOMAIN crawl.pages : crawl.pages[i].page = p
                                 \/ \E i \in DOMAIN crawl.queue : crawl.queue[i].page = p

\* An item is as far from the root as it may be, and none that a taken page
\* links to is farther than one link more.
DepthInv ==
  /\ ItemFor(Root, 0)
  /\ \A i \in DOMAIN crawl.pages : crawl.pages[i].depth <= crawl.depth
  /\ \A i \in DOMAIN crawl.queue : crawl.queue[i].depth <= crawl.depth
  /\ \A d \in Nat :
       /\ \A i \in DOMAIN crawl.pages : crawl.pages[i].depth = d =>
            /\ crawl.pages[i].page \in Within(d)
            /\ d < crawl.depth => \A p \in Range(links[crawl.pages[i].page]) : ItemFor(p, d + 1)
            /\ d > 0 => \A p \in Within(d - 1) :
                          \E j \in DOMAIN crawl.pages : crawl.pages[j].page = p
       /\ \A i \in DOMAIN crawl.queue : crawl.queue[i].depth = d => crawl.queue[i].page \in Within(d)

CrawlInv ==
  /\ LinksOk
  /\ \/ crawl \in [at : {"idle", "failed"}]
     \/ /\ crawl \in PageCrawls /\ Len(crawl.pages) <= crawl.limit
        /\ NearestFirst /\ SeenInv /\ DepthInv
        /\ crawl.at = "answered" /\ Len(crawl.pages) < crawl.limit => crawl.queue = <<>>
     \/ crawl \in ExtractCalls
     \/ crawl \in JobCalls /\ crawl.got <= crawl.limit

LEMMA ItemsOf ==
  ASSUME NEW s \in Seq(CrawlItems)
  PROVE  \A i \in DOMAIN s : s[i].page \in Pages /\ s[i].depth \in Nat
<1> SUFFICES ASSUME NEW i \in DOMAIN s PROVE s[i].page \in Pages /\ s[i].depth \in Nat
  OBVIOUS
<1>1. s[i] \in CrawlItems
  OBVIOUS
<1> QED
  BY <1>1 DEF CrawlItems

LEMMA CrawlStarts == CrawlInit => CrawlInv
BY CrawlAssumption DEF CrawlInit, CrawlInv, LinksOk

\* As long as nothing nearer is queued, all that is within k links of the root is
\* taken or queued at that depth.
LEMMA NearerIsThere ==
  ASSUME LinksOk, crawl \in PageCrawls, DepthInv
  PROVE  \A k \in Nat :
           (k <= crawl.depth /\ \A j \in DOMAIN crawl.queue : k <= crawl.queue[j].depth) =>
             \A p \in Within(k) : ItemFor(p, k)
<1> DEFINE S == {k \in Nat :
                  (k <= crawl.depth /\ \A j \in DOMAIN crawl.queue : k <= crawl.queue[j].depth) =>
                    \A p \in Within(k) : ItemFor(p, k)}
<1>0. /\ crawl.depth \in Nat
      /\ crawl.pages \in Seq(CrawlItems) /\ crawl.queue \in Seq(CrawlItems)
  BY DEF PageCrawls
<1>1. \A i \in DOMAIN crawl.pages : crawl.pages[i].page \in Pages /\ crawl.pages[i].depth \in Nat
  BY <1>0, ItemsOf
<1>2. \A i \in DOMAIN crawl.queue : crawl.queue[i].page \in Pages /\ crawl.queue[i].depth \in Nat
  BY <1>0, ItemsOf
<1>3. 0 \in S
  <2>1. \A p \in Within(0) : ItemFor(p, 0)
    BY WithinSteps DEF DepthInv
  <2> QED
    BY <2>1
<1>4. ASSUME NEW k \in Nat, k \in S PROVE k + 1 \in S
  <2> SUFFICES ASSUME k + 1 <= crawl.depth,
                      \A j \in DOMAIN crawl.queue : k + 1 <= crawl.queue[j].depth,
                      NEW p \in Within(k + 1)
               PROVE  ItemFor(p, k + 1)
    OBVIOUS
  <2>1. k <= crawl.depth /\ k < crawl.depth
    BY <1>0
  <2>2. \A j \in DOMAIN crawl.queue : k < crawl.queue[j].depth /\ k <= crawl.queue[j].depth
    BY <1>2
  <2>3. \A q \in Within(k) : ItemFor(q, k)
    BY <1>4, <2>1, <2>2
  <2>4. \A q \in Within(k) :
          \E i \in DOMAIN crawl.pages : crawl.pages[i].page = q /\ crawl.pages[i].depth <= k
    <3> SUFFICES ASSUME NEW q \in Within(k)
                 PROVE  \E i \in DOMAIN crawl.pages :
                          crawl.pages[i].page = q /\ crawl.pages[i].depth <= k
      OBVIOUS
    <3>1. \A j \in DOMAIN crawl.queue : ~(crawl.queue[j].depth <= k)
      BY <1>2, <2>2
    <3> QED
      BY <2>3, <3>1 DEF ItemFor
  <2>5. Within(k + 1) = Beyond(Within(k))
    BY WithinSteps
  <2>6. CASE p \in Within(k)
    <3>1. PICK i \in DOMAIN crawl.pages : crawl.pages[i].page = p /\ crawl.pages[i].depth <= k
      BY <2>4, <2>6
    <3>2. crawl.pages[i].depth <= k + 1
      BY <1>1, <3>1
    <3> QED
      BY <3>1, <3>2 DEF ItemFor
  <2>7. CASE p \notin Within(k)
    <3>1. PICK q \in Within(k) : p \in Range(links[q])
      BY <2>5, <2>7 DEF Beyond
    <3>2. PICK i \in DOMAIN crawl.pages : crawl.pages[i].page = q /\ crawl.pages[i].depth <= k
      BY <2>4
    <3>3. PICK d : d = crawl.pages[i].depth
      OBVIOUS
    <3>4. d \in Nat /\ d < crawl.depth /\ d + 1 <= k + 1
      BY <1>0, <1>1, <2>1, <3>2, <3>3
    <3>5. ItemFor(p, d + 1)
      BY <3>1, <3>2, <3>3, <3>4 DEF DepthInv
    <3>6. CASE \E j \in DOMAIN crawl.pages : crawl.pages[j].page = p /\ crawl.pages[j].depth <= d + 1
      <4>1. PICK j \in DOMAIN crawl.pages : crawl.pages[j].page = p /\ crawl.pages[j].depth <= d + 1
        BY <3>6
      <4>2. crawl.pages[j].depth <= k + 1
        BY <1>1, <3>4, <4>1
      <4> QED
        BY <4>1, <4>2 DEF ItemFor
    <3>7. CASE \E j \in DOMAIN crawl.queue : crawl.queue[j].page = p /\ crawl.queue[j].depth <= d + 1
      <4>1. PICK j \in DOMAIN crawl.queue : crawl.queue[j].page = p /\ crawl.queue[j].depth <= d + 1
        BY <3>7
      <4>2. crawl.queue[j].depth <= k + 1
        BY <1>2, <3>4, <4>1
      <4> QED
        BY <4>1, <4>2 DEF ItemFor
    <3> QED
      BY <3>5, <3>6, <3>7 DEF ItemFor
  <2> QED
    BY <2>6, <2>7
<1> HIDE DEF S
<1>5. Nat \subseteq S
  BY <1>3, <1>4, SetInduction
<1> QED
  BY <1>5 DEF S

\* Then what is nearer than all that is queued is taken.
LEMMA NearerIsTaken ==
  ASSUME LinksOk, crawl \in PageCrawls, DepthInv, NEW k \in Nat, k <= crawl.depth,
         \A j \in DOMAIN crawl.queue : k < crawl.queue[j].depth
  PROVE  \A p \in Within(k) : \E i \in DOMAIN crawl.pages : crawl.pages[i].page = p
<1>0. crawl.queue \in Seq(CrawlItems)
  BY DEF PageCrawls
<1>1. \A j \in DOMAIN crawl.queue : crawl.queue[j].depth \in Nat
  BY <1>0, ItemsOf
<1>2. \A j \in DOMAIN crawl.queue : k <= crawl.queue[j].depth /\ ~(crawl.queue[j].depth <= k)
  BY <1>1
<1>3. \A p \in Within(k) : ItemFor(p, k)
  BY <1>2, NearerIsThere
<1> QED
  BY <1>2, <1>3 DEF ItemFor

LEMMA CrawlInvImplies == CrawlInv => CrawlTypeOK /\ CrawlSafety
<1> SUFFICES ASSUME CrawlInv PROVE CrawlTypeOK /\ CrawlSafety
  OBVIOUS
<1>1. CASE crawl \in [at : {"idle", "failed"}]
  BY <1>1 DEF CrawlTypeOK, CrawlSafety, CrawlIsNearest
<1>2. CASE crawl \in ExtractCalls
  BY <1>2 DEF ExtractCalls, CrawlTypeOK, CrawlSafety, CrawlIsNearest
<1>3. CASE crawl \in JobCalls /\ crawl.got <= crawl.limit
  BY <1>3 DEF JobCalls, CrawlTypeOK, CrawlSafety, CrawlIsNearest
<1>4. CASE /\ crawl \in PageCrawls /\ Len(crawl.pages) <= crawl.limit
           /\ NearestFirst /\ SeenInv /\ DepthInv
           /\ crawl.at = "answered" /\ Len(crawl.pages) < crawl.limit => crawl.queue = <<>>
  <2>1. CrawlTypeOK /\ "got" \notin DOMAIN crawl
    BY <1>4 DEF PageCrawls, CrawlTypeOK
  <2>2. /\ crawl.pages \in Seq(CrawlItems) /\ crawl.queue \in Seq(CrawlItems)
        /\ crawl.depth \in Nat /\ crawl.limit \in Nat
    BY <1>4 DEF PageCrawls
  <2> DEFINE taken == {crawl.pages[i].page : i \in DOMAIN crawl.pages}
  <2>3. IsFiniteSet(taken) /\ Cardinality(taken) = Len(crawl.pages)
    <3> DEFINE f == [i \in 1..Len(crawl.pages) |-> crawl.pages[i].page]
    <3>1. DOMAIN crawl.pages = 1..Len(crawl.pages) /\ Len(crawl.pages) \in Nat
      BY <2>2
    <3>2. f \in Bijection(1..Len(crawl.pages), taken)
      BY <1>4, <3>1
      DEF Bijection, Injection, Surjection, SeenInv, OncePages, IsInjective
    <3>3. IsFiniteSet(1..Len(crawl.pages)) /\ Cardinality(1..Len(crawl.pages)) = Len(crawl.pages)
      BY <3>1, FS_Interval
    <3> HIDE DEF f, taken
    <3>4. ExistsBijection(1..Len(crawl.pages), taken)
      BY <3>2 DEF ExistsBijection
    <3> QED
      BY <3>3, <3>4, FS_Bijection
  <2>4. \A i \in DOMAIN crawl.pages : crawl.pages[i].page \in Pages /\ crawl.pages[i].depth \in Nat
    BY <2>2, ItemsOf
  <2>5. ASSUME NEW i \in DOMAIN crawl.pages, crawl.pages[i].depth > 0
        PROVE  Within(crawl.pages[i].depth - 1) \subseteq taken
    BY <1>4, <2>4, <2>5 DEF DepthInv
  <2>6. ASSUME crawl.at = "answered", Len(crawl.pages) < crawl.limit
        PROVE  taken = Within(crawl.depth)
    <3>1. crawl.queue = <<>>
      BY <1>4, <2>6
    <3>2. \A j \in DOMAIN crawl.queue : crawl.depth < crawl.queue[j].depth
      BY <3>1
    <3>3. LinksOk /\ DepthInv /\ crawl \in PageCrawls /\ crawl.depth <= crawl.depth
      BY <1>4, <2>2 DEF CrawlInv
    <3>4. \A p \in Within(crawl.depth) : \E i \in DOMAIN crawl.pages : crawl.pages[i].page = p
      BY <2>2, <3>2, <3>3, NearerIsTaken
    <3>5. ASSUME NEW i \in DOMAIN crawl.pages PROVE crawl.pages[i].page \in Within(crawl.depth)
      <4>1. /\ crawl.pages[i].depth \in Nat /\ crawl.pages[i].depth <= crawl.depth
            /\ crawl.pages[i].page \in Within(crawl.pages[i].depth)
        BY <2>4, <3>3 DEF DepthInv
      <4>2. Within(crawl.pages[i].depth) \subseteq Within(crawl.depth)
        BY <2>2, <3>3, <4>1, WithinGrows
      <4> QED
        BY <4>1, <4>2
    <3> QED
      BY <3>4, <3>5
  <2>7. \A i \in DOMAIN crawl.pages :
          crawl.pages[i].depth <= crawl.depth /\ crawl.pages[i].page \in Within(crawl.pages[i].depth)
    BY <1>4, <2>4 DEF DepthInv
  <2>8. CrawlIsNearest
    <3> HIDE DEF taken
    <3> SUFFICES ASSUME "queue" \in DOMAIN crawl
                 PROVE  /\ Cardinality(taken) = Len(crawl.pages) /\ Len(crawl.pages) <= crawl.limit
                        /\ \A i \in DOMAIN crawl.pages :
                             LET d == crawl.pages[i].depth
                             IN /\ d <= crawl.depth /\ crawl.pages[i].page \in Within(d)
                                /\ d > 0 => Within(d - 1) \subseteq taken
                        /\ crawl.at = "answered" /\ Len(crawl.pages) < crawl.limit =>
                             taken = Within(crawl.depth)
      BY DEF CrawlIsNearest, taken
    <3> QED
      BY <1>4, <2>3, <2>5, <2>6, <2>7
  <2> QED
    BY <2>1, <2>8 DEF CrawlSafety
<1> QED
  BY <1>1, <1>2, <1>3, <1>4 DEF CrawlInv

\* What is queued once the first is taken and pages are added at a depth.
Enqueued(q, new, d, r) ==
  /\ r \in Seq(CrawlItems)
  /\ \A i \in DOMAIN r :
       \/ i + 1 \in DOMAIN q /\ r[i] = q[i + 1] /\ 1 < i + 1
       \/ /\ i - (Len(q) - 1) \in DOMAIN new
          /\ r[i].page = new[i - (Len(q) - 1)] /\ r[i].depth = d
  /\ \A i \in DOMAIN r : i \in Nat
  /\ \A i \in DOMAIN q : i = 1 \/ (i - 1 \in DOMAIN r /\ r[i - 1] = q[i])
  /\ \A i \in DOMAIN new :
       /\ i + (Len(q) - 1) \in DOMAIN r
       /\ r[i + (Len(q) - 1)].page = new[i] /\ r[i + (Len(q) - 1)].depth = d

LEMMA EnqueuedFacts ==
  ASSUME NEW q \in Seq(CrawlItems), q # <<>>, NEW new \in Seq(Pages), NEW d \in Nat,
         NEW r, r = Enqueue(Tail(q), new, d)
  PROVE  Enqueued(q, new, d, r)
<1> DEFINE added == [i \in DOMAIN new |-> [page |-> new[i], depth |-> d]]
<1>1. PICK t : t = Tail(q)
  OBVIOUS
<1>2. /\ t \in Seq(CrawlItems) /\ Len(t) = Len(q) - 1 /\ Len(q) \in Nat /\ Len(q) > 0
      /\ DOMAIN t = 1..(Len(q) - 1) /\ DOMAIN q = 1..Len(q)
      /\ \A i \in 1..(Len(q) - 1) : t[i] = q[i + 1]
  BY <1>1
<1>3. Len(new) \in Nat /\ DOMAIN new = 1..Len(new) /\ \A i \in DOMAIN new : new[i] \in Pages
  OBVIOUS
<1>4. added \in Seq(CrawlItems) /\ Len(added) = Len(new) /\ DOMAIN added = 1..Len(new)
  <2>1. \A i \in 1..Len(new) : [page |-> new[i], depth |-> d] \in CrawlItems
    BY <1>3 DEF CrawlItems
  <2>2. added = [i \in 1..Len(new) |-> [page |-> new[i], depth |-> d]]
    BY <1>3
  <2> QED
    BY <1>3, <2>1, <2>2
<1>5. \A i \in 1..Len(new) : added[i].page = new[i] /\ added[i].depth = d
  BY <1>3
<1>6. r = t \o added
  BY <1>1 DEF Enqueue
<1> HIDE DEF added
<1>7. /\ r \in Seq(CrawlItems) /\ DOMAIN r = 1..(Len(q) - 1 + Len(new))
      /\ \A i \in 1..(Len(q) - 1) : r[i] = t[i]
      /\ \A i \in 1..Len(new) : r[i + (Len(q) - 1)] = added[i]
  <2>0. t \in Seq(CrawlItems) /\ added \in Seq(CrawlItems)
    BY <1>2, <1>4
  <2>00. /\ t \o added \in Seq(CrawlItems) /\ Len(t \o added) = Len(t) + Len(added)
         /\ \A i \in 1..(Len(t) + Len(added)) :
              (t \o added)[i] = IF i <= Len(t) THEN t[i] ELSE added[i - Len(t)]
    BY <2>0
  <2>1. Len(r) = (Len(q) - 1) + Len(new) /\ r \in Seq(CrawlItems)
    BY <1>2, <1>4, <1>6, <2>00
  <2>2. \A i \in 1..(Len(q) - 1) : r[i] = t[i]
    BY <1>2, <1>4, <1>6
  <2>3. ASSUME NEW i \in 1..Len(new) PROVE r[i + (Len(q) - 1)] = added[i]
    <3>1. i + (Len(q) - 1) \in 1..(Len(t) + Len(added)) /\ ~(i + (Len(q) - 1) <= Len(t))
          /\ (i + (Len(q) - 1)) - Len(t) = i
      BY <1>2, <1>3, <1>4
    <3>2. r[i + (Len(q) - 1)] = added[(i + (Len(q) - 1)) - Len(t)]
      BY <1>6, <2>00, <3>1
    <3> QED
      BY <3>1, <3>2
  <2> QED
    BY <2>1, <2>2, <2>3
<1>8. ASSUME NEW i \in DOMAIN r
      PROVE  \/ i + 1 \in DOMAIN q /\ r[i] = q[i + 1] /\ 1 < i + 1
             \/ /\ i - (Len(q) - 1) \in DOMAIN new
                /\ r[i].page = new[i - (Len(q) - 1)] /\ r[i].depth = d
  <2>1. i \in 1..(Len(q) - 1 + Len(new))
    BY <1>7
  <2>2. CASE i <= Len(q) - 1
    <3>1. i \in 1..(Len(q) - 1) /\ i + 1 \in 1..Len(q) /\ 1 < i + 1
      BY <1>2, <1>3, <2>1, <2>2
    <3> QED
      BY <1>2, <1>7, <3>1
  <2>3. CASE ~(i <= Len(q) - 1)
    <3>1. PICK j : j = i - (Len(q) - 1)
      OBVIOUS
    <3>2. j \in 1..Len(new) /\ i = j + (Len(q) - 1)
      BY <1>2, <1>3, <2>1, <2>3, <3>1
    <3>3. r[i] = added[j]
      BY <1>7, <3>2
    <3> QED
      BY <1>3, <1>5, <3>1, <3>2, <3>3
  <2> QED
    BY <2>2, <2>3
<1>9. ASSUME NEW i \in DOMAIN q PROVE i = 1 \/ (i - 1 \in DOMAIN r /\ r[i - 1] = q[i])
  <2>1. SUFFICES ASSUME i # 1 PROVE i - 1 \in DOMAIN r /\ r[i - 1] = q[i]
    OBVIOUS
  <2>2. i - 1 \in 1..(Len(q) - 1) /\ (i - 1) + 1 = i
    BY <1>2, <2>1
  <2>3. i - 1 \in 1..(Len(q) - 1 + Len(new))
    BY <1>2, <1>3, <2>2
  <2> QED
    BY <1>2, <1>7, <2>2, <2>3
<1>10. ASSUME NEW i \in DOMAIN new
       PROVE  /\ i + (Len(q) - 1) \in DOMAIN r
              /\ r[i + (Len(q) - 1)].page = new[i] /\ r[i + (Len(q) - 1)].depth = d
  <2>1. i \in 1..Len(new) /\ i + (Len(q) - 1) \in 1..(Len(q) - 1 + Len(new))
    BY <1>2, <1>3
  <2> QED
    BY <1>5, <1>7, <2>1
<1> QED
  BY <1>7, <1>8, <1>9, <1>10 DEF Enqueued

LEMMA FetchPageKept == ASSUME CrawlInv, FetchPage PROVE CrawlInv'
<1>1. /\ crawl.at = "fetching" /\ crawl.queue # <<>> /\ Len(crawl.pages) < crawl.limit
      /\ links' = links
  BY DEF FetchPage, Fetching
<1>2. /\ LinksOk /\ crawl \in PageCrawls /\ NearestFirst /\ SeenInv /\ DepthInv
  BY <1>1 DEF CrawlInv, ExtractCalls, JobCalls
<1>3. PICK q : q = crawl.queue
  OBVIOUS
<1>4. PICK s : s = crawl.pages
  OBVIOUS
<1>5. PICK deep : deep = crawl.depth
  OBVIOUS
<1>6. q \in Seq(CrawlItems) /\ s \in Seq(CrawlItems) /\ deep \in Nat /\ crawl.limit \in Nat
      /\ crawl.seen \subseteq Pages /\ q # <<>>
  BY <1>1, <1>2, <1>3, <1>4, <1>5 DEF PageCrawls
<1>7. PICK next : next = Head(q)
  OBVIOUS
<1>8. next \in CrawlItems /\ next = q[1] /\ 1 \in DOMAIN q
  BY <1>6, <1>7
<1>9. next.page \in Pages /\ next.depth \in Nat
  BY <1>8 DEF CrawlItems
<1>10. PICK new : new = IF next.depth < deep THEN NewLinks(next.page) ELSE <<>>
  OBVIOUS
<1>11. PICK r : r = Enqueue(Tail(q), new, next.depth + 1)
  OBVIOUS
<1>12. PICK t : t = Append(s, next)
  OBVIOUS
<1>13. crawl' = [crawl EXCEPT !.queue = r, !.seen = @ \union Range(new), !.pages = t]
  BY <1>3, <1>4, <1>5, <1>7, <1>10, <1>11, <1>12 DEF FetchPage
<1>14. /\ new \in Seq(Pages)
       /\ \A i, j \in DOMAIN new : new[i] = new[j] => i = j
       /\ \A i \in DOMAIN new : next.depth < deep /\ new[i] \in Range(links[next.page])
                               /\ new[i] \notin crawl.seen
       /\ next.depth < deep =>
            \A p \in Range(links[next.page]) : p \in crawl.seen \/ \E i \in DOMAIN new : new[i] = p
  <2>1. CASE next.depth < deep
    <3>1. new = NewLinks(next.page)
      BY <1>10, <2>1
    <3>2. LinksOk /\ next.page \in Pages
      BY <1>2, <1>9
    <3>3. Unfound(new, next.page)
      BY <3>1, <3>2, NewLinksFacts
    <3>4. \A i \in DOMAIN new : new[i] \in Range(links[next.page]) /\ new[i] \notin crawl.seen
      BY <3>3 DEF Unfound
    <3>5. \A p \in Range(links[next.page]) : p \in crawl.seen \/ \E i \in DOMAIN new : new[i] = p
      BY <3>3 DEF Unfound
    <3> QED
      BY <2>1, <3>3, <3>4, <3>5 DEF Unfound
  <2>2. CASE ~(next.depth < deep)
    <3>1. new = <<>>
      BY <1>10, <2>2
    <3> QED
      BY <2>2, <3>1
  <2> QED
    BY <2>1, <2>2
<1>15. /\ r \in Seq(CrawlItems)
       /\ \A i \in DOMAIN r :
            \/ i + 1 \in DOMAIN q /\ r[i] = q[i + 1] /\ 1 < i + 1
            \/ /\ i - (Len(q) - 1) \in DOMAIN new
               /\ r[i].page = new[i - (Len(q) - 1)] /\ r[i].depth = next.depth + 1
       /\ \A i \in DOMAIN r : i \in Nat
       /\ \A i \in DOMAIN q : i = 1 \/ (i - 1 \in DOMAIN r /\ r[i - 1] = q[i])
       /\ \A i \in DOMAIN new :
            /\ i + (Len(q) - 1) \in DOMAIN r
            /\ r[i + (Len(q) - 1)].page = new[i] /\ r[i + (Len(q) - 1)].depth = next.depth + 1
  <2>1. next.depth + 1 \in Nat
    BY <1>9
  <2>2. new \in Seq(Pages)
    BY <1>14
  <2>3. q \in Seq(CrawlItems) /\ q # <<>>
    BY <1>6
  <2>4. PICK e \in Nat : e = next.depth + 1
    BY <2>1
  <2>5. r = Enqueue(Tail(q), new, e)
    BY <1>11, <2>4
  <2>6. Enqueued(q, new, e, r)
    BY <2>2, <2>3, <2>5, EnqueuedFacts
  <2> QED
    BY <2>4, <2>6 DEF Enqueued
<1>16. /\ t \in Seq(CrawlItems) /\ DOMAIN t = DOMAIN s \union {Len(s) + 1} /\ Len(t) = Len(s) + 1
       /\ t[Len(s) + 1] = next /\ Len(s) + 1 \notin DOMAIN s /\ Len(s) \in Nat
       /\ \A i \in DOMAIN s : t[i] = s[i]
  BY <1>6, <1>8, <1>12
<1>17. PICK n : n = Len(s) + 1
  OBVIOUS
<1>18. PICK c : c = crawl'
  OBVIOUS
<1>19. /\ c.queue = r /\ c.pages = t /\ c.depth = deep /\ c.limit = crawl.limit /\ c.at = "fetching"
       /\ c.seen = crawl.seen \union Range(new) /\ c \in PageCrawls
  <2>1. Range(new) \subseteq Pages
    <3>1. \A i \in DOMAIN new : new[i] \in Pages
      BY <1>14
    <3> QED
      BY <3>1 DEF Range
  <2> QED
    BY <1>1, <1>2, <1>5, <1>6, <1>13, <1>15, <1>16, <1>18, <2>1 DEF PageCrawls
<1>20. \A i \in DOMAIN s : s[i].page \in Pages /\ s[i].depth \in Nat
  BY <1>6, ItemsOf
<1>21. \A i \in DOMAIN q : q[i].page \in Pages /\ q[i].depth \in Nat /\ i \in Nat
  <2>1. \A i \in DOMAIN q : i \in Nat
    BY <1>6
  <2> QED
    BY <1>6, <2>1, ItemsOf
\* What was known of the items.
<1>22. /\ \A i, j \in DOMAIN q : /\ i <= j => q[i].depth <= q[j].depth
                                 /\ q[j].depth <= q[i].depth + 1
       /\ \A i \in DOMAIN s, j \in DOMAIN q : s[i].depth <= q[j].depth
  BY <1>2, <1>3, <1>4 DEF NearestFirst
<1>23. /\ \A i, j \in DOMAIN s : s[i].page = s[j].page => i = j
       /\ \A i, j \in DOMAIN q : q[i].page = q[j].page => i = j
       /\ \A i \in DOMAIN s, j \in DOMAIN q : s[i].page # q[j].page
       /\ \A p : p \in crawl.seen <=> \/ \E i \in DOMAIN s : s[i].page = p
                                      \/ \E i \in DOMAIN q : q[i].page = p
  BY <1>2, <1>3, <1>4 DEF SeenInv, OncePages
<1>24. \/ \E i \in DOMAIN s : s[i].page = Root /\ s[i].depth <= 0
       \/ \E i \in DOMAIN q : q[i].page = Root /\ q[i].depth <= 0
  BY <1>2, <1>3, <1>4 DEF DepthInv, ItemFor
<1>25. /\ \A i \in DOMAIN s : s[i].depth <= deep
       /\ \A i \in DOMAIN q : q[i].depth <= deep
       /\ \A d \in Nat :
            /\ \A i \in DOMAIN s : s[i].depth = d =>
                 /\ s[i].page \in Within(d)
                 /\ d < deep => \A p \in Range(links[s[i].page]) : ItemFor(p, d + 1)
                 /\ d > 0 => \A p \in Within(d - 1) : \E j \in DOMAIN s : s[j].page = p
            /\ \A i \in DOMAIN q : q[i].depth = d => q[i].page \in Within(d)
  BY <1>2, <1>3, <1>4, <1>5 DEF DepthInv
\* Where each item is now, and where each that is there now comes from.
<1>26. n \in DOMAIN t /\ t[n] = next /\ \A i \in DOMAIN t : i = n \/ (i \in DOMAIN s /\ t[i] = s[i])
  BY <1>16, <1>17
<1>27. \A i \in DOMAIN q : q[i] = next \/ \E j \in DOMAIN r : r[j] = q[i]
  BY <1>8, <1>15
<1>28. \A i \in DOMAIN s : i \in DOMAIN t /\ t[i] = s[i]
  BY <1>16
<1>29. \A i \in DOMAIN q : next.depth <= q[i].depth /\ q[i].depth <= next.depth + 1
  BY <1>6, <1>8, <1>21, <1>22
<1>30. ASSUME NEW p, NEW d, ItemFor(p, d) PROVE ItemFor(p, d)'
  <2>1. \/ \E i \in DOMAIN s : s[i].page = p /\ s[i].depth <= d
        \/ \E i \in DOMAIN q : q[i].page = p /\ q[i].depth <= d
    BY <1>3, <1>4, <1>30 DEF ItemFor
  <2>2. \/ \E i \in DOMAIN t : t[i].page = p /\ t[i].depth <= d
        \/ \E i \in DOMAIN r : r[i].page = p /\ r[i].depth <= d
    BY <1>26, <1>27, <1>28, <2>1
  <2> QED
    BY <1>18, <1>19, <2>2 DEF ItemFor
<1>31. \A i \in DOMAIN r :
         /\ r[i].depth \in Nat /\ next.depth <= r[i].depth /\ r[i].depth <= next.depth + 1
         /\ r[i].depth <= deep
  <2> SUFFICES ASSUME NEW i \in DOMAIN r
               PROVE  /\ r[i].depth \in Nat /\ next.depth <= r[i].depth
                      /\ r[i].depth <= next.depth + 1 /\ r[i].depth <= deep
    OBVIOUS
  <2>1. CASE i + 1 \in DOMAIN q /\ r[i] = q[i + 1] /\ 1 < i + 1
    BY <1>21, <1>25, <1>29, <2>1
  <2>2. CASE i - (Len(q) - 1) \in DOMAIN new /\ r[i].depth = next.depth + 1
    <3>1. next.depth < deep
      BY <1>14, <2>2
    <3> QED
      BY <1>6, <1>9, <2>2, <3>1
  <2> QED
    BY <1>15, <2>1, <2>2
<1>32. NearestFirst'
  <2>1. ASSUME NEW i \in DOMAIN r, NEW j \in DOMAIN r
        PROVE  r[j].depth <= r[i].depth + 1
    BY <1>9, <1>31
  <2>2. ASSUME NEW i \in DOMAIN r, NEW j \in DOMAIN r, i <= j PROVE r[i].depth <= r[j].depth
    <3>1. CASE r[j].depth = next.depth + 1
      BY <1>31, <3>1
    <3>2. CASE r[j].depth # next.depth + 1
      <4>1. j + 1 \in DOMAIN q /\ r[j] = q[j + 1]
        BY <1>15, <3>2
      <4>2. ~(i - (Len(q) - 1) \in DOMAIN new)
        <5>1. j + 1 <= Len(q) /\ Len(q) \in Nat
          BY <1>6, <4>1
        <5>2. i \in Nat /\ j \in Nat
          BY <1>15
        <5>3. i - (Len(q) - 1) <= 0
          BY <2>2, <5>1, <5>2
        <5>4. \A k \in DOMAIN new : k \in Nat /\ k > 0
          BY <1>14
        <5> QED
          BY <5>1, <5>2, <5>3, <5>4
      <4>3. i + 1 \in DOMAIN q /\ r[i] = q[i + 1]
        BY <1>15, <4>2
      <4>4. i + 1 <= j + 1
        BY <1>15, <2>2
      <4> QED
        BY <1>22, <4>1, <4>3, <4>4
    <3> QED
      BY <3>1, <3>2
  <2>3. ASSUME NEW i \in DOMAIN t, NEW j \in DOMAIN r PROVE t[i].depth <= r[j].depth
    <3>1. t[i].depth \in Nat /\ t[i].depth <= next.depth
      BY <1>8, <1>9, <1>20, <1>22, <1>26
    <3> QED
      BY <1>9, <1>31, <3>1
  <2> QED
    BY <1>18, <1>19, <2>1, <2>2, <2>3 DEF NearestFirst
<1>33. ASSUME NEW p
       PROVE  p \in c.seen <=> \/ \E i \in DOMAIN t : t[i].page = p
                               \/ \E i \in DOMAIN r : r[i].page = p
  <2>1. p \in c.seen <=> p \in crawl.seen \/ \E i \in DOMAIN new : new[i] = p
    BY <1>19 DEF Range
  <2>2. ASSUME NEW i \in DOMAIN r, r[i].page = p PROVE p \in c.seen
    <3>1. CASE i + 1 \in DOMAIN q /\ r[i] = q[i + 1]
      BY <1>23, <2>1, <2>2, <3>1
    <3>2. CASE i - (Len(q) - 1) \in DOMAIN new /\ r[i].page = new[i - (Len(q) - 1)]
      BY <2>1, <2>2, <3>2
    <3> QED
      BY <1>15, <3>1, <3>2
  <2>3. ASSUME NEW i \in DOMAIN t, t[i].page = p PROVE p \in c.seen
    BY <1>8, <1>23, <1>26, <2>1, <2>3
  <2>4. ASSUME p \in crawl.seen
        PROVE  (\E i \in DOMAIN t : t[i].page = p) \/ \E i \in DOMAIN r : r[i].page = p
    <3>1. CASE \E i \in DOMAIN s : s[i].page = p
      BY <1>28, <3>1
    <3>2. CASE \E i \in DOMAIN q : q[i].page = p
      BY <1>26, <1>27, <3>2
    <3> QED
      BY <1>23, <2>4, <3>1, <3>2
  <2>5. ASSUME NEW i \in DOMAIN new, new[i] = p PROVE \E k \in DOMAIN r : r[k].page = p
    BY <1>15, <2>5
  <2> QED
    BY <2>1, <2>2, <2>3, <2>4, <2>5
<1>34. SeenInv'
  <2>1. OncePages(t)
    <3> SUFFICES ASSUME NEW i \in DOMAIN t, NEW j \in DOMAIN t, t[i].page = t[j].page PROVE i = j
      BY DEF OncePages
    <3> QED
      BY <1>8, <1>23, <1>26
  <2>2. OncePages(r)
    <3> SUFFICES ASSUME NEW i \in DOMAIN r, NEW j \in DOMAIN r, r[i].page = r[j].page PROVE i = j
      BY DEF OncePages
    <3>0. i \in Nat /\ j \in Nat /\ Len(q) \in Nat
      BY <1>6, <1>15
    <3> DEFINE Old(k) == k + 1 \in DOMAIN q /\ r[k] = q[k + 1]
               New(k) == k - (Len(q) - 1) \in DOMAIN new /\ r[k].page = new[k - (Len(q) - 1)]
    <3>1. ASSUME NEW k, NEW m, Old(k), New(m) PROVE r[k].page # r[m].page
      <4>1. r[k].page \in crawl.seen
        BY <1>23, <3>1
      <4>2. r[m].page \notin crawl.seen
        BY <1>14, <3>1
      <4> QED
        BY <4>1, <4>2
    <3>2. CASE Old(i) /\ Old(j)
      <4>1. i + 1 = j + 1
        BY <1>23, <3>2
      <4> QED
        BY <3>0, <4>1
    <3>3. CASE New(i) /\ New(j)
      <4>1. i - (Len(q) - 1) = j - (Len(q) - 1)
        BY <1>14, <3>3
      <4> QED
        BY <3>0, <4>1
    <3>4. (Old(i) \/ New(i)) /\ (Old(j) \/ New(j))
      BY <1>15
    <3> HIDE DEF Old, New
    <3> QED
      BY <3>1, <3>2, <3>3, <3>4
  <2>3. ASSUME NEW i \in DOMAIN t, NEW j \in DOMAIN r PROVE t[i].page # r[j].page
    <3>1. t[i].page \in crawl.seen
      BY <1>8, <1>23, <1>26
    <3>2. CASE j - (Len(q) - 1) \in DOMAIN new /\ r[j].page = new[j - (Len(q) - 1)]
      BY <1>14, <3>1, <3>2
    <3>3. CASE j + 1 \in DOMAIN q /\ r[j] = q[j + 1] /\ 1 < j + 1
      <4>1. CASE i = n
        BY <1>8, <1>23, <1>26, <3>3, <4>1
      <4>2. CASE i # n
        BY <1>23, <1>26, <3>3, <4>2
      <4> QED
        BY <4>1, <4>2
    <3> QED
      BY <1>15, <3>2, <3>3
  <2> QED
    BY <1>18, <1>19, <1>33, <2>1, <2>2, <2>3 DEF SeenInv
<1>35. \A k \in Nat : Within(k)' = Within(k)
  BY <1>1 DEF Within
<1>36. next.page \in Within(next.depth) /\ next.depth <= deep
  BY <1>8, <1>9, <1>25
\* The page at hand: its links are queued, and all that is nearer is taken.
<1>37. ASSUME next.depth < deep, NEW p \in Range(links[next.page]) PROVE ItemFor(p, next.depth + 1)'
  <2>1. PICK d : d = next.depth + 1
    OBVIOUS
  <2>2. \/ \E i \in DOMAIN t : t[i].page = p /\ t[i].depth <= d
        \/ \E i \in DOMAIN r : r[i].page = p /\ r[i].depth <= d
    <3>1. p \in c.seen
      BY <1>14, <1>19, <1>37 DEF Range
    <3>2. \A i \in DOMAIN r : r[i].depth <= d
      BY <1>31, <2>1
    <3>3. \A i \in DOMAIN t : t[i].depth <= d
      <4> SUFFICES ASSUME NEW i \in DOMAIN t PROVE t[i].depth <= d
        OBVIOUS
      <4>1. t[i].depth \in Nat /\ t[i].depth <= next.depth
        BY <1>8, <1>9, <1>20, <1>22, <1>26
      <4> QED
        BY <1>9, <2>1, <4>1
    <3> QED
      BY <1>33, <3>1, <3>2, <3>3
  <2>3. ItemFor(p, d)'
    BY <1>18, <1>19, <2>2 DEF ItemFor
  <2> QED
    BY <2>1, <2>3
<1>38. ASSUME next.depth > 0
       PROVE  \A p \in Within(next.depth - 1) : \E j \in DOMAIN t : t[j].page = p
  <2>1. PICK k \in Nat : k = next.depth - 1
    BY <1>9, <1>38
  <2>2. k <= deep /\ \A j \in DOMAIN q : k < q[j].depth
    BY <1>6, <1>9, <1>21, <1>29, <1>36, <2>1
  <2>3. k <= crawl.depth /\ \A j \in DOMAIN crawl.queue : k < crawl.queue[j].depth
    BY <1>3, <1>5, <2>2
  <2>4. \A p \in Within(k) : \E i \in DOMAIN crawl.pages : crawl.pages[i].page = p
    BY <1>2, <2>3, NearerIsTaken
  <2> QED
    BY <1>4, <1>28, <2>1, <2>4
<1>39. DepthInv'
  <2>1. ItemFor(Root, 0)'
    BY <1>2, <1>30 DEF DepthInv
  <2>2. \A i \in DOMAIN t : t[i].depth <= deep
    BY <1>25, <1>26, <1>36
  <2>3. ASSUME NEW d \in Nat, NEW i \in DOMAIN t, t[i].depth = d
        PROVE  /\ t[i].page \in Within(d)'
               /\ d < deep => \A p \in Range(links'[t[i].page]) : ItemFor(p, d + 1)'
               /\ d > 0 => \A p \in Within(d - 1)' : \E j \in DOMAIN t : t[j].page = p
    <3>1. Within(d)' = Within(d) /\ (d > 0 => Within(d - 1)' = Within(d - 1))
      <4>1. PICK m : m = d - 1
        OBVIOUS
      <4>2. d > 0 => m \in Nat
        BY <4>1
      <4>3. d > 0 => Within(m)' = Within(m)
        BY <1>35, <4>2
      <4> QED
        BY <1>35, <4>1, <4>3
    <3>2. CASE i = n
      BY <1>1, <1>26, <1>36, <1>37, <1>38, <2>3, <3>1, <3>2
    <3>3. CASE i # n
      <4>1. i \in DOMAIN s /\ t[i] = s[i]
        BY <1>26, <3>3
      <4>2. /\ s[i].page \in Within(d)
            /\ d < deep => \A p \in Range(links[s[i].page]) : ItemFor(p, d + 1)
            /\ d > 0 => \A p \in Within(d - 1) : \E j \in DOMAIN s : s[j].page = p
        BY <1>25, <2>3, <4>1
      <4>3. d < deep => \A p \in Range(links[s[i].page]) : ItemFor(p, d + 1)'
        BY <1>30, <4>2
      <4> QED
        BY <1>1, <1>28, <3>1, <4>1, <4>2, <4>3
    <3> QED
      BY <3>2, <3>3
  <2>4. ASSUME NEW d \in Nat, NEW i \in DOMAIN r, r[i].depth = d PROVE r[i].page \in Within(d)'
    <3>1. CASE i + 1 \in DOMAIN q /\ r[i] = q[i + 1]
      BY <1>25, <1>35, <2>4, <3>1
    <3>2. CASE /\ i - (Len(q) - 1) \in DOMAIN new
               /\ r[i].page = new[i - (Len(q) - 1)] /\ r[i].depth = next.depth + 1
      <4>1. r[i].page \in Range(links[next.page])
        BY <1>14, <3>2
      <4>2. Within(next.depth + 1) = Beyond(Within(next.depth))
        BY <1>2, <1>9, WithinSteps
      <4>3. r[i].page \in Within(next.depth + 1)
        BY <1>36, <4>1, <4>2 DEF Beyond
      <4> QED
        BY <1>35, <2>4, <3>2, <4>3
    <3> QED
      BY <1>15, <3>1, <3>2
  <2> QED
    BY <1>18, <1>19, <1>31, <2>1, <2>2, <2>3, <2>4 DEF DepthInv
<1>40. LinksOk'
  BY <1>1, <1>2 DEF LinksOk
<1>41. Len(t) <= c.limit
  <2>1. Len(s) < c.limit
    BY <1>1, <1>4, <1>19
  <2> QED
    BY <1>6, <1>16, <1>19, <2>1
<1> QED
  BY <1>18, <1>19, <1>32, <1>34, <1>39, <1>40, <1>41 DEF CrawlInv

LEMMA BeginCrawlKept == ASSUME CrawlInv, BeginCrawl PROVE CrawlInv'
<1>1. PICK depth \in Depths, limit \in PageLimits :
        crawl' = [at |-> "fetching", depth |-> depth, limit |-> limit,
                  queue |-> <<[page |-> Root, depth |-> 0]>>, seen |-> {Root}, pages |-> <<>>]
  BY DEF BeginCrawl
<1>2. links' = links
  BY DEF BeginCrawl
<1>3. depth \in Nat /\ limit \in Nat /\ limit > 0 /\ Root \in Pages
  BY CrawlAssumption
<1>4. PICK q : q = <<[page |-> Root, depth |-> 0]>>
  OBVIOUS
<1>5. [page |-> Root, depth |-> 0] \in CrawlItems
  BY <1>3 DEF CrawlItems
<1>6. /\ q \in Seq(CrawlItems) /\ DOMAIN q = {1} /\ q[1].page = Root /\ q[1].depth = 0
  BY <1>4, <1>5
<1>7. PICK s : s = <<>> /\ s \in Seq(CrawlItems)
  <2>1. <<>> \in Seq(CrawlItems)
    OBVIOUS
  <2> QED
    BY <2>1
<1>8. DOMAIN s = {} /\ Len(s) = 0
  BY <1>7
<1>9. PICK c : c = crawl'
  OBVIOUS
<1>10. /\ c.at = "fetching" /\ c.queue = q /\ c.pages = s /\ c.depth = depth /\ c.limit = limit
       /\ c.seen = {Root} /\ c \in PageCrawls
  BY <1>1, <1>3, <1>4, <1>6, <1>7, <1>9 DEF PageCrawls
<1>11. NearestFirst'
  BY <1>6, <1>8, <1>9, <1>10 DEF NearestFirst
<1>12. SeenInv'
  BY <1>6, <1>8, <1>9, <1>10 DEF SeenInv, OncePages
<1>13. LinksOk /\ LinksOk'
  BY <1>2 DEF CrawlInv, LinksOk
<1>14. \A k \in Nat : Within(k)' = Within(k)
  BY <1>2 DEF Within
<1>15. Root \in Within(0)'
  BY <1>13, <1>14, WithinSteps
<1>16. DepthInv'
  <2>1. ItemFor(Root, 0)'
    BY <1>6, <1>9, <1>10 DEF ItemFor
  <2>2. \A d \in Nat : \A i \in DOMAIN q : q[i].depth = d => q[i].page \in Within(d)'
    BY <1>6, <1>15
  <2>3. \A i \in DOMAIN q : q[i].depth <= depth
    BY <1>3, <1>6
  <2> QED
    BY <1>8, <1>9, <1>10, <2>1, <2>2, <2>3 DEF DepthInv
<1>17. Len(s) <= limit
  BY <1>3, <1>8
<1> QED
  BY <1>9, <1>10, <1>11, <1>12, <1>13, <1>16, <1>17 DEF CrawlInv

\* A crawl or an extraction stops: nothing of it changes but where it is.
LEMMA StopKept ==
  ASSUME CrawlInv, NEW a \in {"failed", "answered"}, crawl' = [crawl EXCEPT !.at = a],
         links' = links, crawl.at \in {"fetching", "extracting", "job"},
         crawl.at = "fetching" /\ a = "answered" => ~Fetching
  PROVE  CrawlInv'
<1>1. LinksOk'
  BY DEF CrawlInv, LinksOk
<1>2. CASE /\ crawl \in PageCrawls /\ Len(crawl.pages) <= crawl.limit
           /\ NearestFirst /\ SeenInv /\ DepthInv
           /\ crawl.at = "answered" /\ Len(crawl.pages) < crawl.limit => crawl.queue = <<>>
  <2>1. /\ crawl' \in PageCrawls /\ crawl'.at = a /\ crawl'.pages = crawl.pages
        /\ crawl'.queue = crawl.queue /\ crawl'.seen = crawl.seen /\ crawl'.depth = crawl.depth
        /\ crawl'.limit = crawl.limit /\ crawl.at = "fetching"
    BY <1>2 DEF PageCrawls
  <2>2. a = "answered" /\ Len(crawl.pages) < crawl.limit => crawl.queue = <<>>
    BY <2>1 DEF Fetching
  <2>3. NearestFirst'
    BY <1>2, <2>1 DEF NearestFirst
  <2>4. SeenInv'
    BY <1>2, <2>1 DEF SeenInv
  <2>5. \A p, d : ItemFor(p, d)' <=> ItemFor(p, d)
    BY <2>1 DEF ItemFor
  <2>6. \A k : Within(k)' = Within(k)
    BY DEF Within
  <2>7. DepthInv'
    BY <1>2, <2>1, <2>5, <2>6 DEF DepthInv
  <2> QED
    BY <1>1, <1>2, <2>1, <2>2, <2>3, <2>4, <2>7 DEF CrawlInv
<1>3. CASE crawl \in ExtractCalls
  <2>1. crawl' \in ExtractCalls
    BY <1>3 DEF ExtractCalls
  <2> QED
    BY <1>1, <2>1 DEF CrawlInv
<1>4. CASE crawl \in JobCalls /\ crawl.got <= crawl.limit
  <2>1. crawl' \in JobCalls /\ crawl'.got <= crawl'.limit
    BY <1>4 DEF JobCalls
  <2> QED
    BY <1>1, <2>1 DEF CrawlInv
<1> QED
  BY <1>2, <1>3, <1>4 DEF CrawlInv

LEMMA ExtractKept == ASSUME CrawlInv, BeginExtract \/ ExtractUrl PROVE CrawlInv'
<1>1. LinksOk'
  BY DEF CrawlInv, LinksOk, BeginExtract, ExtractUrl
<1>2. CASE BeginExtract
  <2>1. PICK urls \in SeqOf(Pages, 2) :
          crawl' = [at |-> "extracting", urls |-> urls, pages |-> <<>>]
    BY <1>2 DEF BeginExtract
  <2>2. urls \in Seq(Pages)
    <3>1. PICK m \in 0..2 : urls \in [1..m -> Pages]
      BY DEF SeqOf
    <3> QED
      BY <3>1
  <2>3. PICK none : none = <<>> /\ none \in Seq(Pages)
    <3>1. <<>> \in Seq(Pages)
      OBVIOUS
    <3> QED
      BY <3>1
  <2>4. crawl' \in ExtractCalls
    BY <2>1, <2>2, <2>3 DEF ExtractCalls
  <2> QED
    BY <1>1, <2>4 DEF CrawlInv
<1>3. CASE ExtractUrl
  <2>1. crawl \in ExtractCalls /\ crawl.at = "extracting" /\ Len(crawl.pages) < Len(crawl.urls)
    BY <1>3 DEF ExtractUrl, CrawlInv, PageCrawls, JobCalls
  <2>2. CASE crawl' = [crawl EXCEPT !.at = "failed"]
    <3>1. crawl' \in ExtractCalls
      BY <2>1, <2>2 DEF ExtractCalls
    <3> QED
      BY <1>1, <3>1 DEF CrawlInv
  <2>3. CASE crawl' = [crawl EXCEPT !.pages = Append(@, crawl.urls[Len(@) + 1])]
    <3>1. PICK u : u = crawl.urls
      OBVIOUS
    <3>2. PICK s : s = crawl.pages
      OBVIOUS
    <3>3. u \in Seq(Pages) /\ s \in Seq(Pages) /\ Len(s) < Len(u)
      BY <2>1, <3>1, <3>2 DEF ExtractCalls
    <3>4. PICK t : t = Append(s, u[Len(s) + 1])
      OBVIOUS
    <3>5. t \in Seq(Pages)
      <4>1. Len(s) + 1 \in 1..Len(u)
        BY <3>3
      <4>2. u[Len(s) + 1] \in Pages
        BY <3>3, <4>1
      <4> QED
        BY <3>3, <3>4, <4>2
    <3>6. crawl' = [crawl EXCEPT !.pages = t]
      BY <2>3, <3>1, <3>2, <3>4
    <3>7. crawl' \in ExtractCalls
      BY <2>1, <3>5, <3>6 DEF ExtractCalls
    <3> QED
      BY <1>1, <3>7 DEF CrawlInv
  <2> QED
    BY <1>3, <2>2, <2>3 DEF ExtractUrl
<1> QED
  BY <1>2, <1>3

LEMMA AnswersFit ==
  ASSUME NEW got \in Nat, NEW size \in Nat, NEW limit \in Nat, got <= limit
  PROVE  TakeAnswer(got, size, limit) \in Nat /\ TakeAnswer(got, size, limit) <= limit
BY DEF TakeAnswer, Lesser

LEMMA JobKept ==
  ASSUME CrawlInv,
         BeginJob \/ JobFails \/ JobMoves \/ PollJob \/ JobTimesOut \/ CollectNext \/ EndJob
  PROVE  CrawlInv'
<1>1. LinksOk'
  BY DEF CrawlInv, LinksOk, BeginJob, JobFails, JobMoves, PollJob, JobTimesOut,
     CollectNext, EndJob
<1>2. CASE BeginJob
  <2>1. PICK limit \in PageLimits, status \in {"queued", "completed"} :
          crawl' = [at |-> "job", limit |-> limit, status |-> status, left |-> MaxPolls, got |-> 0]
    BY <1>2 DEF BeginJob
  <2>2. crawl' \in JobCalls /\ crawl'.got <= crawl'.limit
    BY <2>1, CrawlAssumption DEF JobCalls
  <2> QED
    BY <1>1, <2>2 DEF CrawlInv
<1>3. CASE JobFails
  BY <1>1, <1>3 DEF JobFails, CrawlInv
<1>4. ASSUME crawl.at \in {"job", "collecting"} PROVE crawl \in JobCalls /\ crawl.got <= crawl.limit
  BY <1>4 DEF CrawlInv, PageCrawls, ExtractCalls
<1>5. CASE JobMoves
  <2>1. crawl' \in JobCalls /\ crawl'.got <= crawl'.limit
    BY <1>4, <1>5 DEF JobMoves, JobCalls
  <2> QED
    BY <1>1, <2>1 DEF CrawlInv
<1>6. CASE PollJob
  <2>1. crawl \in JobCalls /\ crawl.got <= crawl.limit /\ crawl.at = "job"
    BY <1>4, <1>6 DEF PollJob
  <2>2. CASE \E size \in 0..AnswerSize :
               crawl' = [crawl EXCEPT !.at = "collecting", !.got = TakeAnswer(0, size, crawl.limit)]
    <3>1. PICK size \in 0..AnswerSize :
            crawl' = [crawl EXCEPT !.at = "collecting", !.got = TakeAnswer(0, size, crawl.limit)]
      BY <2>2
    <3>2. size \in Nat /\ crawl.limit \in Nat
      BY <2>1, CrawlAssumption DEF JobCalls
    <3>3. PICK g : g = TakeAnswer(0, size, crawl.limit)
      OBVIOUS
    <3>4. g \in Nat /\ g <= crawl.limit
      BY <3>2, <3>3 DEF TakeAnswer, Lesser
    <3>5. crawl' \in JobCalls /\ crawl'.got <= crawl'.limit
      BY <2>1, <3>1, <3>3, <3>4 DEF JobCalls
    <3> QED
      BY <1>1, <3>5 DEF CrawlInv
  <2>3. CASE crawl' = [crawl EXCEPT !.at = "failed"] \/ crawl' = [crawl EXCEPT !.left = @ - 1]
    <3>1. crawl' \in JobCalls /\ crawl'.got <= crawl'.limit
      BY <2>1, <2>3 DEF JobCalls
    <3> QED
      BY <1>1, <3>1 DEF CrawlInv
  <2> QED
    BY <1>6, <2>2, <2>3 DEF PollJob
<1>7. CASE JobTimesOut
  <2>1. crawl' \in JobCalls /\ crawl'.got <= crawl'.limit
    BY <1>4, <1>7 DEF JobTimesOut, JobCalls
  <2> QED
    BY <1>1, <2>1 DEF CrawlInv
<1>8. CASE CollectNext
  <2>1. crawl \in JobCalls /\ crawl.got <= crawl.limit /\ crawl.at = "collecting"
    BY <1>4, <1>8 DEF CollectNext
  <2>2. PICK size \in 0..AnswerSize :
          crawl' = [crawl EXCEPT !.got = TakeAnswer(@, size, crawl.limit)]
    BY <1>8 DEF CollectNext
  <2>3. size \in Nat /\ crawl.limit \in Nat /\ crawl.got \in Nat
    BY <2>1, CrawlAssumption DEF JobCalls
  <2>4. PICK g : g = TakeAnswer(crawl.got, size, crawl.limit)
    OBVIOUS
  <2>5. g \in Nat /\ g <= crawl.limit
    BY <2>1, <2>3, <2>4, AnswersFit
  <2>6. crawl' \in JobCalls /\ crawl'.got <= crawl'.limit
    BY <2>1, <2>2, <2>4, <2>5 DEF JobCalls
  <2> QED
    BY <1>1, <2>6 DEF CrawlInv
<1>9. CASE EndJob
  <2>1. crawl' \in JobCalls /\ crawl'.got <= crawl'.limit
    BY <1>4, <1>9 DEF EndJob, JobCalls
  <2> QED
    BY <1>1, <2>1 DEF CrawlInv
<1> QED
  BY <1>2, <1>3, <1>5, <1>6, <1>7, <1>8, <1>9

LEMMA CrawlInvKept == CrawlInv /\ [CrawlNext]_crawlVars => CrawlInv'
<1> SUFFICES ASSUME CrawlInv, [CrawlNext]_crawlVars PROVE CrawlInv'
  OBVIOUS
<1>1. CASE PageFails \/ EndCrawl \/ EndExtract
  <2>1. PICK a \in {"failed", "answered"} : crawl' = [crawl EXCEPT !.at = a]
                                           /\ (crawl.at = "fetching" /\ a = "answered" => ~Fetching)
    BY <1>1 DEF PageFails, EndCrawl, EndExtract, Fetching
  <2>2. links' = links /\ crawl.at \in {"fetching", "extracting", "job"}
    BY <1>1 DEF PageFails, EndCrawl, EndExtract, Fetching
  <2> QED
    BY <2>1, <2>2, StopKept
<1>2. CASE UNCHANGED crawlVars
  <2>1. UNCHANGED <<links, crawl>>
    BY <1>2 DEF crawlVars
  <2>2. \A k : Within(k)' = Within(k)
    BY <2>1 DEF Within
  <2>3. \A p, d : ItemFor(p, d)' <=> ItemFor(p, d)
    BY <2>1 DEF ItemFor
  <2>4. (NearestFirst' <=> NearestFirst) /\ (SeenInv' <=> SeenInv) /\ (LinksOk' <=> LinksOk)
    BY <2>1 DEF NearestFirst, SeenInv, LinksOk
  <2>5. DepthInv => DepthInv'
    BY <2>1, <2>2, <2>3 DEF DepthInv
  <2> QED
    BY <2>1, <2>4, <2>5 DEF CrawlInv
<1> QED
  BY <1>1, <1>2, BeginCrawlKept, FetchPageKept, ExtractKept, JobKept DEF CrawlNext

-----------------------------------------------------------------------------
(***************************************************************************)
(* Research: what is completed is stored.                                  *)
(***************************************************************************)
RunNames == Runs \union {"none"}
FileStates == [run : RunNames, whole : BOOLEAN]

\* What a request holds at each of its steps.
RunShape(x) ==
  /\ x.id \in Ids /\ {"at", "id"} \subseteq DOMAIN x
  /\ x.at \in {"idle", "refused", "answered", "failed"} \union Working
  /\ x.at = "writing" => x \in [at : {"writing"}, id : Ids, file : 1..6, open : BOOLEAN]
  /\ x.at = "reading" =>
       x \in [at : {"reading"}, id : Ids, file : 1..5, findings : RunNames, report : RunNames]

\* The first n files of a request are there, and its own if it shares them with
\* no other.
Stored(r, n) ==
  \A i \in 1..n : /\ folder[run[r].id][Files[i]] # Absent
                  /\ Alone(r) => folder[run[r].id][Files[i]] = [run |-> r, whole |-> TRUE]
NodeIsOwn(r) == Alone(r) => node[run[r].id] = [findings |-> r, report |-> r]

RunInv(r) ==
  /\ RunShape(run[r])
  /\ run[r].at \in Working \ {"telling"} => <<"requested", r>> \in journaled
  /\ run[r].at = "writing" => Stored(r, run[r].file - 1)
  /\ run[r].at \in {"reading", "noting", "closing"} => Stored(r, 5)
  /\ run[r].at = "reading" /\ Alone(r) =>
       /\ run[r].file > 1 => run[r].findings = r
       /\ run[r].file > 3 => run[r].report = r
  /\ run[r].at = "noting" => NodeIsOwn(r)
  /\ run[r].at = "closing" => (graph => <<"node", r>> \in journaled /\ NodeIsOwn(r))
  /\ <<"completed", r>> \in journaled =>
       /\ run[r].at = "answered" /\ <<"requested", r>> \in journaled /\ Stored(r, 5)
       /\ graph => <<"node", r>> \in journaled /\ NodeIsOwn(r)

ResearchInv ==
  /\ DOMAIN run = Runs /\ folder \in [Ids -> [FileNames -> FileStates]]
  /\ node \in [Ids -> [findings : RunNames, report : RunNames]]
  /\ journaled \subseteq {"requested", "node", "completed"} \X Runs
  /\ graph \in BOOLEAN
  /\ \A r \in Runs : RunInv(r)

LEMMA FilesFacts ==
  /\ Len(Files) = 5 /\ DOMAIN Files = 1..5 /\ LastFile = 5
  /\ \A i, j \in 1..5 : Files[i] = Files[j] => i = j
  /\ FileNames = {"report", "findings", "sources", "transcript", "metadata"}
  /\ \A f \in FileNames : \E i \in 1..5 : f = Files[i]
  /\ \A i \in 1..5 : Files[i] \in FileNames
<1>1. Len(Files) = 5 /\ DOMAIN Files = 1..5 /\ LastFile = 5
  BY DEF Files, LastFile
<1>2. /\ Files[1] = "report" /\ Files[2] = "findings" /\ Files[3] = "sources"
      /\ Files[4] = "transcript" /\ Files[5] = "metadata" /\ 1..5 = {1, 2, 3, 4, 5}
  BY DEF Files
<1>3. FileNames = {Files[i] : i \in 1..5}
  BY <1>1 DEF FileNames
<1> QED
  BY <1>1, <1>2, <1>3

LEMMA ReadBackFacts ==
  /\ Len(ReadBack) = 4 /\ ReadBack[1] = "findings" /\ ReadBack[2] = "metadata"
  /\ ReadBack[3] = "report" /\ ReadBack[4] = "sources"
BY DEF ReadBack

LEMMA ResearchStarts == ResearchInit => ResearchInv
<1> SUFFICES ASSUME ResearchInit PROVE ResearchInv
  OBVIOUS
<1>1. folder \in [Ids -> [FileNames -> FileStates]]
  BY DEF ResearchInit, FileStates, Absent, RunNames
<1>2. node \in [Ids -> [findings : RunNames, report : RunNames]]
  BY DEF ResearchInit, RunNames
<1>3. ASSUME NEW r \in Runs PROVE RunInv(r)
  <2>1. run[r] \in [at : {"idle"}, id : Ids]
    BY DEF ResearchInit
  <2> QED
    BY <2>1 DEF ResearchInit, RunInv, RunShape, Working
<1> QED
  BY <1>1, <1>2, <1>3 DEF ResearchInit, ResearchInv

LEMMA ResearchInvImplies == ResearchInv => ResearchTypeOK /\ CompletedIsStored
<1> SUFFICES ASSUME ResearchInv PROVE ResearchTypeOK /\ CompletedIsStored
  OBVIOUS
<1>1. ResearchTypeOK
  <2>1. \A r \in Runs : run[r].at \in {"idle", "refused", "answered", "failed"} \union Working
    BY DEF ResearchInv, RunInv, RunShape
  <2>2. \A id \in Ids, f \in FileNames : folder[id][f].run \in Runs \union {"none"}
    BY DEF ResearchInv, FileStates, RunNames
  <2> QED
    BY <2>1, <2>2 DEF ResearchInv, ResearchTypeOK
<1>2. ASSUME NEW r \in Runs, <<"completed", r>> \in journaled
      PROVE  /\ <<"requested", r>> \in journaled /\ (graph => <<"node", r>> \in journaled)
             /\ \A f \in FileNames : folder[run[r].id][f] # Absent
             /\ Alone(r) =>
                  /\ \A f \in FileNames : folder[run[r].id][f] = [run |-> r, whole |-> TRUE]
                  /\ graph => node[run[r].id] = [findings |-> r, report |-> r]
  <2>1. /\ <<"requested", r>> \in journaled /\ Stored(r, 5)
        /\ graph => <<"node", r>> \in journaled /\ NodeIsOwn(r)
    BY <1>2 DEF ResearchInv, RunInv
  <2>2. \A f \in FileNames : \E i \in 1..5 : f = Files[i]
    BY FilesFacts
  <2> QED
    BY <2>1, <2>2 DEF Stored, NodeIsOwn
<1> QED
  BY <1>1, <1>2 DEF CompletedIsStored

\* A step of one request: the directories of others stay as they are, files do not
\* vanish, and who shares its directory with no other goes on doing so.
LEMMA OthersKept ==
  ASSUME ResearchInv, NEW r \in Runs, NEW x, run' = [run EXCEPT ![r] = x], x.id = run[r].id,
         \A id \in Ids, f \in FileNames :
           folder'[id][f] = folder[id][f] \/ (id = run[r].id /\ folder'[id][f] # Absent),
         \A id \in Ids : node'[id] = node[id] \/ id = run[r].id,
         journaled \subseteq journaled',
         \A k, q : <<k, q>> \in journaled' => <<k, q>> \in journaled \/ q = r,
         UNCHANGED graph
  PROVE  /\ \A q \in Runs : run'[q].id = run[q].id /\ (Alone(q)' <=> Alone(q))
         /\ \A q \in Runs, n \in 0..5 : q # r => (Stored(q, n) => Stored(q, n)')
         /\ \A q \in Runs : q # r => RunInv(q)'
<1>1. \A q \in Runs : run'[q].id = run[q].id /\ (q # r => run'[q] = run[q])
  BY DEF ResearchInv
<1>2. \A q \in Runs : Alone(q)' <=> Alone(q)
  BY <1>1 DEF Alone
<1>3. \A q \in Runs : run[q].id \in Ids
  BY DEF ResearchInv, RunInv, RunShape
<1>4. ASSUME NEW q \in Runs, NEW n \in 0..5, q # r, Stored(q, n) PROVE Stored(q, n)'
  <2>1. ASSUME NEW i \in 1..n
        PROVE  /\ folder'[run'[q].id][Files[i]] # Absent
               /\ Alone(q)' => folder'[run'[q].id][Files[i]] = [run |-> q, whole |-> TRUE]
    <3>1. Files[i] \in FileNames
      BY <1>4, <2>1, FilesFacts
    <3>2. PICK id : id = run[q].id
      OBVIOUS
    <3>3. /\ folder[id][Files[i]] # Absent
          /\ Alone(q) => folder[id][Files[i]] = [run |-> q, whole |-> TRUE]
      BY <1>4, <2>1, <3>2 DEF Stored
    <3>4. \/ folder'[id][Files[i]] = folder[id][Files[i]]
          \/ id = run[r].id /\ folder'[id][Files[i]] # Absent
      BY <1>3, <3>1, <3>2
    <3>5. id = run[r].id => ~Alone(q)
      BY <1>4, <3>2 DEF Alone
    <3> QED
      BY <1>1, <1>2, <3>2, <3>3, <3>4, <3>5
  <2> QED
    BY <2>1 DEF Stored
<1>5. ASSUME NEW q \in Runs, q # r, NodeIsOwn(q) PROVE NodeIsOwn(q)'
  <2>1. Alone(q) => run[q].id # run[r].id
    BY <1>5 DEF Alone
  <2> QED
    BY <1>1, <1>2, <1>3, <1>5, <2>1 DEF NodeIsOwn
<1>6. ASSUME NEW q \in Runs, q # r PROVE RunInv(q)'
  <2>1. PICK y : y = run[q]
    OBVIOUS
  <2>2. run[q] = y /\ run'[q] = y /\ RunInv(q)
    BY <1>1, <1>6, <2>1 DEF ResearchInv
  <2>3. \A k : <<k, q>> \in journaled' <=> <<k, q>> \in journaled
    BY <1>6
  <2>4. y.at = "writing" => y.file - 1 \in 0..5
    BY <2>2 DEF RunInv, RunShape
  <2>5. \A n \in 0..5 : Stored(q, n) => Stored(q, n)'
    BY <1>4, <1>6
  <2>6. y.at = "writing" => Stored(q, y.file - 1)'
    BY <2>2, <2>4, <2>5 DEF RunInv
  <2>7. /\ y.at \in {"reading", "noting", "closing"} => Stored(q, 5)'
        /\ <<"completed", q>> \in journaled' => Stored(q, 5)'
    BY <2>2, <2>3, <2>5 DEF RunInv
  <2>8. NodeIsOwn(q) => NodeIsOwn(q)'
    BY <1>5, <1>6
  <2>9. /\ RunShape(y)
        /\ y.at \in Working \ {"telling"} => <<"requested", q>> \in journaled
        /\ y.at = "reading" /\ Alone(q) =>
             (y.file > 1 => y.findings = q) /\ (y.file > 3 => y.report = q)
        /\ y.at = "noting" => NodeIsOwn(q)
        /\ y.at = "closing" => (graph => <<"node", q>> \in journaled /\ NodeIsOwn(q))
        /\ <<"completed", q>> \in journaled =>
             /\ y.at = "answered" /\ <<"requested", q>> \in journaled
             /\ graph => <<"node", q>> \in journaled /\ NodeIsOwn(q)
    BY <2>2 DEF RunInv
  <2>10. Alone(q)' <=> Alone(q)
    BY <1>2
  <2> QED
    BY <2>2, <2>3, <2>6, <2>7, <2>8, <2>9, <2>10 DEF RunInv
<1> QED
  BY <1>1, <1>2, <1>4, <1>6

\* A request moves on without a word and without a file.
LEMMA MoveKept ==
  ASSUME ResearchInv, NEW r \in Runs, NEW at \in {"refused", "failed"}, Move(r, at),
         run[r].at # "answered", UNCHANGED <<folder, node, journaled, graph>>
  PROVE  ResearchInv'
<1>1. PICK x : x = [run[r] EXCEPT !.at = at]
  OBVIOUS
<1>2. RunInv(r)
  BY DEF ResearchInv
<1>3. /\ run' = [run EXCEPT ![r] = x] /\ x.id = run[r].id /\ x.at = at /\ x.id \in Ids
      /\ {"at", "id"} \subseteq DOMAIN x
  BY <1>1, <1>2 DEF Move, RunInv, RunShape
<1>4. \A q \in Runs : q # r => RunInv(q)'
  BY <1>3, OthersKept
<1>5. run'[r] = x /\ DOMAIN run' = Runs
  BY <1>3 DEF ResearchInv
<1>6. RunShape(x)
  BY <1>3 DEF RunShape
<1>7. <<"completed", r>> \notin journaled
  BY <1>2 DEF RunInv
<1>8. RunInv(r)'
  BY <1>3, <1>5, <1>6, <1>7 DEF RunInv, Working
<1> QED
  BY <1>4, <1>5, <1>8 DEF ResearchInv

LEMMA BeginResearchKept == ASSUME ResearchInv, NEW r \in Runs, BeginResearch(r) PROVE ResearchInv'
<1>1. PICK keys \in Credentials :
        run' = [run EXCEPT ![r] =
          IF SelectProvider(keys) = "none" THEN [at |-> "refused", id |-> run[r].id]
          ELSE [at |-> "telling", id |-> run[r].id, provider |-> SelectProvider(keys)]]
  BY DEF BeginResearch
<1>2. PICK x : x = IF SelectProvider(keys) = "none" THEN [at |-> "refused", id |-> run[r].id]
                   ELSE [at |-> "telling", id |-> run[r].id, provider |-> SelectProvider(keys)]
  OBVIOUS
<1>3. /\ RunInv(r) /\ run[r].at = "idle" /\ UNCHANGED <<folder, node, journaled, graph>>
  BY DEF ResearchInv, BeginResearch
<1>4. /\ run' = [run EXCEPT ![r] = x] /\ x.id = run[r].id /\ x.at \in {"refused", "telling"}
      /\ x.id \in Ids /\ {"at", "id"} \subseteq DOMAIN x
  BY <1>1, <1>2, <1>3 DEF RunInv, RunShape
<1>5. \A q \in Runs : q # r => RunInv(q)'
  BY <1>3, <1>4, OthersKept
<1>6. run'[r] = x /\ DOMAIN run' = Runs
  BY <1>4 DEF ResearchInv
<1>7. RunShape(x)
  BY <1>4 DEF RunShape, Working
<1>8. <<"completed", r>> \notin journaled
  BY <1>3 DEF RunInv
<1>9. RunInv(r)'
  BY <1>3, <1>4, <1>6, <1>7, <1>8 DEF RunInv, Working
<1> QED
  BY <1>3, <1>5, <1>6, <1>9 DEF ResearchInv

LEMMA TellRequestedKept ==
  ASSUME ResearchInv, NEW r \in Runs, TellRequested(r), Move(r, "calling") PROVE ResearchInv'
<1>1. PICK x : x = [run[r] EXCEPT !.at = "calling"]
  OBVIOUS
<1>2. /\ RunInv(r) /\ run[r].at = "telling" /\ UNCHANGED <<folder, node, graph>>
  BY DEF ResearchInv, TellRequested
<1>3. /\ run' = [run EXCEPT ![r] = x] /\ x.id = run[r].id /\ x.at = "calling" /\ x.id \in Ids
      /\ {"at", "id"} \subseteq DOMAIN x
  BY <1>1, <1>2 DEF Move, RunInv, RunShape
<1>4. run'[r] = x /\ DOMAIN run' = Runs
  BY <1>3 DEF ResearchInv
<1>5. journaled' = journaled \union {<<"requested", r>>}
  <2>1. ~Move(r, "failed")
    <3>1. Move(r, "failed") => run'[r].at = "failed"
      BY <1>2 DEF Move, ResearchInv, RunInv, RunShape
    <3> QED
      BY <3>1, <1>3, <1>4
  <2> QED
    BY <2>1 DEF TellRequested
<1>6. \A q \in Runs : q # r => RunInv(q)'
  BY <1>2, <1>3, <1>5, OthersKept
<1>7. RunShape(x)
  BY <1>3 DEF RunShape, Working
<1>8. <<"completed", r>> \notin journaled'
  BY <1>2, <1>5 DEF RunInv
<1>9. RunInv(r)'
  BY <1>3, <1>4, <1>5, <1>7, <1>8 DEF RunInv
<1>10. journaled' \subseteq {"requested", "node", "completed"} \X Runs
  BY <1>5 DEF ResearchInv
<1> QED
  BY <1>2, <1>4, <1>6, <1>9, <1>10 DEF ResearchInv

\* The provider is called or polled.
LEMMA ProviderKept ==
  ASSUME ResearchInv, NEW r \in Runs, run[r].at \in {"calling", "polling"}, NEW x,
         run' = [run EXCEPT ![r] = x],
         x = Received(run[r].id) \/ (x.at = "polling" /\ x.id = run[r].id /\ {"at", "id"} \subseteq DOMAIN x),
         UNCHANGED <<folder, node, journaled, graph>>
  PROVE  ResearchInv'
<1>1. RunInv(r) /\ run[r].id \in Ids
  BY DEF ResearchInv, RunInv, RunShape
<1>2. /\ RunShape(x) /\ x.id = run[r].id /\ x.at \in {"polling", "writing"}
      /\ x.at = "writing" => x.file = 1
  <2>1. CASE x = Received(run[r].id)
    <3>1. /\ x \in [at : {"writing"}, id : Ids, file : 1..6, open : BOOLEAN] /\ x.file = 1
          /\ x.id = run[r].id /\ x.at = "writing" /\ {"at", "id"} \subseteq DOMAIN x
      BY <1>1, <2>1 DEF Received
    <3> QED
      BY <1>1, <3>1 DEF RunShape, Working
  <2>2. CASE x # Received(run[r].id)
    BY <1>1, <2>2 DEF RunShape, Working
  <2> QED
    BY <2>1, <2>2
<1>3. \A q \in Runs : q # r => RunInv(q)'
  BY <1>2, OthersKept
<1>4. run'[r] = x /\ DOMAIN run' = Runs
  BY DEF ResearchInv
<1>5. <<"completed", r>> \notin journaled /\ <<"requested", r>> \in journaled
  BY <1>1 DEF RunInv, Working
<1>6. x.at = "writing" => Stored(r, x.file - 1)'
  BY <1>2 DEF Stored
<1>7. RunInv(r)'
  BY <1>2, <1>4, <1>5, <1>6 DEF RunInv
<1> QED
  BY <1>3, <1>4, <1>7 DEF ResearchInv

LEMMA WriteResearchFileKept ==
  ASSUME ResearchInv, NEW r \in Runs, WriteResearchFile(r), ~Move(r, "failed") PROVE ResearchInv'
<1>1. PICK id : id = run[r].id
  OBVIOUS
<1>2. PICK y : y = run[r]
  OBVIOUS
<1>3. /\ RunInv(r) /\ y.at = "writing" /\ y.file <= 5 /\ y.id = id /\ id \in Ids
      /\ y \in [at : {"writing"}, id : Ids, file : 1..6, open : BOOLEAN]
      /\ UNCHANGED <<node, journaled, graph>>
  BY <1>1, <1>2, FilesFacts DEF WriteResearchFile, ResearchInv, RunInv, RunShape
<1>4. PICK f : f = Files[y.file]
  OBVIOUS
<1>5. f \in FileNames /\ y.file \in 1..5
  BY <1>3, <1>4, FilesFacts
<1>6. PICK x : x = [y EXCEPT !.open = ~y.open, !.file = IF y.open THEN y.file + 1 ELSE y.file]
  OBVIOUS
<1>7. /\ folder' = [folder EXCEPT ![id][f] = [run |-> r, whole |-> y.open]]
      /\ run' = [run EXCEPT ![r] = x]
  BY <1>1, <1>2, <1>4, <1>6 DEF WriteResearchFile
<1>8. /\ x \in [at : {"writing"}, id : Ids, file : 1..6, open : BOOLEAN] /\ x.at = "writing"
      /\ x.id = id /\ x.file = (IF y.open THEN y.file + 1 ELSE y.file)
  <2>1. PICK n : n = IF y.open THEN y.file + 1 ELSE y.file
    OBVIOUS
  <2>2. n \in 1..6
    BY <1>5, <2>1
  <2>3. x = [at |-> "writing", id |-> id, file |-> n, open |-> ~y.open]
    BY <1>3, <1>6, <2>1
  <2>4. (~y.open) \in BOOLEAN
    OBVIOUS
  <2> QED
    BY <1>3, <2>1, <2>2, <2>3, <2>4
<1>9. RunShape(x)
  BY <1>8 DEF RunShape, Working
<1>10. run'[r] = x /\ DOMAIN run' = Runs
  BY <1>7 DEF ResearchInv
<1>11. PICK e : e = [run |-> r, whole |-> y.open]
  OBVIOUS
<1>12. e \in FileStates /\ e # Absent /\ (y.open => e = [run |-> r, whole |-> TRUE])
  BY <1>3, <1>11, ResearchAssumption DEF FileStates, Absent, RunNames
<1>13. folder \in [Ids -> [FileNames -> FileStates]] /\ folder' = [folder EXCEPT ![id][f] = e]
  BY <1>7, <1>11 DEF ResearchInv
<1>14. folder' \in [Ids -> [FileNames -> FileStates]]
  BY <1>3, <1>5, <1>12, <1>13
<1>15. \A i \in Ids, g \in FileNames :
         folder'[i][g] = IF i = id /\ g = f THEN e ELSE folder[i][g]
  BY <1>3, <1>5, <1>13
<1>16. /\ \A q \in Runs : run'[q].id = run[q].id /\ (Alone(q)' <=> Alone(q))
       /\ \A q \in Runs : q # r => RunInv(q)'
  <2>1. x.id = run[r].id /\ run' = [run EXCEPT ![r] = x]
    BY <1>1, <1>7, <1>8
  <2>2. e # Absent
    BY <1>12
  <2>3. \A i \in Ids, g \in FileNames :
          folder'[i][g] = folder[i][g] \/ (i = run[r].id /\ folder'[i][g] # Absent)
    BY <1>1, <1>15, <2>2
  <2>4. \A i \in Ids : node'[i] = node[i] \/ i = run[r].id
    BY <1>3
  <2>5. /\ journaled \subseteq journaled'
        /\ \A k, q : <<k, q>> \in journaled' => <<k, q>> \in journaled \/ q = r
        /\ UNCHANGED graph
    BY <1>3
  <2> QED
    BY <2>1, <2>3, <2>4, <2>5, OthersKept
<1>17. Stored(r, x.file - 1)'
  <2>1. ASSUME NEW i \in 1..(x.file - 1)
        PROVE  /\ folder'[id][Files[i]] # Absent
               /\ Alone(r) => folder'[id][Files[i]] = [run |-> r, whole |-> TRUE]
    <3>1. i \in 1..5 /\ Files[i] \in FileNames /\ (i = y.file \/ i \in 1..(y.file - 1))
      BY <1>5, <1>8, FilesFacts
    <3>2. CASE i = y.file
      <4>1. y.open
        BY <1>5, <1>8, <2>1, <3>2
      <4> QED
        BY <1>3, <1>4, <1>5, <1>12, <1>15, <3>2, <4>1
    <3>3. CASE i \in 1..(y.file - 1)
      <4>1. Files[i] # f
        BY <1>4, <1>5, <3>1, <3>3, FilesFacts
      <4>2. folder'[id][Files[i]] = folder[id][Files[i]]
        BY <1>3, <1>15, <3>1, <4>1
      <4>3. Stored(r, y.file - 1)
        BY <1>2, <1>3 DEF RunInv
      <4> QED
        BY <1>1, <3>3, <4>2, <4>3 DEF Stored
    <3> QED
      BY <3>1, <3>2, <3>3
  <2>2. run'[r].id = id
    BY <1>8, <1>10
  <2> QED
    BY <1>16, <2>1, <2>2 DEF Stored
<1>18. <<"completed", r>> \notin journaled /\ <<"requested", r>> \in journaled
  BY <1>2, <1>3 DEF RunInv, Working
<1>19. RunInv(r)'
  BY <1>3, <1>8, <1>9, <1>10, <1>17, <1>18 DEF RunInv
<1> QED
  BY <1>3, <1>10, <1>14, <1>16, <1>19 DEF ResearchInv

LEMMA BeginNodeKept == ASSUME ResearchInv, NEW r \in Runs, BeginNode(r) PROVE ResearchInv'
<1>1. PICK y : y = run[r]
  OBVIOUS
<1>2. /\ RunInv(r) /\ y.at = "writing" /\ y.file > 5 /\ y.id \in Ids
      /\ y \in [at : {"writing"}, id : Ids, file : 1..6, open : BOOLEAN]
      /\ UNCHANGED <<folder, node, journaled, graph>>
  BY <1>1, FilesFacts DEF BeginNode, ResearchInv, RunInv, RunShape
<1>3. y.file = 6 /\ y.file - 1 = 5
  BY <1>2
<1>4. Stored(r, 5)
  BY <1>1, <1>2, <1>3 DEF RunInv
<1>5. PICK x : x = IF graph THEN [at |-> "reading", id |-> y.id, file |-> 1,
                                  findings |-> "none", report |-> "none"]
                   ELSE [at |-> "closing", id |-> y.id]
  OBVIOUS
<1>6. run' = [run EXCEPT ![r] = x]
  BY <1>1, <1>5 DEF BeginNode
<1>7. /\ RunShape(x) /\ x.id = y.id /\ x.at = (IF graph THEN "reading" ELSE "closing")
      /\ x.at = "reading" => x.file = 1
  <2>1. CASE graph
    <3>1. /\ x \in [at : {"reading"}, id : Ids, file : 1..5, findings : RunNames, report : RunNames]
          /\ x.at = "reading" /\ x.id = y.id /\ x.file = 1 /\ {"at", "id"} \subseteq DOMAIN x
      BY <1>2, <1>5, <2>1 DEF RunNames
    <3> QED
      BY <1>2, <2>1, <3>1 DEF RunShape, Working
  <2>2. CASE ~graph
    BY <1>2, <1>5, <2>2 DEF RunShape, Working
  <2> QED
    BY <2>1, <2>2
<1>8. /\ \A q \in Runs : run'[q].id = run[q].id /\ (Alone(q)' <=> Alone(q))
      /\ \A q \in Runs : q # r => RunInv(q)'
  BY <1>1, <1>2, <1>6, <1>7, OthersKept
<1>9. run'[r] = x /\ DOMAIN run' = Runs
  BY <1>6 DEF ResearchInv
<1>10. Stored(r, 5)'
  BY <1>2, <1>4, <1>8 DEF Stored
<1>11. <<"completed", r>> \notin journaled /\ <<"requested", r>> \in journaled
  BY <1>1, <1>2 DEF RunInv, Working
<1>12. RunInv(r)'
  BY <1>2, <1>7, <1>9, <1>10, <1>11 DEF RunInv
<1> QED
  BY <1>2, <1>8, <1>9, <1>12 DEF ResearchInv

LEMMA ReadResearchFileKept ==
  ASSUME ResearchInv, NEW r \in Runs, ReadResearchFile(r), ~Move(r, "failed") PROVE ResearchInv'
<1>1. PICK y : y = run[r]
  OBVIOUS
<1>2. /\ RunInv(r) /\ y.at = "reading" /\ y.file \in 1..4 /\ y.id \in Ids
      /\ y \in [at : {"reading"}, id : Ids, file : 1..5, findings : RunNames, report : RunNames]
      /\ UNCHANGED <<folder, node, journaled, graph>>
  <2>1. RunInv(r) /\ RunShape(y)
    BY <1>1 DEF ResearchInv, RunInv
  <2>2. y.at = "reading" /\ y.file <= 4 /\ UNCHANGED <<folder, node, journaled, graph>>
    BY <1>1, ReadBackFacts DEF ReadResearchFile
  <2> QED
    BY <2>1, <2>2 DEF RunShape
<1>3. PICK f : f = ReadBack[y.file]
  OBVIOUS
<1>4. PICK have : have = folder[y.id][f]
  OBVIOUS
<1>5. PICK x : x = [f2 \in DOMAIN y |-> IF f2 = f THEN have.run
                                        ELSE IF f2 = "file" THEN y.file + 1 ELSE y[f2]]
  OBVIOUS
<1>6. run' = [run EXCEPT ![r] = x]
  BY <1>1, <1>2, <1>3, <1>4, <1>5 DEF ReadResearchFile
<1>7. /\ f \in {"findings", "metadata", "report", "sources"}
      /\ y.file = 1 <=> f = "findings"
      /\ y.file = 3 <=> f = "report"
      /\ f \in FileNames
  BY <1>2, <1>3, ReadBackFacts, FilesFacts
<1>8. have \in FileStates
  BY <1>2, <1>4, <1>7 DEF ResearchInv
<1>9. DOMAIN y = {"at", "id", "file", "findings", "report"}
  BY <1>2
<1>10. PICK a, b : /\ a = (IF f = "findings" THEN have.run ELSE y.findings)
                  /\ b = (IF f = "report" THEN have.run ELSE y.report)
  OBVIOUS
<1>11. have.run \in RunNames /\ a \in RunNames /\ b \in RunNames /\ y.file + 1 \in 1..5
  <2>1. have.run \in RunNames
    BY <1>8 DEF FileStates
  <2>2. y.findings \in RunNames /\ y.report \in RunNames
    BY <1>2
  <2> QED
    BY <1>2, <1>10, <2>1, <2>2
<1>12. /\ x["at"] = "reading" /\ x["id"] = y.id /\ x["file"] = y.file + 1
       /\ x["findings"] = a /\ x["report"] = b
       /\ DOMAIN x = {"at", "id", "file", "findings", "report"}
  BY <1>2, <1>5, <1>7, <1>9, <1>10
<1>13. /\ x.at = "reading" /\ x.id = y.id /\ x.file = y.file + 1
       /\ x.findings = a /\ x.report = b
  BY <1>12
<1>14. x = [at |-> "reading", id |-> y.id, file |-> y.file + 1, findings |-> a, report |-> b]
  <2>1. x = [z \in {"at", "id", "file", "findings", "report"} |-> x[z]]
    BY <1>5, <1>12
  <2> QED
    BY <1>12, <2>1
<1>15. /\ RunShape(x) /\ x.at = "reading" /\ x.id = run[r].id
  <2>1. x \in [at : {"reading"}, id : Ids, file : 1..5, findings : RunNames, report : RunNames]
    BY <1>2, <1>11, <1>14
  <2> QED
    BY <1>1, <1>2, <1>12, <1>13, <2>1 DEF RunShape, Working
<1>16. /\ \A q \in Runs : run'[q].id = run[q].id /\ (Alone(q)' <=> Alone(q))
       /\ \A q \in Runs : q # r => RunInv(q)'
  BY <1>2, <1>6, <1>15, OthersKept
<1>17. run'[r] = x /\ DOMAIN run' = Runs
  BY <1>6 DEF ResearchInv
<1>18. Stored(r, 5)
  BY <1>1, <1>2 DEF RunInv
<1>19. Stored(r, 5)'
  BY <1>2, <1>16, <1>18 DEF Stored
<1>20. ASSUME Alone(r) PROVE have.run = r
  <2>1. PICK i \in 1..5 : f = Files[i]
    BY <1>7, FilesFacts
  <2>2. have = [run |-> r, whole |-> TRUE]
    BY <1>1, <1>4, <1>18, <1>20, <2>1 DEF Stored
  <2> QED
    BY <2>2
<1>21. ASSUME Alone(r)
       PROVE (x.file > 1 => x.findings = r) /\ (x.file > 3 => x.report = r)
  <2>1. (y.file > 1 => y.findings = r) /\ (y.file > 3 => y.report = r)
    BY <1>1, <1>2, <1>21 DEF RunInv
  <2> QED
    BY <1>2, <1>7, <1>10, <1>13, <1>20, <1>21, <2>1
<1>22. <<"completed", r>> \notin journaled /\ <<"requested", r>> \in journaled
  BY <1>1, <1>2 DEF RunInv, Working
<1>23. RunInv(r)'
  BY <1>2, <1>15, <1>16, <1>17, <1>19, <1>21, <1>22 DEF RunInv
<1> QED
  BY <1>2, <1>16, <1>17, <1>23 DEF ResearchInv

LEMMA WriteNodeKept ==
  ASSUME ResearchInv, NEW r \in Runs, WriteNode(r), ~Move(r, "failed") PROVE ResearchInv'
<1>1. PICK y : y = run[r]
  OBVIOUS
<1>2. /\ RunInv(r) /\ y.at = "reading" /\ y.file = 5 /\ y.id \in Ids
      /\ y \in [at : {"reading"}, id : Ids, file : 1..5, findings : RunNames, report : RunNames]
      /\ UNCHANGED <<folder, journaled, graph>>
  <2>1. RunInv(r) /\ RunShape(y)
    BY <1>1 DEF ResearchInv, RunInv
  <2>2. y.at = "reading" /\ y.file > 4 /\ UNCHANGED <<folder, journaled, graph>>
    BY <1>1, ReadBackFacts DEF WriteNode
  <2> QED
    BY <2>1, <2>2 DEF RunShape
<1>3. PICK x : x = [at |-> "noting", id |-> y.id]
  OBVIOUS
<1>4. PICK z : z = [findings |-> y.findings, report |-> y.report]
  OBVIOUS
<1>5. /\ node' = [node EXCEPT ![y.id] = z] /\ run' = [run EXCEPT ![r] = x]
      /\ z \in [findings : RunNames, report : RunNames]
  <2>1. y.findings \in RunNames /\ y.report \in RunNames
    BY <1>2
  <2> QED
    BY <1>1, <1>3, <1>4, <2>1 DEF WriteNode
<1>6. /\ x.at = "noting" /\ x.id = run[r].id /\ x.id \in Ids /\ RunShape(x)
  BY <1>1, <1>2, <1>3 DEF RunShape, Working
<1>7. node' \in [Ids -> [findings : RunNames, report : RunNames]]
  BY <1>2, <1>5 DEF ResearchInv
<1>8. \A id \in Ids : node'[id] = IF id = y.id THEN z ELSE node[id]
  BY <1>5 DEF ResearchInv
<1>9. /\ \A q \in Runs : run'[q].id = run[q].id /\ (Alone(q)' <=> Alone(q))
      /\ \A q \in Runs : q # r => RunInv(q)'
  <2>1. \A id \in Ids : node'[id] = node[id] \/ id = run[r].id
    BY <1>1, <1>8
  <2>2. \A id \in Ids, f \in FileNames :
          folder'[id][f] = folder[id][f] \/ (id = run[r].id /\ folder'[id][f] # Absent)
    BY <1>2
  <2>3. /\ journaled \subseteq journaled'
        /\ \A k, q : <<k, q>> \in journaled' => <<k, q>> \in journaled \/ q = r
        /\ UNCHANGED graph
    BY <1>2
  <2> QED
    BY <1>5, <1>6, <2>1, <2>2, <2>3, OthersKept
<1>10. run'[r] = x /\ DOMAIN run' = Runs
  BY <1>5 DEF ResearchInv
<1>11. Stored(r, 5)'
  BY <1>1, <1>2, <1>9 DEF RunInv, Stored
<1>12. NodeIsOwn(r)'
  <2>1. Alone(r) => y.findings = r /\ y.report = r
    BY <1>1, <1>2 DEF RunInv
  <2> QED
    BY <1>1, <1>2, <1>4, <1>8, <1>9, <2>1 DEF NodeIsOwn
<1>13. <<"completed", r>> \notin journaled /\ <<"requested", r>> \in journaled
  BY <1>1, <1>2 DEF RunInv, Working
<1>14. RunInv(r)'
  BY <1>2, <1>6, <1>10, <1>11, <1>12, <1>13 DEF RunInv
<1> QED
  BY <1>2, <1>7, <1>9, <1>10, <1>14 DEF ResearchInv

LEMMA TellNodeKept ==
  ASSUME ResearchInv, NEW r \in Runs, TellNode(r), ~Move(r, "failed") PROVE ResearchInv'
<1>1. PICK x : x = [run[r] EXCEPT !.at = "closing"]
  OBVIOUS
<1>2. /\ RunInv(r) /\ run[r].at = "noting" /\ UNCHANGED <<folder, node, graph>>
      /\ journaled' = journaled \union {<<"node", r>>}
  BY DEF ResearchInv, TellNode
<1>3. /\ run' = [run EXCEPT ![r] = x] /\ x.id = run[r].id /\ x.at = "closing" /\ x.id \in Ids
      /\ {"at", "id"} \subseteq DOMAIN x
  BY <1>1, <1>2 DEF TellNode, Move, RunInv, RunShape
<1>4. run'[r] = x /\ DOMAIN run' = Runs
  BY <1>3 DEF ResearchInv
<1>5. /\ \A q \in Runs : run'[q].id = run[q].id /\ (Alone(q)' <=> Alone(q))
      /\ \A q \in Runs : q # r => RunInv(q)'
  BY <1>2, <1>3, OthersKept
<1>6. RunShape(x)
  BY <1>3 DEF RunShape, Working
<1>7. Stored(r, 5)' /\ NodeIsOwn(r)'
  BY <1>2, <1>5 DEF RunInv, Stored, NodeIsOwn
<1>8. <<"completed", r>> \notin journaled' /\ <<"requested", r>> \in journaled'
  BY <1>2 DEF RunInv, Working
<1>9. RunInv(r)'
  BY <1>2, <1>3, <1>4, <1>6, <1>7, <1>8 DEF RunInv
<1>10. journaled' \subseteq {"requested", "node", "completed"} \X Runs
  BY <1>2 DEF ResearchInv
<1> QED
  BY <1>2, <1>4, <1>5, <1>9, <1>10 DEF ResearchInv

LEMMA TellCompletedKept ==
  ASSUME ResearchInv, NEW r \in Runs, TellCompleted(r), ~Move(r, "failed") PROVE ResearchInv'
<1>1. PICK x : x = [run[r] EXCEPT !.at = "answered"]
  OBVIOUS
<1>2. /\ RunInv(r) /\ run[r].at = "closing" /\ UNCHANGED <<folder, node, graph>>
      /\ journaled' = journaled \union {<<"completed", r>>}
  BY DEF ResearchInv, TellCompleted
<1>3. /\ run' = [run EXCEPT ![r] = x] /\ x.id = run[r].id /\ x.at = "answered" /\ x.id \in Ids
      /\ {"at", "id"} \subseteq DOMAIN x
  BY <1>1, <1>2 DEF TellCompleted, Move, RunInv, RunShape
<1>4. run'[r] = x /\ DOMAIN run' = Runs
  BY <1>3 DEF ResearchInv
<1>5. /\ \A q \in Runs : run'[q].id = run[q].id /\ (Alone(q)' <=> Alone(q))
      /\ \A q \in Runs : q # r => RunInv(q)'
  BY <1>2, <1>3, OthersKept
<1>6. RunShape(x)
  BY <1>3 DEF RunShape
<1>7. /\ Stored(r, 5)' /\ <<"requested", r>> \in journaled'
      /\ graph' => <<"node", r>> \in journaled' /\ NodeIsOwn(r)'
  BY <1>2, <1>5 DEF RunInv, Stored, NodeIsOwn, Working
<1>8. RunInv(r)'
  BY <1>3, <1>4, <1>6, <1>7 DEF RunInv, Working
<1>9. journaled' \subseteq {"requested", "node", "completed"} \X Runs
  BY <1>2 DEF ResearchInv
<1> QED
  BY <1>2, <1>4, <1>5, <1>8, <1>9 DEF ResearchInv

LEMMA ResearchCrashKept == ASSUME ResearchInv, ResearchCrash PROVE ResearchInv'
<1>1. /\ run' = [r \in Runs |-> IF run[r].at \in Working
                                  THEN [at |-> "failed", id |-> run[r].id] ELSE run[r]]
      /\ UNCHANGED <<folder, node, journaled, graph>>
  BY DEF ResearchCrash
<1>2. \A r \in Runs : run'[r].id = run[r].id
  BY <1>1
<1>3. ASSUME NEW r \in Runs PROVE RunInv(r)'
  <2>1. RunInv(r)
    BY DEF ResearchInv
  <2>2. Alone(r)' <=> Alone(r)
    BY <1>2 DEF Alone
  <2>3. Stored(r, 5)' <=> Stored(r, 5)
    BY <1>1, <1>2, <2>2 DEF Stored
  <2>4. NodeIsOwn(r)' <=> NodeIsOwn(r)
    BY <1>1, <1>2, <2>2 DEF NodeIsOwn
  <2>5. CASE run[r].at \in Working
    <3>1. PICK x : x = [at |-> "failed", id |-> run[r].id]
      OBVIOUS
    <3>2. run'[r] = x /\ x.at = "failed" /\ x.id \in Ids /\ RunShape(x)
      BY <1>1, <2>1, <2>5, <3>1 DEF RunInv, RunShape
    <3>3. <<"completed", r>> \notin journaled
      BY <2>1, <2>5 DEF RunInv, Working
    <3> QED
      BY <1>1, <3>2, <3>3 DEF RunInv, Working
  <2>6. CASE run[r].at \notin Working
    <3>1. run'[r] = run[r]
      BY <1>1, <2>6
    <3> QED
      BY <1>1, <2>1, <2>2, <2>3, <2>4, <2>6, <3>1 DEF RunInv, RunShape, Working
  <2> QED
    BY <2>5, <2>6
<1> QED
  BY <1>1, <1>3 DEF ResearchInv

LEMMA ResearchInvKept == ResearchInv /\ [ResearchNext]_researchVars => ResearchInv'
<1> SUFFICES ASSUME ResearchInv, [ResearchNext]_researchVars PROVE ResearchInv'
  OBVIOUS
<1>1. CASE UNCHANGED researchVars
  <2>1. UNCHANGED <<run, folder, node, journaled, graph>>
    BY <1>1 DEF researchVars
  <2>2. ASSUME NEW r \in Runs PROVE RunInv(r)'
    <3>1. RunInv(r)
      BY DEF ResearchInv
    <3>2. Alone(r)' <=> Alone(r)
      BY <2>1 DEF Alone
    <3>3. NodeIsOwn(r)' <=> NodeIsOwn(r)
      BY <2>1, <3>2 DEF NodeIsOwn
    <3>4. ASSUME NEW n PROVE Stored(r, n) => \A i \in 1..n :
            /\ folder'[run'[r].id][Files[i]] # Absent
            /\ Alone(r)' => folder'[run'[r].id][Files[i]] = [run |-> r, whole |-> TRUE]
      BY <2>1, <3>2 DEF Stored
    <3>5. run[r].at = "writing" => Stored(r, run[r].file - 1)'
      BY <2>1, <3>1, <3>4 DEF RunInv, Stored
    <3>6. Stored(r, 5) => Stored(r, 5)'
      BY <2>1, <3>4 DEF Stored
    <3> QED
      BY <2>1, <3>1, <3>2, <3>3, <3>5, <3>6 DEF RunInv
  <2> QED
    BY <2>1, <2>2 DEF ResearchInv
<1>2. CASE ResearchCrash
  BY <1>2, ResearchCrashKept
<1>3. ASSUME NEW r \in Runs, RefuseResearch(r) \/ BeginResearch(r) \/ ResearchStep(r)
      PROVE ResearchInv'
  <2>1. CASE BeginResearch(r)
    BY <2>1, BeginResearchKept
  <2>2. CASE RefuseResearch(r)
    <3>1. Move(r, "refused") /\ UNCHANGED <<folder, node, journaled, graph>> /\ run[r].at = "idle"
      BY <2>2 DEF RefuseResearch
    <3> QED
      BY <3>1, MoveKept
  <2>3. CASE ResearchStep(r)
    <3>0. RunInv(r)
      BY DEF ResearchInv
    <3>1. CASE ProviderFails(r) \/ Move(r, "failed")
      <4>1. /\ Move(r, "failed") /\ run[r].at # "answered" /\ UNCHANGED graph
        BY <2>3, <3>1
        DEF ResearchStep, TellRequested, CallProvider, PollProvider, ProviderFails,
           WriteResearchFile, BeginNode, ReadResearchFile, WriteNode, TellNode, TellCompleted
      <4>2. run' = [run EXCEPT ![r].at = "failed"] /\ run'[r].at = "failed"
        BY <3>0, <4>1 DEF Move, ResearchInv, RunInv, RunShape
      <4>3. UNCHANGED <<folder, node, journaled>>
        <5>1. CASE TellRequested(r)
          BY <4>2, <5>1, <3>0 DEF TellRequested, Move, ResearchInv, RunInv, RunShape
        <5>2. CASE WriteResearchFile(r)
          <6>1. run[r].at = "writing"
            BY <5>2 DEF WriteResearchFile
          <6> QED
            BY <4>2, <5>2, <6>1, <3>0
            DEF WriteResearchFile, ResearchInv, RunInv, RunShape
        <5>3. CASE WriteNode(r)
          BY <4>2, <5>3, <3>0 DEF WriteNode, ResearchInv
        <5>4. CASE TellNode(r)
          BY <4>2, <5>4, <3>0 DEF TellNode, Move, ResearchInv, RunInv, RunShape
        <5>5. CASE TellCompleted(r)
          BY <4>2, <5>5, <3>0 DEF TellCompleted, Move, ResearchInv, RunInv, RunShape
        <5>6. CASE CallProvider(r) \/ PollProvider(r) \/ ProviderFails(r) \/ BeginNode(r)
                   \/ ReadResearchFile(r)
          BY <5>6
          DEF CallProvider, PollProvider, ProviderFails, BeginNode, ReadResearchFile
        <5> QED
          BY <2>3, <5>1, <5>2, <5>3, <5>4, <5>5, <5>6 DEF ResearchStep
      <4> QED
        BY <4>1, <4>3, MoveKept
    <3>2. CASE ~Move(r, "failed")
      <4>1. CASE TellRequested(r)
        BY <3>2, <4>1, TellRequestedKept DEF TellRequested
      <4>2. CASE CallProvider(r)
        <5>1. PICK x : x = IF run[r].provider \in Polled
                    THEN [at |-> "polling", id |-> run[r].id, provider |-> run[r].provider,
                          attempt |-> 0]
                    ELSE Received(run[r].id)
          OBVIOUS
        <5>2. /\ run' = [run EXCEPT ![r] = x] /\ run[r].at = "calling"
              /\ UNCHANGED <<folder, node, journaled, graph>>
          BY <4>2, <5>1 DEF CallProvider
        <5>3. x = Received(run[r].id) \/ (x.at = "polling" /\ x.id = run[r].id
                                          /\ {"at", "id"} \subseteq DOMAIN x)
          BY <5>1
        <5> QED
          BY <5>2, <5>3, ProviderKept
      <4>3. CASE PollProvider(r)
        <5>1. run[r].at = "polling" /\ UNCHANGED <<folder, node, journaled, graph>>
          BY <4>3 DEF PollProvider
        <5>2. \/ run' = [run EXCEPT ![r] = Received(run[r].id)]
              \/ run' = [run EXCEPT ![r].attempt = run[r].attempt + 1]
          BY <3>2, <4>3 DEF PollProvider
        <5>3. CASE run' = [run EXCEPT ![r] = Received(run[r].id)]
          <6>1. PICK x : x = Received(run[r].id)
            OBVIOUS
          <6> QED
            BY <5>1, <5>3, <6>1, ProviderKept
        <5>4. CASE run' = [run EXCEPT ![r].attempt = run[r].attempt + 1]
          <6>1. PICK x : x = [run[r] EXCEPT !.attempt = run[r].attempt + 1]
            OBVIOUS
          <6>2. run' = [run EXCEPT ![r] = x] /\ x.at = "polling" /\ x.id = run[r].id
                /\ {"at", "id"} \subseteq DOMAIN x
            BY <3>0, <5>1, <5>4, <6>1 DEF RunInv, RunShape
          <6> QED
            BY <5>1, <6>2, ProviderKept
        <5> QED
          BY <5>2, <5>3, <5>4
      <4>4. CASE WriteResearchFile(r)
        BY <3>2, <4>4, WriteResearchFileKept
      <4>5. CASE BeginNode(r)
        BY <4>5, BeginNodeKept
      <4>6. CASE ReadResearchFile(r)
        BY <3>2, <4>6, ReadResearchFileKept
      <4>7. CASE WriteNode(r)
        BY <3>2, <4>7, WriteNodeKept
      <4>8. CASE TellNode(r)
        BY <3>2, <4>8, TellNodeKept
      <4>9. CASE TellCompleted(r)
        BY <3>2, <4>9, TellCompletedKept
      <4>10. ~ProviderFails(r)
        BY <3>2 DEF ProviderFails
      <4> QED
        BY <2>3, <4>1, <4>2, <4>3, <4>4, <4>5, <4>6, <4>7, <4>8, <4>9, <4>10
        DEF ResearchStep
    <3> QED
      BY <3>1, <3>2
  <2> QED
    BY <1>3, <2>1, <2>2, <2>3
<1> QED
  BY <1>1, <1>2, <1>3 DEF ResearchNext

-----------------------------------------------------------------------------
(***************************************************************************)
(* What is written to the knowledge graph.                                 *)
(***************************************************************************)
TakenWrites ==
  [at : {"loading", "running", "confirming", "failing", "notifying"}, w : Writes, attempts : Nat]
WorkShapes == [at : {"none"}] \union TakenWrites
ToldOutcomes ==
  [w : Writes, kind : {"confirmed", "failed"}, attempts : Nat, life : Nat]

\* The write at hand was taken by this process, and is told until it is told.
WorkInv ==
  work.at # "none" =>
    /\ work.w \in seen
    /\ work.at = "loading" => work.attempts = 0
    /\ work.at = "running" => work.attempts < MaxWriteTries
    /\ work.at = "confirming" => done[work.w] > 0
    /\ work.at \in {"failing", "notifying"} => work.attempts \in {0, MaxWriteTries}
    /\ IF work.at = "notifying"
         THEN \E o \in outcomes : o.w = work.w /\ o.life = life /\ o.kind = "failed"
         ELSE \A o \in outcomes : o.w = work.w => o.life # life

\* What has been told was told by this process of a write it has taken, or by one
\* before it.
WriteInv ==
  /\ inbox \in Seq(Writes) /\ seen \subseteq Writes /\ life \in 1..(MaxWriteEnds + 1)
  /\ done \in [Writes -> Nat] /\ outcomes \subseteq ToldOutcomes
  /\ work \in WorkShapes
  /\ \A o \in outcomes : o.life <= life /\ (o.life = life => o.w \in seen)
  /\ WorkInv /\ OutcomeIsTrue

LEMMA WriteStarts == WriteInit => WriteInv
<1> SUFFICES ASSUME WriteInit PROVE WriteInv
  OBVIOUS
<1>1. work \in WorkShapes /\ work.at = "none"
  BY DEF WriteInit, NoWork, WorkShapes, TakenWrites
<1> QED
  BY <1>1, WriteAssumption DEF WriteInit, WriteInv, WorkInv, OutcomeIsTrue

LEMMA WriteInvImplies == WriteInv => WriteTypeOK /\ OutcomeIsTrue
<1> SUFFICES ASSUME WriteInv PROVE WriteTypeOK /\ OutcomeIsTrue
  OBVIOUS
<1>1. work.at \in {"none", "loading", "running", "confirming", "failing", "notifying"}
  BY DEF WriteInv, WorkShapes, TakenWrites
<1> QED
  BY <1>1 DEF WriteInv, WriteTypeOK

\* The process ends.
LEMMA RebornKept ==
  ASSUME WriteInv, Reborn, UNCHANGED <<done, outcomes, humans>> PROVE WriteInv'
<1>1. work' \in WorkShapes /\ work'.at = "none"
  BY DEF Reborn, NoWork, WorkShapes, TakenWrites
<1>2. life \in Nat /\ life' = life + 1 /\ life' \in 1..(MaxWriteEnds + 1)
  BY WriteAssumption DEF Reborn, WriteInv
<1>3. \A o \in outcomes : o.life <= life /\ o.life \in Nat
  BY DEF WriteInv, ToldOutcomes
<1>4. OutcomeIsTrue'
  BY DEF WriteInv, OutcomeIsTrue
<1> QED
  BY <1>1, <1>2, <1>3, <1>4 DEF Reborn, WriteInv, WorkInv

LEMMA TakeWriteKept == ASSUME WriteInv, TakeWrite PROVE WriteInv'
<1>1. CASE Reborn
  BY <1>1, RebornKept DEF TakeWrite
<1>2. CASE ~Reborn
  <2>1. /\ inbox # <<>> /\ inbox' = Tail(inbox) /\ seen' = seen \union {Head(inbox)}
        /\ work' = IF Head(inbox) \in seen THEN NoWork
                   ELSE [at |-> "loading", w |-> Head(inbox), attempts |-> 0]
        /\ UNCHANGED <<done, outcomes, humans, life>>
    BY <1>2 DEF TakeWrite
  <2>2. Head(inbox) \in Writes /\ inbox' \in Seq(Writes)
    BY <2>1 DEF WriteInv
  <2>3. work' \in WorkShapes
    BY <2>1, <2>2 DEF WorkShapes, TakenWrites, NoWork
  <2>4. WorkInv'
    BY <2>1 DEF WorkInv, WriteInv, NoWork
  <2>5. OutcomeIsTrue'
    BY <2>1 DEF WriteInv, OutcomeIsTrue
  <2> QED
    BY <2>1, <2>2, <2>3, <2>4, <2>5 DEF WriteInv
<1> QED
  BY <1>1, <1>2

LEMMA TakenShape == ASSUME WriteInv, work.at # "none" PROVE work \in TakenWrites
BY DEF WriteInv, WorkShapes

LEMMA LoadWriteKept == ASSUME WriteInv, LoadWrite PROVE WriteInv'
<1>1. work \in TakenWrites /\ work.at = "loading"
  BY TakenShape DEF LoadWrite
<1>2. /\ work' \in TakenWrites /\ work'.at \in {"running", "failing"} /\ work'.w = work.w
      /\ work'.attempts = work.attempts
      /\ UNCHANGED <<unsettled, inbox, seen, done, outcomes, humans, life>>
  BY <1>1 DEF LoadWrite, TakenWrites
<1>3. WorkInv'
  BY <1>1, <1>2, WriteAssumption DEF WriteInv, WorkInv, MaxWriteTries
<1>4. OutcomeIsTrue'
  BY <1>2 DEF WriteInv, OutcomeIsTrue
<1> QED
  BY <1>2, <1>3, <1>4 DEF WriteInv, WorkShapes

LEMMA RunWriteKept == ASSUME WriteInv, RunWrite PROVE WriteInv'
<1>1. work \in TakenWrites /\ work.at = "running"
  BY TakenShape DEF RunWrite
<1>2. /\ work' \in TakenWrites /\ work'.w = work.w /\ work'.attempts = work.attempts + 1
      /\ work'.at \in {"running", "failing", "confirming"}
      /\ work'.at = "running" => work'.attempts # MaxWriteTries
      /\ work'.at = "failing" => work'.attempts = MaxWriteTries
  <2> DEFINE tried == [work EXCEPT !.attempts = work.attempts + 1]
  <2>1. /\ tried \in TakenWrites /\ tried.w = work.w /\ tried.attempts = work.attempts + 1
        /\ tried.at = "running"
    BY <1>1 DEF TakenWrites
  <2>2. \/ work' = [tried EXCEPT !.at = "confirming"]
        \/ /\ tried.attempts = MaxWriteTries
           /\ work' = [tried EXCEPT !.at = "failing"]
        \/ tried.attempts # MaxWriteTries /\ work' = tried
    BY DEF RunWrite
  <2> HIDE DEF tried
  <2> QED
    BY <2>1, <2>2 DEF TakenWrites
<1>3. /\ done' \in [Writes -> Nat] /\ \A w \in Writes : done'[w] >= done[w]
      /\ work'.at = "confirming" => done'[work.w] > 0
  <2>1. work.w \in Writes /\ done \in [Writes -> Nat]
    BY <1>1 DEF TakenWrites, WriteInv
  <2>2. done' = done \/ done' = [done EXCEPT ![work.w] = done[work.w] + 1]
    BY DEF RunWrite
  <2>3. work'.at = "confirming" => done' = [done EXCEPT ![work.w] = done[work.w] + 1]
    BY <1>1 DEF RunWrite, TakenWrites
  <2> QED
    BY <2>1, <2>2, <2>3
<1>4. UNCHANGED <<unsettled, inbox, seen, outcomes, humans, life>>
  BY DEF RunWrite
<1>5. WorkInv'
  <2>1. work.attempts \in Nat /\ work.attempts < MaxWriteTries /\ MaxWriteTries \in Nat
    BY <1>1, WriteAssumption DEF WriteInv, WorkInv, TakenWrites, MaxWriteTries
  <2> QED
    BY <1>1, <1>2, <1>3, <1>4, <2>1 DEF WriteInv, WorkInv
<1>6. OutcomeIsTrue'
  <2>1. \A o \in outcomes : o.w \in Writes
    BY DEF WriteInv, ToldOutcomes
  <2>2. \A o \in outcomes : done[o.w] \in Nat /\ done'[o.w] \in Nat /\ done'[o.w] >= done[o.w]
    BY <2>1, <1>3 DEF WriteInv
  <2> QED
    BY <1>4, <2>2 DEF WriteInv, OutcomeIsTrue
<1> QED
  BY <1>2, <1>3, <1>4, <1>5, <1>6 DEF WriteInv, WorkShapes

\* The outcome of the write at hand is told.
LEMMA OutcomeKept ==
  ASSUME WriteInv, work.at \in {"confirming", "failing"},
         NEW kind, kind = IF work.at = "confirming" THEN "confirmed" ELSE "failed",
         outcomes' = outcomes \union {Outcome(kind)},
         UNCHANGED <<inbox, seen, life, done, humans>>,
         \/ work' = NoWork
         \/ work.at = "failing" /\ work' = [work EXCEPT !.at = "notifying"]
  PROVE  WriteInv'
<1>1. work \in TakenWrites
  BY TakenShape
<1>2. PICK o : o = Outcome(kind)
  OBVIOUS
<1>3. /\ o \in ToldOutcomes /\ o.w = work.w /\ o.life = life /\ o.kind = kind
      /\ o.attempts = work.attempts
  BY <1>1, <1>2 DEF Outcome, TakenWrites, ToldOutcomes, WriteInv
<1>4. work' \in WorkShapes
  BY <1>1 DEF WorkShapes, TakenWrites, NoWork
<1>5. WorkInv'
  <2>1. CASE work'.at = "none"
    BY <2>1 DEF WorkInv
  <2>2. CASE work'.at # "none"
    <3>1. work'.at = "notifying" /\ work'.w = work.w /\ work'.attempts = work.attempts /\ work.at = "failing"
      BY <2>2, <1>1 DEF NoWork, TakenWrites
    <3> QED
      BY <3>1, <1>2, <1>3 DEF WriteInv, WorkInv
  <2> QED
    BY <2>1, <2>2
<1>6. OutcomeIsTrue'
  <2>1. \A q \in outcomes : ~(q.w = o.w /\ q.life = o.life)
    BY <1>3 DEF WriteInv, WorkInv
  <2>2. \A q \in outcomes' : q \in outcomes \/ q = o
    BY <1>2
  <2>3. \A q, r \in outcomes' : q.w = r.w /\ q.life = r.life => q = r
    BY <2>1, <2>2 DEF WriteInv, OutcomeIsTrue
  <2>4. IF o.kind = "confirmed" THEN done[o.w] > 0 ELSE o.attempts \in {0, MaxWriteTries}
    BY <1>3 DEF WriteInv, WorkInv
  <2>5. \A h \in humans : \E q \in outcomes' : q.w = h.w /\ q.life = h.life /\ q.kind = "failed"
    BY DEF WriteInv, OutcomeIsTrue
  <2> QED
    BY <2>2, <2>3, <2>4, <2>5 DEF WriteInv, OutcomeIsTrue
<1>7. o.life <= life' /\ (o.life = life' => o.w \in seen')
  BY <1>3 DEF WriteInv, WorkInv
<1> QED
  BY <1>2, <1>3, <1>4, <1>5, <1>6, <1>7 DEF WriteInv

LEMMA TellsKept == ASSUME WriteInv, TellConfirmed \/ TellFailed \/ TellHuman PROVE WriteInv'
<1>1. CASE Reborn /\ UNCHANGED <<done, outcomes, humans>>
  BY <1>1, RebornKept
<1>2. CASE TellConfirmed /\ ~(Reborn /\ UNCHANGED <<done, outcomes, humans>>)
  BY <1>2, OutcomeKept DEF TellConfirmed
<1>3. CASE TellFailed /\ ~(Reborn /\ UNCHANGED <<done, outcomes, humans>>)
  BY <1>3, OutcomeKept DEF TellFailed
<1>4. CASE TellHuman /\ ~(Reborn /\ UNCHANGED <<done, outcomes, humans>>)
  <2>1. /\ work.at = "notifying" /\ humans' = humans \union {[w |-> work.w, life |-> life]}
        /\ work' = NoWork /\ UNCHANGED <<inbox, seen, life, unsettled, done, outcomes>>
    BY <1>4 DEF TellHuman
  <2>2. work' \in WorkShapes /\ work'.at = "none"
    BY <2>1 DEF NoWork, WorkShapes
  <2>3. \E o \in outcomes : o.w = work.w /\ o.life = life /\ o.kind = "failed"
    BY <2>1 DEF WriteInv, WorkInv
  <2>4. OutcomeIsTrue'
    BY <2>1, <2>3 DEF WriteInv, OutcomeIsTrue
  <2> QED
    BY <2>1, <2>2, <2>4 DEF WriteInv, WorkInv
<1> QED
  BY <1>1, <1>2, <1>3, <1>4

LEMMA WriteInvKept == WriteInv /\ [WriteNext]_writeVars => WriteInv'
<1> SUFFICES ASSUME WriteInv, [WriteNext]_writeVars PROVE WriteInv'
  OBVIOUS
<1>1. CASE UNCHANGED writeVars
  BY <1>1 DEF writeVars, WriteInv, WorkInv, OutcomeIsTrue
<1>2. ASSUME NEW w \in Writes, LeavePending(w) PROVE WriteInv'
  BY <1>2 DEF LeavePending, WriteInv, WorkInv, OutcomeIsTrue
<1> QED
  BY <1>1, <1>2, TakeWriteKept, LoadWriteKept, RunWriteKept, TellsKept DEF WriteNext

-----------------------------------------------------------------------------
(***************************************************************************)
(* Merges and the nodes they may be about.                                 *)
(***************************************************************************)
Places == DOMAIN NodeOrder

Syncs ==
  [at : {"waiting"}, mode : {"live", "once"}, upto : Nat, inbox : Seq(Nat)] \union
  [at : {"telling"}, mode : {"live", "once"}, upto : Nat, inbox : Seq(Nat), merge : Nat,
   todo : SUBSET Places]

\* What is left to tell of the merge at hand, and of the journal.
SyncInv ==
  sync.at # "down" =>
    /\ sync \in Syncs /\ sync.upto <= Len(merges)
    /\ \A i \in DOMAIN sync.inbox : sync.inbox[i] \in 1..Len(merges)
    /\ sync.at = "telling" =>
         /\ sync.merge \in 1..Len(merges) /\ \A i \in sync.todo : Touches(sync.merge, i)
         /\ \A i \in Places : Touches(sync.merge, i) =>
              i \in sync.todo \/ <<sync.merge, NodeOrder[i]>> \in candidates
    /\ sync.mode = "once" =>
         /\ Len(sync.inbox) <= sync.upto
         /\ \A i \in DOMAIN sync.inbox : sync.inbox[i] = sync.upto - Len(sync.inbox) + i
         /\ \A m \in 1..(sync.upto - Len(sync.inbox)), i \in Places :
              Touches(m, i) =>
                \/ <<m, NodeOrder[i]>> \in candidates
                \/ sync.at = "telling" /\ sync.merge = m

PrSyncInv ==
  /\ names \in [Range(NodeOrder) -> SUBSET PrPaths] /\ merges \in Seq(SUBSET PrPaths)
  /\ whole \in 0..Len(merges)
  /\ candidates \subseteq (DOMAIN merges) \X Range(NodeOrder)
  /\ sync.at \in {"down", "waiting", "telling"}
  /\ SyncInv /\ CandidatesFollow

LEMMA PrSyncStarts == PrSyncInit => PrSyncInv
BY DEF PrSyncInit, PrSyncInv, SyncInv, CandidatesFollow, Asleep

LEMMA PrSyncInvImplies == PrSyncInv => PrSyncTypeOK /\ CandidatesFollow
BY DEF PrSyncInv, PrSyncTypeOK

\* The process ends.
LEMMA AsleepKept ==
  ASSUME PrSyncInv, sync' = Asleep, UNCHANGED <<names, merges, candidates, whole>>
  PROVE  PrSyncInv'
BY DEF PrSyncInv, SyncInv, CandidatesFollow, Asleep, Touches

LEMMA MergeJournaledKept == ASSUME PrSyncInv, MergeJournaled PROVE PrSyncInv'
<1>1. PICK paths \in SUBSET PrPaths : merges' = Append(merges, paths)
  BY DEF MergeJournaled
<1>2. merges \in Seq(SUBSET PrPaths) /\ Len(merges) \in Nat /\ DOMAIN merges = 1..Len(merges)
  BY DEF PrSyncInv
<1>3. merges' \in Seq(SUBSET PrPaths) /\ Len(merges') = Len(merges) + 1
      /\ DOMAIN merges' = 1..(Len(merges) + 1) /\ \A m \in DOMAIN merges : merges'[m] = merges[m]
  BY <1>1, <1>2
<1>4. UNCHANGED <<names, candidates, whole>>
  BY DEF MergeJournaled
<1>5. \A m \in DOMAIN merges : \A i : Touches(m, i)' <=> Touches(m, i)
  BY <1>3, <1>4 DEF Touches
<1>6. whole \in 0..Len(merges) /\ candidates \subseteq (DOMAIN merges) \X Range(NodeOrder)
  BY DEF PrSyncInv
<1>7. CandidatesFollow'
  <2>1. \A m \in DOMAIN merges', i \in DOMAIN NodeOrder : <<m, NodeOrder[i]>> \in candidates =>
          m \in DOMAIN merges
    BY <1>6
  <2>2. ASSUME NEW m \in DOMAIN merges, NEW i \in Places, <<m, NodeOrder[i]>> \in candidates
        PROVE  /\ Touches(m, i)'
               /\ \A j \in 1..(i - 1) : Touches(m, j)' => <<m, NodeOrder[j]>> \in candidates
    BY <2>2, <1>5 DEF PrSyncInv, CandidatesFollow, Places
  <2>3. ASSUME NEW m \in 1..whole, NEW i \in Places, Touches(m, i)'
        PROVE  <<m, NodeOrder[i]>> \in candidates
    <3>1. m \in DOMAIN merges
      BY <1>2, <1>6
    <3>2. Touches(m, i)
      BY <2>3, <3>1, <1>5
    <3> QED
      BY <3>2 DEF PrSyncInv, CandidatesFollow, Places
  <2> QED
    BY <1>4, <2>1, <2>2, <2>3 DEF CandidatesFollow, Places
<1>8. SyncInv'
  <2>1. CASE sync' = sync
    <3> SUFFICES ASSUME sync.at # "down" PROVE SyncInv'
      BY <2>1 DEF SyncInv
    <3>1. /\ sync \in Syncs /\ sync.upto <= Len(merges) /\ sync.upto \in Nat
          /\ \A i \in DOMAIN sync.inbox : sync.inbox[i] \in 1..Len(merges)
      BY DEF PrSyncInv, SyncInv, Syncs
    <3>2. /\ sync.upto <= Len(merges')
          /\ \A i \in DOMAIN sync.inbox : sync.inbox[i] \in 1..Len(merges')
      BY <3>1, <1>2, <1>3
    <3>3. sync.at = "telling" =>
            /\ sync.merge \in DOMAIN merges /\ sync.merge \in 1..Len(merges')
            /\ \A i \in sync.todo : Touches(sync.merge, i)
            /\ \A i \in Places : Touches(sync.merge, i) =>
                 i \in sync.todo \/ <<sync.merge, NodeOrder[i]>> \in candidates
      BY <1>2, <1>3 DEF PrSyncInv, SyncInv
    <3>4. sync.mode = "once" =>
            /\ Len(sync.inbox) <= sync.upto
            /\ \A i \in DOMAIN sync.inbox : sync.inbox[i] = sync.upto - Len(sync.inbox) + i
            /\ \A m \in 1..(sync.upto - Len(sync.inbox)), i \in Places :
                 Touches(m, i) =>
                   \/ <<m, NodeOrder[i]>> \in candidates
                   \/ sync.at = "telling" /\ sync.merge = m
      BY DEF PrSyncInv, SyncInv
    <3>5. Len(sync.inbox) \in Nat
      BY <3>1 DEF Syncs
    <3>6. \A m \in 1..(sync.upto - Len(sync.inbox)) : m \in DOMAIN merges
      BY <3>1, <3>5, <1>2
    <3>7. ASSUME NEW k, k = sync.merge, sync.at = "telling"
          PROVE  /\ sync.merge \in 1..Len(merges') /\ \A i \in sync.todo : Touches(k, i)'
                 /\ \A i \in Places : Touches(k, i)' =>
                      i \in sync.todo \/ <<sync.merge, NodeOrder[i]>> \in candidates
      BY <3>3, <3>7, <1>5
    <3>8. sync.mode = "once" =>
            \A m \in 1..(sync.upto - Len(sync.inbox)), i \in Places :
                 Touches(m, i)' =>
                   \/ <<m, NodeOrder[i]>> \in candidates
                   \/ sync.at = "telling" /\ sync.merge = m
      BY <3>4, <3>6, <1>5
    <3> QED
      BY <2>1, <1>4, <3>1, <3>2, <3>4, <3>7, <3>8 DEF SyncInv, Touches
  <2>2. CASE sync' # sync
    <3>1. sync.at # "down" /\ sync.mode = "live" /\ sync \in Syncs
      BY <2>2 DEF MergeJournaled, PrSyncInv, SyncInv
    <3>2. sync' = [sync EXCEPT !.inbox = Append(sync.inbox, Len(merges) + 1)]
      BY <2>2, <3>1 DEF MergeJournaled
    <3>3. sync.inbox \in Seq(Nat)
      BY <3>1 DEF Syncs
    <3>4. PICK box : box = Append(sync.inbox, Len(merges) + 1)
      OBVIOUS
    <3>5. /\ box \in Seq(Nat) /\ Len(sync.inbox) \in Nat
          /\ DOMAIN box = 1..(Len(sync.inbox) + 1) /\ DOMAIN sync.inbox = 1..Len(sync.inbox)
          /\ box[Len(sync.inbox) + 1] = Len(merges) + 1
          /\ \A i \in DOMAIN sync.inbox : box[i] = sync.inbox[i]
      BY <3>3, <3>4, <1>2
    <3>6. /\ sync' \in Syncs /\ sync'.at = sync.at /\ sync'.mode = "live" /\ sync'.upto = sync.upto
          /\ sync'.inbox = box
          /\ sync.at = "telling" => sync'.merge = sync.merge /\ sync'.todo = sync.todo
      BY <3>1, <3>2, <3>4, <3>5 DEF Syncs
    <3>7. \A i \in DOMAIN box : box[i] \in 1..Len(merges')
      <4>1. \A i \in DOMAIN sync.inbox : sync.inbox[i] \in 1..Len(merges)
        BY <3>1 DEF PrSyncInv, SyncInv
      <4>2. \A i \in DOMAIN box : i \in DOMAIN sync.inbox \/ i = Len(sync.inbox) + 1
        BY <3>5
      <4>3. ASSUME NEW i \in DOMAIN sync.inbox PROVE box[i] \in 1..Len(merges')
        <5>1. box[i] \in 1..Len(merges)
          BY <3>5, <4>1
        <5> QED BY <5>1, <1>2, <1>3
      <4>4. box[Len(sync.inbox) + 1] \in 1..Len(merges')
        BY <3>5, <1>2, <1>3
      <4> QED
        BY <4>2, <4>3, <4>4
    <3>8. sync.upto \in Nat /\ sync.upto <= Len(merges)
      BY <3>1 DEF PrSyncInv, SyncInv, Syncs
    <3>9. sync.upto <= Len(merges')
      BY <3>8, <1>2, <1>3
    <3>10. sync.at = "telling" =>
            /\ sync.merge \in 1..Len(merges) /\ \A i \in sync.todo : Touches(sync.merge, i)
            /\ \A i \in Places : Touches(sync.merge, i) =>
                 i \in sync.todo \/ <<sync.merge, NodeOrder[i]>> \in candidates
      BY <3>1 DEF PrSyncInv, SyncInv
    <3>11. ASSUME NEW k, k = sync.merge, sync.at = "telling"
          PROVE  /\ sync.merge \in 1..Len(merges') /\ \A i \in sync.todo : Touches(k, i)'
                 /\ \A i \in Places : Touches(k, i)' =>
                      i \in sync.todo \/ <<sync.merge, NodeOrder[i]>> \in candidates
      <4>1. k \in DOMAIN merges /\ sync.merge \in 1..Len(merges')
        BY <3>10, <3>11, <1>2, <1>3
      <4>2. \A i : Touches(k, i)' <=> Touches(k, i)
        BY <4>1, <1>5
      <4> QED
        BY <3>10, <3>11, <4>1, <4>2
    <3>12. ASSUME sync.at = "telling"
           PROVE  /\ sync'.merge \in 1..Len(merges')
                  /\ \A i \in sync'.todo : merges'[sync'.merge] \intersect names'[NodeOrder[i]] # {}
                  /\ \A i \in Places : merges'[sync'.merge] \intersect names'[NodeOrder[i]] # {} =>
                       i \in sync'.todo \/ <<sync'.merge, NodeOrder[i]>> \in candidates'
      <4>1. PICK k : k = sync.merge
        OBVIOUS
      <4>2. sync'.merge = k /\ sync'.todo = sync.todo
        BY <3>6, <3>12, <4>1
      <4> QED
        BY <3>11, <3>12, <4>1, <4>2, <1>4 DEF Touches
    <3>13. sync'.at # "down" /\ sync'.mode # "once" /\ sync'.upto <= Len(merges') /\ sync'.inbox = box
      BY <3>1, <3>6, <3>9
    <3> QED
      BY <3>6, <3>7, <3>12, <3>13 DEF SyncInv, Touches
  <2> QED
    BY <2>1, <2>2
<1>9. sync'.at = sync.at
  BY DEF MergeJournaled, PrSyncInv, SyncInv, Syncs
<1>10. whole' \in 0..Len(merges') /\ candidates' \subseteq (DOMAIN merges') \X Range(NodeOrder)
  BY <1>2, <1>3, <1>4, <1>6
<1> QED
  BY <1>3, <1>4, <1>7, <1>8, <1>9, <1>10 DEF PrSyncInv

LEMMA StartPrSyncKept ==
  ASSUME PrSyncInv, NEW mode \in {"live", "once"}, StartPrSync(mode) PROVE PrSyncInv'
<1>1. PICK box : box = IF mode = "once" THEN [i \in DOMAIN merges |-> i] ELSE <<>>
  OBVIOUS
<1>2. merges \in Seq(SUBSET PrPaths) /\ Len(merges) \in Nat /\ DOMAIN merges = 1..Len(merges)
  BY DEF PrSyncInv
<1>3. /\ box \in Seq(Nat) /\ \A i \in DOMAIN box : box[i] \in 1..Len(merges) /\ box[i] = i
      /\ mode = "once" => Len(box) = Len(merges)
  BY <1>1, <1>2
<1>4. sync' = [at |-> "waiting", mode |-> mode, upto |-> Len(merges), inbox |-> box]
  BY <1>1 DEF StartPrSync
<1>5. /\ sync' \in Syncs /\ sync'.at = "waiting" /\ sync'.mode = mode /\ sync'.upto = Len(merges)
      /\ sync'.inbox = box /\ UNCHANGED <<names, merges, candidates, whole>>
  BY <1>2, <1>3, <1>4 DEF Syncs, StartPrSync
<1>6. SyncInv'
  BY <1>2, <1>3, <1>5 DEF SyncInv
<1>7. CandidatesFollow'
  BY <1>5 DEF PrSyncInv, CandidatesFollow, Touches
<1> QED
  BY <1>5, <1>6, <1>7 DEF PrSyncInv

LEMMA TakeMergeKept == ASSUME PrSyncInv, TakeMerge PROVE PrSyncInv'
<1>1. CASE sync' = Asleep
  BY <1>1, AsleepKept DEF TakeMerge
<1>2. CASE sync' # Asleep
  <2>1. PICK m : m = Head(sync.inbox)
    OBVIOUS
  <2>2. /\ sync.at = "waiting" /\ sync.inbox # <<>> /\ sync \in Syncs
        /\ UNCHANGED <<names, merges, candidates, whole>>
    BY DEF TakeMerge, PrSyncInv, SyncInv
  <2>3. /\ sync \in [at : {"waiting"}, mode : {"live", "once"}, upto : Nat, inbox : Seq(Nat)]
    BY <2>2 DEF Syncs
  <2>4. PICK rest : rest = Tail(sync.inbox)
    OBVIOUS
  <2>5. /\ rest \in Seq(Nat) /\ Len(rest) = Len(sync.inbox) - 1 /\ Len(sync.inbox) \in Nat \ {0}
        /\ m = sync.inbox[1] /\ 1 \in DOMAIN sync.inbox /\ DOMAIN rest = 1..Len(rest)
        /\ \A i \in DOMAIN rest : i \in Nat /\ rest[i] = sync.inbox[i + 1] /\ i + 1 \in DOMAIN sync.inbox
    BY <2>1, <2>2, <2>3, <2>4
  <2>7. sync' = [at |-> "telling", mode |-> sync.mode, upto |-> sync.upto, inbox |-> rest,
                 merge |-> m, todo |-> References(merges[m])]
    BY <1>2, <2>1, <2>4 DEF TakeMerge
  <2>8. m \in 1..Len(merges) /\ m \in Nat
    BY <2>2, <2>5 DEF PrSyncInv, SyncInv
  <2>9. References(merges[m]) \in SUBSET Places
    BY DEF References, Places
  <2>10. /\ sync' \in Syncs /\ sync'.at = "telling" /\ sync'.mode = sync.mode
         /\ sync'.upto = sync.upto /\ sync'.inbox = rest /\ sync'.merge = m
         /\ sync'.todo = References(merges[m])
    BY <2>3, <2>5, <2>7, <2>8, <2>9 DEF Syncs
  <2>11. \A i \in DOMAIN rest : rest[i] \in 1..Len(merges)
    BY <2>2, <2>5 DEF PrSyncInv, SyncInv
  <2>12. \A i \in Places : i \in References(merges[m]) <=> Touches(m, i)
    BY DEF References, Touches, Places
  <2>13. sync.mode = "once" =>
           /\ Len(rest) <= sync.upto
           /\ \A i \in DOMAIN rest : rest[i] = sync.upto - Len(rest) + i
           /\ \A n \in 1..(sync.upto - Len(rest)), i \in Places :
                Touches(n, i) => <<n, NodeOrder[i]>> \in candidates \/ n = m
    <3> SUFFICES ASSUME sync.mode = "once"
                 PROVE  /\ Len(rest) <= sync.upto
                        /\ \A i \in DOMAIN rest : rest[i] = sync.upto - Len(rest) + i
                        /\ \A n \in 1..(sync.upto - Len(rest)), i \in Places :
                             Touches(n, i) => <<n, NodeOrder[i]>> \in candidates \/ n = m
      OBVIOUS
    <3>1. /\ Len(sync.inbox) <= sync.upto /\ sync.upto \in Nat
          /\ \A i \in DOMAIN sync.inbox : sync.inbox[i] = sync.upto - Len(sync.inbox) + i
          /\ \A n \in 1..(sync.upto - Len(sync.inbox)), i \in Places :
                Touches(n, i) => <<n, NodeOrder[i]>> \in candidates
      BY <2>2, <2>3 DEF PrSyncInv, SyncInv
    <3>2. m = sync.upto - Len(sync.inbox) + 1
      BY <3>1, <2>5
    <3>3. ASSUME NEW i \in DOMAIN rest PROVE rest[i] = sync.upto - Len(rest) + i
      <4>1. rest[i] = sync.upto - Len(sync.inbox) + (i + 1)
        BY <3>1, <2>5
      <4>2. /\ sync.upto \in Int /\ Len(sync.inbox) \in Int /\ i \in Int
            /\ Len(rest) = Len(sync.inbox) - 1
        BY <3>1, <2>5
      <4>3. ASSUME NEW a \in Int, NEW b \in Int, NEW c \in Int, c = b - 1
            PROVE  a - b + (i + 1) = a - c + i
        BY <4>2, <4>3
      <4> QED
        BY <4>1, <4>2, <4>3
    <3>4. \A n \in 1..(sync.upto - Len(rest)) : n \in 1..(sync.upto - Len(sync.inbox)) \/ n = m
      BY <3>1, <3>2, <2>5
    <3>5. Len(rest) <= sync.upto
      BY <3>1, <2>5
    <3> QED
      BY <3>1, <3>3, <3>4, <3>5
  <2>14. sync.upto <= Len(merges)
    BY <2>2 DEF PrSyncInv, SyncInv
  <2>15. \A n, i : Touches(n, i)' <=> Touches(n, i)
    BY <2>2 DEF Touches
  <2>16. /\ \A i \in sync'.todo : Touches(m, i)
         /\ \A i \in Places : Touches(m, i) => i \in sync'.todo
    BY <2>9, <2>10, <2>12
  <2>17. SyncInv'
    BY <2>2, <2>8, <2>10, <2>11, <2>13, <2>14, <2>16 DEF SyncInv, Touches
  <2>18. CandidatesFollow'
    BY <2>2 DEF PrSyncInv, CandidatesFollow, Touches
  <2> QED
    BY <2>2, <2>10, <2>17, <2>18 DEF PrSyncInv
<1> QED
  BY <1>1, <1>2

\* The candidate told is of the next node of the merge at hand.
LEMMA TellCandidateKept == ASSUME PrSyncInv, TellCandidate PROVE PrSyncInv'
<1>1. CASE sync' = Asleep /\ UNCHANGED candidates
  BY <1>1, AsleepKept DEF TellCandidate
<1>2. CASE ~(sync' = Asleep /\ UNCHANGED candidates)
  <2>1. PICK i \in sync.todo :
          /\ \A j \in sync.todo : i <= j
          /\ candidates' = candidates \union {<<sync.merge, NodeOrder[i]>>}
          /\ sync' = [sync EXCEPT !.todo = sync.todo \ {i}]
    BY <1>2 DEF TellCandidate
  <2>2. PICK m : m = sync.merge
    OBVIOUS
  <2>3. sync.at = "telling" /\ sync \in Syncs /\ UNCHANGED <<names, merges, whole>>
    BY DEF TellCandidate, PrSyncInv, SyncInv
  <2>4. sync \in [at : {"telling"}, mode : {"live", "once"}, upto : Nat, inbox : Seq(Nat),
                  merge : Nat, todo : SUBSET Places]
    BY <2>3 DEF Syncs
  <2>5. /\ sync' \in Syncs /\ sync'.at = "telling" /\ sync'.mode = sync.mode
        /\ sync'.upto = sync.upto /\ sync'.inbox = sync.inbox /\ sync'.merge = m
        /\ sync'.todo = sync.todo \ {i}
    BY <2>1, <2>2, <2>4 DEF Syncs
  <2>6. /\ m \in 1..Len(merges) /\ sync.todo \subseteq Places
        /\ \A k \in sync.todo : Touches(m, k)
        /\ \A k \in Places : Touches(m, k) => k \in sync.todo \/ <<m, NodeOrder[k]>> \in candidates
    BY <2>2, <2>3, <2>4 DEF PrSyncInv, SyncInv
  <2>7. \A n, k : Touches(n, k)' <=> Touches(n, k)
    BY <2>3 DEF Touches
  <2>8. candidates' = candidates \union {<<m, NodeOrder[i]>>}
    BY <2>1, <2>2
  <2>9. Places = 1..Len(NodeOrder) /\ \A j, k \in Places : NodeOrder[j] = NodeOrder[k] => j = k
    BY PrSyncAssumption DEF Places, IsInjective
  <2>10. CandidatesFollow'
    <3>1. ASSUME NEW n \in DOMAIN merges, NEW k \in Places, <<n, NodeOrder[k]>> \in candidates'
          PROVE  /\ Touches(n, k)
                 /\ \A j \in 1..(k - 1) : Touches(n, j) => <<n, NodeOrder[j]>> \in candidates'
      <4>1. CASE <<n, NodeOrder[k]>> \in candidates
        BY <4>1, <2>8 DEF PrSyncInv, CandidatesFollow, Places
      <4>2. CASE <<n, NodeOrder[k]>> \notin candidates
        <5>1. n = m /\ k = i
          BY <4>2, <3>1, <2>8, <2>6, <2>9
        <5>2. \A j \in 1..(k - 1) : j \in Places /\ ~(k <= j)
          BY <2>9
        <5> QED
          BY <5>1, <5>2, <2>1, <2>6, <2>8
      <4> QED
        BY <4>1, <4>2
    <3>2. ASSUME NEW n \in 1..whole, NEW k \in Places, Touches(n, k)
          PROVE  <<n, NodeOrder[k]>> \in candidates'
      BY <3>2, <2>8 DEF PrSyncInv, CandidatesFollow, Places
    <3>3. DOMAIN merges' = DOMAIN merges /\ whole' = whole
      BY <2>3
    <3> QED
      BY <3>1, <3>2, <3>3, <2>7 DEF CandidatesFollow, Places
  <2>11. SyncInv'
    <3>1. /\ sync.upto <= Len(merges)
          /\ \A k \in DOMAIN sync.inbox : sync.inbox[k] \in 1..Len(merges)
          /\ sync.mode = "once" =>
               /\ Len(sync.inbox) <= sync.upto
               /\ \A k \in DOMAIN sync.inbox : sync.inbox[k] = sync.upto - Len(sync.inbox) + k
               /\ \A n \in 1..(sync.upto - Len(sync.inbox)), k \in Places :
                    Touches(n, k) => <<n, NodeOrder[k]>> \in candidates \/ m = n
      BY <2>2, <2>3 DEF PrSyncInv, SyncInv
    <3>2. /\ \A k \in sync'.todo : Touches(m, k)
          /\ \A k \in Places : Touches(m, k) => k \in sync'.todo \/ <<m, NodeOrder[k]>> \in candidates'
      BY <2>5, <2>6, <2>8
    <3> QED
      BY <2>3, <2>5, <2>6, <2>8, <3>1, <3>2 DEF SyncInv, Touches
  <2>12. candidates' \subseteq (DOMAIN merges') \X Range(NodeOrder)
    <3>1. m \in DOMAIN merges /\ NodeOrder[i] \in Range(NodeOrder)
      BY <2>6 DEF PrSyncInv, Range, Places
    <3> QED
      BY <3>1, <2>3, <2>8 DEF PrSyncInv
  <2> QED
    BY <2>3, <2>5, <2>10, <2>11, <2>12 DEF PrSyncInv
<1> QED
  BY <1>1, <1>2

LEMMA EndMergeKept == ASSUME PrSyncInv, EndMerge PROVE PrSyncInv'
<1>1. /\ sync.at = "telling" /\ sync.todo = {} /\ sync \in Syncs
      /\ UNCHANGED <<names, merges, candidates, whole>>
  BY DEF EndMerge, PrSyncInv, SyncInv
<1>2. sync \in [at : {"telling"}, mode : {"live", "once"}, upto : Nat, inbox : Seq(Nat),
                merge : Nat, todo : SUBSET Places]
  BY <1>1 DEF Syncs
<1>3. sync' = [f \in {"at", "mode", "upto", "inbox"} |-> IF f = "at" THEN "waiting" ELSE sync[f]]
  BY DEF EndMerge
<1>4. sync' = [at |-> "waiting", mode |-> sync.mode, upto |-> sync.upto, inbox |-> sync.inbox]
  BY <1>2, <1>3
<1>5. /\ sync' \in Syncs /\ sync'.at = "waiting" /\ sync'.mode = sync.mode
      /\ sync'.upto = sync.upto /\ sync'.inbox = sync.inbox
  BY <1>2, <1>4 DEF Syncs
<1>6. SyncInv'
  <2>1. /\ sync.upto <= Len(merges)
        /\ \A k \in DOMAIN sync.inbox : sync.inbox[k] \in 1..Len(merges)
        /\ sync.mode = "once" =>
             /\ Len(sync.inbox) <= sync.upto
             /\ \A k \in DOMAIN sync.inbox : sync.inbox[k] = sync.upto - Len(sync.inbox) + k
             /\ \A n \in 1..(sync.upto - Len(sync.inbox)), k \in Places :
                  Touches(n, k) => <<n, NodeOrder[k]>> \in candidates
    BY <1>1 DEF PrSyncInv, SyncInv
  <2> QED
    BY <1>1, <1>5, <2>1 DEF SyncInv, Touches
<1>7. CandidatesFollow'
  BY <1>1 DEF PrSyncInv, CandidatesFollow, Touches
<1> QED
  BY <1>1, <1>5, <1>6, <1>7 DEF PrSyncInv

LEMMA EndReplayKept == ASSUME PrSyncInv, EndReplay PROVE PrSyncInv'
<1>1. /\ sync.at = "waiting" /\ sync.mode = "once" /\ sync.inbox = <<>> /\ sync \in Syncs
      /\ whole' = sync.upto /\ sync' = Asleep /\ UNCHANGED <<names, merges, candidates>>
  BY DEF EndReplay, PrSyncInv, SyncInv
<1>2. /\ sync.upto \in Nat /\ sync.upto <= Len(merges)
      /\ \A m \in 1..sync.upto, i \in Places :
           Touches(m, i) => <<m, NodeOrder[i]>> \in candidates
  BY <1>1 DEF PrSyncInv, SyncInv, Syncs
<1>3. CandidatesFollow'
  BY <1>1, <1>2 DEF PrSyncInv, CandidatesFollow, Touches, Places
<1>4. whole' \in 0..Len(merges')
  BY <1>1, <1>2 DEF PrSyncInv
<1>5. SyncInv' /\ sync'.at = "down"
  BY <1>1 DEF SyncInv, Asleep
<1> QED
  BY <1>1, <1>3, <1>4, <1>5 DEF PrSyncInv

LEMMA PrSyncInvKept == PrSyncInv /\ [PrSyncNext]_prSyncVars => PrSyncInv'
<1>1. ASSUME PrSyncInv, UNCHANGED prSyncVars PROVE PrSyncInv'
  BY <1>1 DEF prSyncVars, PrSyncInv, SyncInv, CandidatesFollow, Touches
<1>2. ASSUME PrSyncInv, StopPrSync PROVE PrSyncInv'
  BY <1>2, AsleepKept DEF StopPrSync
<1> QED
  BY <1>1, <1>2, MergeJournaledKept, StartPrSyncKept, TakeMergeKept,
     TellCandidateKept,
     EndMergeKept, EndReplayKept DEF PrSyncNext

-----------------------------------------------------------------------------
(***************************************************************************)
(* The checks before a PR.                                                 *)
(***************************************************************************)
CheckSteps ==
  {"exited", "exists", "refs", "count", "status", "title", "body", "ready", "base", "asked",
   "opened", "left", "continued"}
CheckReasons ==
  {"none", "picker-failed", "worktree-missing", "no-trunk-ref", "no-commits", "dirty-tree",
   "missing-pr-metadata", "invalid-pr-title", "open-pr-failed"}
CheckShapes ==
  [step : CheckSteps, found : SUBSET DOMAIN TrunkNames, title : Texts, reason : CheckReasons]
OpenPrAsks == [repo : {"none", "own", "configured"}, base : {"none", "own", "configured"}]

\* What the steps that are past have found, while nothing disturbs them.
ChecksPast(x) ==
  /\ x.step \notin {"exited", "continued"} => exitCode = 0
  /\ x.step \notin {"exited", "exists", "continued"} => worktree.there
  /\ x.step \notin {"exited", "exists", "refs", "continued"} =>
       x.found = Resolved({}) /\ x.found # {}
  /\ x.step \notin {"exited", "exists", "refs", "count", "continued"} => Ahead(x.found) # {}
  /\ x.step \notin {"exited", "exists", "refs", "count", "status", "continued"} => ~worktree.dirty
  /\ x.step \notin {"exited", "exists", "refs", "count", "status", "title", "continued"} =>
       x.title = worktree.title
  /\ x.step \in {"ready", "base", "asked", "opened", "left"} =>
       "none" \notin {worktree.title, worktree.body} /\ worktree.title # "bad"
  /\ x.step = "continued" => x.reason \in Lacks

Asked(y) ==
  /\ y.repo = "configured" => worktree.origin = "none"
  /\ y.base = "configured" => worktree.default = "none"

PreCheckInv ==
  /\ worktree \in Worktree /\ refs \in [Trunks -> 0..MaxTrunk \union {NoRef}]
  /\ exitCode \in {0, 1} /\ check \in CheckShapes /\ request \in OpenPrAsks
  /\ works \in 0..MaxWork /\ failures \in 0..MaxFailures
  /\ Undisturbed => ChecksPast(check) /\ Asked(request)

LEMMA PreCheckStarts == PreCheckInit => PreCheckInv
<1> SUFFICES ASSUME PreCheckInit PROVE PreCheckInv
  OBVIOUS
<1>1. check \in CheckShapes /\ check.step = "exited"
  BY DEF PreCheckInit, CheckShapes, CheckSteps, CheckReasons, Texts
<1>2. request \in OpenPrAsks /\ request.repo = "none" /\ request.base = "none"
  BY DEF PreCheckInit, NoRequest, OpenPrAsks
<1>3. ChecksPast(check) /\ Asked(request)
  BY <1>1, <1>2 DEF ChecksPast, Asked
<1> QED
  BY <1>1, <1>2, <1>3, PreCheckBoundsAssumption DEF PreCheckInit, PreCheckInv

LEMMA ReachOfKnown ==
  ASSUME NEW p
  PROVE  Every(p, Resolved({})) \subseteq UNION {Reach(r) : r \in Known}
<1> SUFFICES ASSUME NEW i \in Resolved({}) PROVE TrunkNames[i] \in Known
  BY DEF Every
<1> QED
  BY DEF Resolved, Known, Trunks, Range

\* The first of some places is an odd one.
LEMMA FirstIsOdd ==
  ASSUME NEW S, S # {}, S \subseteq DOMAIN TrunkNames
  PROVE  \E i \in S : Cardinality({k \in S : k <= i}) % 2 = 1
<1>1. DOMAIN TrunkNames \subseteq Nat
  <2>1. TrunkNames \in Seq(Range(TrunkNames))
    BY TrunkNamesAssumption
  <2> QED
    BY <2>1
<1>2. PICK i \in S : \A j \in S : i <= j
  <2>1. S \subseteq Nat
    BY <1>1
  <2>2. PICK n : n \in S
    OBVIOUS
  <2>3. PICK m \in S : \A j \in S : m <= j
    BY <2>1, <2>2, LeastNumber
  <2> QED
    BY <2>3
<1>3. {k \in S : k <= i} = {i}
  <2>1. \A k \in S : k \in Int
    BY <1>1
  <2> QED
    BY <1>2, <2>1
<1>4. Cardinality({i}) = 1
  BY FS_Singleton
<1>5. 1 % 2 = 1
  OBVIOUS
<1> QED
  BY <1>3, <1>4, <1>5

\* Where all the names are at one commit, a commit that is counted is no one's.
LEMMA OneTrunk ==
  ASSUME NEW v, \A r \in Known : refs[r] = v, Resolved({}) # {}, Ahead(Resolved({})) # {}
  PROVE  HasWork
<1>1. PICK S : S = Resolved({})
  OBVIOUS
<1>2. S \subseteq DOMAIN TrunkNames /\ \A i \in S : TrunkNames[i] \in Known
  BY <1>1 DEF Resolved, Known, Trunks, Range
<1>3. PICK i \in S : Cardinality({k \in S : k <= i}) % 2 = 1
  BY <1>1, <1>2, FirstIsOdd
<1>4. PICK T : T = {<<"trunk", n>> : n \in 1..v}
  OBVIOUS
<1>5. \A r \in Known : Reach(r) = T
  BY <1>4 DEF Reach
<1>6. T \subseteq Every(1, S)
  BY <1>2, <1>3, <1>5 DEF Every
<1>7. Every(0, S) \subseteq T
  BY <1>2, <1>5 DEF Every
<1>8. PICK x \in HeadReach : x \notin T
  BY <1>1, <1>6, <1>7 DEF Ahead
<1> QED
  BY <1>5, <1>8 DEF HasWork

LEMMA PreCheckInvImplies == PreCheckInv => PreCheckTypeOK /\ ChecksAreTrue
<1> SUFFICES ASSUME PreCheckInv PROVE PreCheckTypeOK /\ ChecksAreTrue
  OBVIOUS
<1>1. PreCheckTypeOK
  BY PreCheckBoundsAssumption
  DEF PreCheckInv, PreCheckTypeOK, CheckShapes, OpenPrAsks, Texts
<1>2. ASSUME Undisturbed PROVE /\ At("continued") => check.reason \in Lacks
                               /\ Cleared => Lacks \subseteq {"no-commits"}
                               /\ Cleared /\ Cardinality({refs[r] : r \in Known}) = 1 => HasWork
                               /\ request.repo = "configured" => worktree.origin = "none"
                               /\ request.base = "configured" => worktree.default = "none"
  <2>1. ChecksPast(check) /\ Asked(request)
    BY <1>2 DEF PreCheckInv
  <2>2. ASSUME Cleared
        PROVE  /\ exitCode = 0 /\ worktree.there /\ ~worktree.dirty
               /\ Resolved({}) # {} /\ Ahead(Resolved({})) # {}
               /\ "none" \notin {worktree.title, worktree.body} /\ worktree.title # "bad"
    BY <2>1, <2>2 DEF ChecksPast, Cleared
  <2>3. ASSUME Cleared PROVE Known # {}
    BY <2>2, <2>3 DEF Resolved, Known, Trunks, Range
  <2>4. ASSUME Cleared PROVE Lacks \subseteq {"no-commits"}
    BY <2>2, <2>3, <2>4 DEF Lacks
  <2>5. ASSUME Cleared, Cardinality({refs[r] : r \in Known}) = 1 PROVE HasWork
    <3>1. IsFiniteSet(Known)
      <4>1. TrunkNames \in Seq(Range(TrunkNames))
        BY TrunkNamesAssumption
      <4>2. DOMAIN TrunkNames = 1..Len(TrunkNames) /\ Len(TrunkNames) \in Nat
        BY <4>1
      <4>3. IsFiniteSet(DOMAIN TrunkNames)
        BY <4>2, FS_Interval
      <4>4. TrunkNames \in Surjection(DOMAIN TrunkNames, Trunks)
        BY <4>1 DEF Trunks, Range, Surjection
      <4>5. IsFiniteSet(Trunks)
        BY <4>3, <4>4, FS_Surjection
      <4> QED
        BY <4>5, FS_Subset DEF Known
    <3>2. IsFiniteSet({refs[r] : r \in Known})
      <4>1. PICK V : V = {refs[r] : r \in Known}
        OBVIOUS
      <4>2. [r \in Known |-> refs[r]] \in Surjection(Known, V)
        BY <4>1 DEF Surjection
      <4>3. IsFiniteSet(V)
        BY <3>1, <4>2, FS_Surjection
      <4> QED
        BY <4>1, <4>3
    <3>3. PICK v : {refs[r] : r \in Known} = {v}
      BY <2>5, <3>2, FS_Singleton
    <3>4. \A r \in Known : refs[r] = v
      BY <3>3
    <3> QED
      BY <2>2, <2>5, <3>4, OneTrunk
  <2> QED
    BY <2>1, <2>4, <2>5 DEF ChecksPast, Asked, At
<1> QED
  BY <1>1, <1>2 DEF ChecksAreTrue

\* A step of the checks, with or without a command that fails.
LEMMA CheckMoves ==
  ASSUME PreCheckInv, NEW x \in CheckShapes, NEW y \in OpenPrAsks, check' = x, request' = y,
         UNCHANGED <<worktree, refs, exitCode, works>>,
         failures' = failures \/ (failures < MaxFailures /\ failures' = failures + 1),
         failures' = failures /\ Undisturbed => ChecksPast(x) /\ Asked(y)
  PROVE  PreCheckInv'
<1>1. failures' \in 0..MaxFailures /\ (failures' = 0 => failures' = failures)
  BY PreCheckBoundsAssumption DEF PreCheckInv
<1>2. Undisturbed' => ChecksPast(x)' /\ Asked(y)'
  <2> SUFFICES ASSUME Undisturbed' PROVE ChecksPast(x)' /\ Asked(y)'
    OBVIOUS
  <2>1. Undisturbed /\ failures' = failures
    BY <1>1 DEF Undisturbed
  <2>2. ChecksPast(x) /\ Asked(y)
    BY <2>1
  <2>3. /\ Resolved({})' = Resolved({}) /\ Ahead(x.found)' = Ahead(x.found) /\ Lacks' = Lacks
    BY DEF Resolved, Ahead, Every, Reach, HeadReach, Lacks, Known, HasWork
  <2> QED
    BY <2>2, <2>3 DEF ChecksPast, Asked
<1> QED
  BY <1>1, <1>2 DEF PreCheckInv

LEMMA SaysAnswer ==
  ASSUME PreCheckInv, NEW got, NEW answer, NEW nothing, Says(got, answer, nothing)
  PROVE  /\ failures' = failures \/ (failures < MaxFailures /\ failures' = failures + 1)
         /\ failures' = failures => got = (IF worktree.there THEN answer ELSE nothing)
<1>1. failures \in Nat
  BY PreCheckBoundsAssumption DEF PreCheckInv
<1> QED
  BY <1>1 DEF Says

LEMMA GoToKept ==
  ASSUME PreCheckInv, NEW st \in CheckSteps \ {"continued"}, GoTo(st), Keeps,
         failures' = failures \/ (failures < MaxFailures /\ failures' = failures + 1),
         failures' = failures /\ Undisturbed => ChecksPast([check EXCEPT !.step = st])
  PROVE  PreCheckInv'
<1>1. PICK x : x = [check EXCEPT !.step = st]
  OBVIOUS
<1>2. x \in CheckShapes /\ check' = x
  BY <1>1 DEF PreCheckInv, CheckShapes, GoTo
<1>3. request \in OpenPrAsks /\ (Undisturbed => Asked(request))
  BY DEF PreCheckInv
<1> QED
  BY <1>1, <1>2, <1>3, CheckMoves DEF Keeps

LEMMA ContinueKept ==
  ASSUME PreCheckInv, NEW why \in CheckReasons, Continue(why), Keeps,
         failures' = failures \/ (failures < MaxFailures /\ failures' = failures + 1),
         failures' = failures /\ Undisturbed => why \in Lacks
  PROVE  PreCheckInv'
<1>1. PICK x : x = [check EXCEPT !.step = "continued", !.reason = why]
  OBVIOUS
<1>2. x \in CheckShapes /\ check' = x /\ x.step = "continued" /\ x.reason = why
  BY <1>1 DEF PreCheckInv, CheckShapes, CheckSteps, Continue
<1>3. request \in OpenPrAsks /\ (Undisturbed => Asked(request))
  BY DEF PreCheckInv
<1>4. failures' = failures /\ Undisturbed => ChecksPast(x)
  BY <1>2 DEF ChecksPast
<1> QED
  BY <1>2, <1>3, <1>4, CheckMoves DEF Keeps

\* What the record of the checks is when it takes its next step.
LEMMA NextStep ==
  ASSUME PreCheckInv, NEW st \in CheckSteps \ {"continued"}
  PROVE  /\ [check EXCEPT !.step = st].step = st
         /\ [check EXCEPT !.step = st].found = check.found
         /\ [check EXCEPT !.step = st].title = check.title
BY DEF PreCheckInv, CheckShapes

LEMMA ExitedKept == ASSUME PreCheckInv, Exited PROVE PreCheckInv'
<1>1. CASE exitCode = 0
  <2>1. GoTo("exists") /\ Keeps /\ failures' = failures
    BY <1>1 DEF Exited
  <2>2. "exists" \in CheckSteps \ {"continued"}
    BY DEF CheckSteps
  <2>3. ChecksPast([check EXCEPT !.step = "exists"])
    BY <1>1, <2>2, NextStep DEF ChecksPast
  <2> QED
    BY <2>1, <2>2, <2>3, GoToKept
<1>2. CASE exitCode # 0
  <2>1. Continue("picker-failed") /\ Keeps /\ failures' = failures
    BY <1>2 DEF Exited
  <2>2. "picker-failed" \in Lacks
    BY <1>2 DEF Lacks
  <2> QED
    BY <2>1, <2>2, ContinueKept DEF CheckReasons
<1> QED
  BY <1>1, <1>2

LEMMA ExistsKept == ASSUME PreCheckInv, CheckExists PROVE PreCheckInv'
<1>1. PICK yes \in BOOLEAN :
        Says(yes, TRUE, FALSE) /\ IF yes THEN GoTo("refs") ELSE Continue("worktree-missing")
  BY DEF CheckExists
<1>2. Keeps /\ check.step = "exists"
  BY DEF CheckExists, At
<1>3. /\ failures' = failures \/ (failures < MaxFailures /\ failures' = failures + 1)
      /\ failures' = failures => yes = worktree.there
  <2>1. /\ failures' = failures \/ (failures < MaxFailures /\ failures' = failures + 1)
        /\ failures' = failures => yes = (IF worktree.there THEN TRUE ELSE FALSE)
    BY <1>1, SaysAnswer
  <2>2. worktree.there \in BOOLEAN
    BY DEF PreCheckInv, Worktree
  <2> QED
    BY <2>1, <2>2
<1>4. CASE yes
  <2>1. "refs" \in CheckSteps \ {"continued"}
    BY DEF CheckSteps
  <2>2. ASSUME failures' = failures, Undisturbed PROVE ChecksPast([check EXCEPT !.step = "refs"])
    BY <1>2, <1>3, <1>4, <2>1, <2>2, NextStep DEF ChecksPast, PreCheckInv
  <2> QED
    BY <1>1, <1>2, <1>3, <1>4, <2>1, <2>2, GoToKept
<1>5. CASE ~yes
  <2>1. ASSUME failures' = failures PROVE "worktree-missing" \in Lacks
    BY <1>3, <1>5, <2>1 DEF Lacks
  <2> QED
    BY <1>1, <1>2, <1>3, <1>5, <2>1, ContinueKept DEF CheckReasons
<1> QED
  BY <1>4, <1>5

LEMMA ResolveTrunkKept == ASSUME PreCheckInv, ResolveTrunk PROVE PreCheckInv'
<1>1. PICK lost : /\ IF lost = {} THEN UNCHANGED failures
                     ELSE failures < MaxFailures /\ failures' = failures + 1
                  /\ IF Resolved(lost) = {} THEN Continue("no-trunk-ref")
                     ELSE check' = [check EXCEPT !.step = "count", !.found = Resolved(lost)]
  BY DEF ResolveTrunk
<1>2. Keeps /\ check.step = "refs" /\ failures \in Nat
  BY PreCheckBoundsAssumption DEF ResolveTrunk, At, PreCheckInv
<1>3. /\ failures' = failures \/ (failures < MaxFailures /\ failures' = failures + 1)
      /\ failures' = failures => lost = {}
  BY <1>1, <1>2
<1>4. CASE Resolved(lost) = {}
  <2>1. ASSUME failures' = failures, Undisturbed PROVE "no-trunk-ref" \in Lacks
    <3>1. Resolved({}) = {} /\ worktree.there
      BY <1>2, <1>3, <1>4, <2>1 DEF PreCheckInv, ChecksPast
    <3>2. Known = {}
      BY <3>1 DEF Resolved, Known, Trunks, Range
    <3> QED
      BY <3>2 DEF Lacks
  <2> QED
    BY <1>1, <1>2, <1>3, <1>4, <2>1, ContinueKept DEF CheckReasons
<1>5. CASE Resolved(lost) # {}
  <2>1. PICK x : x = [check EXCEPT !.step = "count", !.found = Resolved(lost)]
    OBVIOUS
  <2>2. x \in CheckShapes /\ check' = x /\ x.step = "count" /\ x.found = Resolved(lost)
    <3>1. Resolved(lost) \subseteq DOMAIN TrunkNames
      BY DEF Resolved
    <3> QED
      BY <1>1, <1>5, <2>1, <3>1 DEF PreCheckInv, CheckShapes, CheckSteps
  <2>3. ASSUME failures' = failures, Undisturbed PROVE ChecksPast(x)
    BY <1>2, <1>3, <1>5, <2>2, <2>3 DEF PreCheckInv, ChecksPast
  <2>4. request \in OpenPrAsks /\ (Undisturbed => Asked(request))
    BY DEF PreCheckInv
  <2> QED
    BY <1>2, <1>3, <2>2, <2>3, <2>4, CheckMoves DEF Keeps
<1> QED
  BY <1>4, <1>5

LEMMA CommitsKept == ASSUME PreCheckInv, CountCommits PROVE PreCheckInv'
<1>1. PICK some \in BOOLEAN :
        /\ Says(some, Ahead(check.found) # {}, FALSE)
        /\ IF some THEN GoTo("status") ELSE Continue("no-commits")
  BY DEF CountCommits
<1>2. Keeps /\ check.step = "count"
  BY DEF CountCommits, At
<1>3. /\ failures' = failures \/ (failures < MaxFailures /\ failures' = failures + 1)
      /\ failures' = failures => some = (IF worktree.there THEN Ahead(check.found) # {} ELSE FALSE)
  BY <1>1, SaysAnswer
<1>4. Undisturbed => worktree.there /\ check.found = Resolved({}) /\ ChecksPast(check)
  BY <1>2 DEF PreCheckInv, ChecksPast
<1>5. CASE some
  <2>1. "status" \in CheckSteps \ {"continued"}
    BY DEF CheckSteps
  <2>2. ASSUME failures' = failures, Undisturbed PROVE ChecksPast([check EXCEPT !.step = "status"])
    <3>1. Ahead(check.found) # {}
      BY <1>3, <1>4, <1>5, <2>2
    <3> QED
      BY <1>2, <1>4, <2>1, <2>2, <3>1, NextStep DEF ChecksPast
  <2> QED
    BY <1>1, <1>2, <1>3, <1>5, <2>1, <2>2, GoToKept
<1>6. CASE ~some
  <2>1. ASSUME failures' = failures, Undisturbed PROVE "no-commits" \in Lacks
    <3>1. Ahead(Resolved({})) = {}
      BY <1>3, <1>4, <1>6, <2>1
    <3>2. HeadReach \subseteq Every(1, Resolved({}))
      BY <3>1 DEF Ahead
    <3>3. ~HasWork
      BY <3>2, ReachOfKnown DEF HasWork
    <3> QED
      BY <3>3 DEF Lacks
  <2> QED
    BY <1>1, <1>2, <1>3, <1>6, <2>1, ContinueKept DEF CheckReasons
<1> QED
  BY <1>5, <1>6

LEMMA StatusKept == ASSUME PreCheckInv, CheckStatus PROVE PreCheckInv'
<1>1. PICK dirty \in BOOLEAN :
        /\ Says(dirty, worktree.dirty, FALSE)
        /\ IF dirty THEN Continue("dirty-tree") ELSE GoTo("title")
  BY DEF CheckStatus
<1>2. Keeps /\ check.step = "status"
  BY DEF CheckStatus, At
<1>3. /\ failures' = failures \/ (failures < MaxFailures /\ failures' = failures + 1)
      /\ failures' = failures => dirty = (IF worktree.there THEN worktree.dirty ELSE FALSE)
  BY <1>1, SaysAnswer
<1>4. Undisturbed => worktree.there /\ ChecksPast(check)
  BY <1>2 DEF PreCheckInv, ChecksPast
<1>5. CASE ~dirty
  <2>1. "title" \in CheckSteps \ {"continued"}
    BY DEF CheckSteps
  <2>2. ASSUME failures' = failures, Undisturbed PROVE ChecksPast([check EXCEPT !.step = "title"])
    BY <1>2, <1>3, <1>4, <1>5, <2>1, <2>2, NextStep DEF ChecksPast
  <2> QED
    BY <1>1, <1>2, <1>3, <1>5, <2>1, <2>2, GoToKept
<1>6. CASE dirty
  <2>1. ASSUME failures' = failures, Undisturbed PROVE "dirty-tree" \in Lacks
    BY <1>3, <1>4, <1>6, <2>1 DEF Lacks
  <2> QED
    BY <1>1, <1>2, <1>3, <1>6, <2>1, ContinueKept DEF CheckReasons
<1> QED
  BY <1>5, <1>6

LEMMA TitleKept == ASSUME PreCheckInv, ReadTitle PROVE PreCheckInv'
<1>1. PICK title \in Texts :
        /\ Says(title, worktree.title, "none")
        /\ check' = [check EXCEPT !.step = "body", !.title = title]
  BY DEF ReadTitle
<1>2. Keeps /\ check.step = "title"
  BY DEF ReadTitle, At
<1>3. /\ failures' = failures \/ (failures < MaxFailures /\ failures' = failures + 1)
      /\ failures' = failures => title = (IF worktree.there THEN worktree.title ELSE "none")
  BY <1>1, SaysAnswer
<1>4. PICK x : x = [check EXCEPT !.step = "body", !.title = title]
  OBVIOUS
<1>5. x \in CheckShapes /\ check' = x /\ x.step = "body" /\ x.found = check.found /\ x.title = title
  BY <1>1, <1>4 DEF PreCheckInv, CheckShapes, CheckSteps
<1>6. ASSUME failures' = failures, Undisturbed PROVE ChecksPast(x)
  BY <1>2, <1>3, <1>5, <1>6 DEF PreCheckInv, ChecksPast
<1>7. request \in OpenPrAsks /\ (Undisturbed => Asked(request))
  BY DEF PreCheckInv
<1> QED
  BY <1>2, <1>3, <1>5, <1>6, <1>7, CheckMoves DEF Keeps

LEMMA BodyKept == ASSUME PreCheckInv, ReadBody PROVE PreCheckInv'
<1>1. PICK body \in Texts :
        /\ Says(body, worktree.body, "none")
        /\ IF "none" \in {check.title, body} THEN Continue("missing-pr-metadata")
           ELSE IF ~TitleOk(check.title) THEN Continue("invalid-pr-title")
           ELSE GoTo("ready")
  BY DEF ReadBody
<1>2. Keeps /\ check.step = "body"
  BY DEF ReadBody, At
<1>3. /\ failures' = failures \/ (failures < MaxFailures /\ failures' = failures + 1)
      /\ failures' = failures => body = (IF worktree.there THEN worktree.body ELSE "none")
  BY <1>1, SaysAnswer
<1>4. Undisturbed => worktree.there /\ check.title = worktree.title /\ ChecksPast(check)
  BY <1>2 DEF PreCheckInv, ChecksPast
<1>5. CASE "none" \in {check.title, body}
  <2>1. ASSUME failures' = failures, Undisturbed PROVE "missing-pr-metadata" \in Lacks
    BY <1>3, <1>4, <1>5, <2>1 DEF Lacks
  <2> QED
    BY <1>1, <1>2, <1>3, <1>5, <2>1, ContinueKept DEF CheckReasons
<1>6. CASE "none" \notin {check.title, body} /\ ~TitleOk(check.title)
  <2>1. ASSUME failures' = failures, Undisturbed PROVE "invalid-pr-title" \in Lacks
    BY <1>3, <1>4, <1>6, <2>1 DEF Lacks, TitleOk
  <2> QED
    BY <1>1, <1>2, <1>3, <1>6, <2>1, ContinueKept DEF CheckReasons
<1>7. CASE "none" \notin {check.title, body} /\ TitleOk(check.title)
  <2>1. "ready" \in CheckSteps \ {"continued"}
    BY DEF CheckSteps
  <2>2. ASSUME failures' = failures, Undisturbed PROVE ChecksPast([check EXCEPT !.step = "ready"])
    BY <1>2, <1>3, <1>4, <1>7, <2>1, <2>2, NextStep DEF ChecksPast, TitleOk
  <2> QED
    BY <1>1, <1>2, <1>3, <1>7, <2>1, <2>2, GoToKept
<1> QED
  BY <1>5, <1>6, <1>7

\* A step past all the checks.
LEMMA PastChecks ==
  ASSUME PreCheckInv, Undisturbed, check.step \in {"ready", "base", "asked"},
         NEW st \in {"base", "asked", "opened", "left"}
  PROVE  ChecksPast([check EXCEPT !.step = st]) /\ [check EXCEPT !.step = st] \in CheckShapes
<1>1. PICK x : x = [check EXCEPT !.step = st]
  OBVIOUS
<1>2. /\ x \in CheckShapes /\ x.step = st /\ x.found = check.found /\ x.title = check.title
      /\ ChecksPast(check)
  BY <1>1 DEF PreCheckInv, CheckShapes, CheckSteps
<1> QED
  BY <1>1, <1>2 DEF ChecksPast

LEMMA OriginKept == ASSUME PreCheckInv, DeriveOrigin PROVE PreCheckInv'
<1>1. PICK repo \in {"none", "own"} :
        /\ Says(repo, worktree.origin, "none")
        /\ request' = [request EXCEPT !.repo = IF repo = "none" THEN "configured" ELSE repo]
  BY DEF DeriveOrigin
<1>2. GoTo("base") /\ check.step = "ready" /\ UNCHANGED <<worktree, refs, exitCode, works>>
  BY DEF DeriveOrigin, At
<1>3. /\ failures' = failures \/ (failures < MaxFailures /\ failures' = failures + 1)
      /\ failures' = failures => repo = (IF worktree.there THEN worktree.origin ELSE "none")
  BY <1>1, SaysAnswer
<1>4. PICK x : x = [check EXCEPT !.step = "base"]
  OBVIOUS
<1>5. PICK y : y = [request EXCEPT !.repo = IF repo = "none" THEN "configured" ELSE repo]
  OBVIOUS
<1>6. /\ x \in CheckShapes /\ check' = x /\ y \in OpenPrAsks /\ request' = y /\ y.base = request.base
      /\ y.repo = IF repo = "none" THEN "configured" ELSE repo
  BY <1>1, <1>2, <1>4, <1>5
  DEF PreCheckInv, CheckShapes, CheckSteps, OpenPrAsks, GoTo
<1>7. ASSUME failures' = failures, Undisturbed PROVE ChecksPast(x) /\ Asked(y)
  <2>1. ChecksPast(x)
    BY <1>2, <1>4, <1>7, PastChecks
  <2>2. worktree.there /\ Asked(request)
    BY <1>2, <1>7 DEF PreCheckInv, ChecksPast
  <2> QED
    BY <1>3, <1>6, <1>7, <2>1, <2>2 DEF Asked
<1> QED
  BY <1>2, <1>3, <1>6, <1>7, CheckMoves

LEMMA BaseKept == ASSUME PreCheckInv, DeriveBase PROVE PreCheckInv'
<1>1. PICK base \in {"none", "own"} :
        /\ Says(base, worktree.default, "none")
        /\ request' = [request EXCEPT !.base = IF base = "none" THEN "configured" ELSE base]
  BY DEF DeriveBase
<1>2. GoTo("asked") /\ check.step = "base" /\ UNCHANGED <<worktree, refs, exitCode, works>>
  BY DEF DeriveBase, At
<1>3. /\ failures' = failures \/ (failures < MaxFailures /\ failures' = failures + 1)
      /\ failures' = failures => base = (IF worktree.there THEN worktree.default ELSE "none")
  BY <1>1, SaysAnswer
<1>4. PICK x : x = [check EXCEPT !.step = "asked"]
  OBVIOUS
<1>5. PICK y : y = [request EXCEPT !.base = IF base = "none" THEN "configured" ELSE base]
  OBVIOUS
<1>6. /\ x \in CheckShapes /\ check' = x /\ y \in OpenPrAsks /\ request' = y /\ y.repo = request.repo
      /\ y.base = IF base = "none" THEN "configured" ELSE base
  BY <1>1, <1>2, <1>4, <1>5
  DEF PreCheckInv, CheckShapes, CheckSteps, OpenPrAsks, GoTo
<1>7. ASSUME failures' = failures, Undisturbed PROVE ChecksPast(x) /\ Asked(y)
  <2>1. ChecksPast(x)
    BY <1>2, <1>4, <1>7, PastChecks
  <2>2. worktree.there /\ Asked(request)
    BY <1>2, <1>7 DEF PreCheckInv, ChecksPast
  <2> QED
    BY <1>3, <1>6, <1>7, <2>1, <2>2 DEF Asked
<1> QED
  BY <1>2, <1>3, <1>6, <1>7, CheckMoves

LEMMA AnswerKept == ASSUME PreCheckInv, Opened \/ Unrecoverable \/ OpenPrFails PROVE PreCheckInv'
<1>1. check.step = "asked" /\ Keeps /\ failures \in Nat
  BY PreCheckBoundsAssumption
  DEF Opened, Unrecoverable, OpenPrFails, At, PreCheckInv
<1>2. CASE Opened \/ Unrecoverable
  <2>1. PICK st \in {"opened", "left"} : GoTo(st)
    BY <1>2 DEF Opened, Unrecoverable
  <2>2. failures' = failures \/ (failures < MaxFailures /\ failures' = failures + 1)
    BY <1>2 DEF Opened, Unrecoverable
  <2>3. st \in CheckSteps \ {"continued"} /\ st \in {"base", "asked", "opened", "left"}
    BY <2>1 DEF CheckSteps
  <2>4. Undisturbed => ChecksPast([check EXCEPT !.step = st])
    BY <1>1, <2>3, PastChecks
  <2> QED
    BY <1>1, <2>1, <2>2, <2>3, <2>4, GoToKept
<1>3. CASE OpenPrFails
  <2>1. /\ Continue("open-pr-failed") /\ failures < MaxFailures /\ failures' = failures + 1
        /\ failures' # failures
    BY <1>1, <1>3 DEF OpenPrFails
  <2> QED
    BY <1>1, <2>1, ContinueKept DEF CheckReasons
<1> QED
  BY <1>2, <1>3

LEMMA WorkKept == ASSUME PreCheckInv, Work PROVE PreCheckInv'
<1>1. works' \in 0..MaxWork /\ works' # 0
  BY PreCheckBoundsAssumption DEF Work, PreCheckInv
<1>2. ~Undisturbed'
  BY <1>1 DEF Undisturbed
<1>3. worktree' \in Worktree
  <2>1. worktree \in Worktree
    BY DEF PreCheckInv
  <2>2. [worktree EXCEPT !.dirty = TRUE] \in Worktree
    BY <2>1 DEF Worktree
  <2>3. [worktree EXCEPT !.own = 1, !.dirty = FALSE] \in Worktree
    <3>1. 1 \in 0..1
      OBVIOUS
    <3> QED
      BY <2>1, <3>1 DEF Worktree
  <2>4. [worktree EXCEPT !.title = "bad"] \in Worktree
    BY <2>1 DEF Worktree, Texts
  <2>5. [worktree EXCEPT !.there = FALSE] \in Worktree
    BY <2>1 DEF Worktree
  <2> QED
    BY <2>1, <2>2, <2>3, <2>4, <2>5 DEF Work
<1>4. refs' \in [Trunks -> 0..MaxTrunk \union {NoRef}]
  <2>1. refs \in [Trunks -> 0..MaxTrunk \union {NoRef}] /\ MaxTrunk \in Nat
    BY PreCheckBoundsAssumption DEF PreCheckInv
  <2>2. ASSUME NEW r \in Trunks, refs[r] # NoRef, refs[r] < MaxTrunk,
               refs' = [refs EXCEPT ![r] = refs[r] + 1]
        PROVE  refs' \in [Trunks -> 0..MaxTrunk \union {NoRef}]
    <3>1. refs[r] \in 0..MaxTrunk
      BY <2>1, <2>2
    <3>2. refs[r] + 1 \in 0..MaxTrunk
      BY <2>1, <2>2, <3>1
    <3> QED
      BY <2>1, <2>2, <3>2
  <2> QED
    BY <2>1, <2>2 DEF Work
<1> QED
  BY <1>1, <1>2, <1>3, <1>4 DEF Work, PreCheckInv

LEMMA PreCheckInvKept == PreCheckInv /\ [PreCheckNext]_preCheckVars => PreCheckInv'
<1> SUFFICES ASSUME PreCheckInv, [PreCheckNext]_preCheckVars PROVE PreCheckInv'
  OBVIOUS
<1>1. CASE UNCHANGED preCheckVars
  <2>1. /\ UNCHANGED <<worktree, refs, exitCode, works>> /\ check' = check /\ request' = request
        /\ failures' = failures
    BY <1>1 DEF preCheckVars
  <2> QED
    BY <2>1, CheckMoves DEF PreCheckInv
<1>2. CASE PreCheckNext
  BY <1>2, ExitedKept, ExistsKept, ResolveTrunkKept, CommitsKept, StatusKept,
     TitleKept, BodyKept,
     OriginKept, BaseKept, AnswerKept, WorkKept DEF PreCheckNext
<1> QED
  BY <1>1, <1>2

-----------------------------------------------------------------------------
(***************************************************************************)
(* What a snapshot of the world says of readiness.                         *)
(***************************************************************************)
AllLines == UNION {LinesOf(f) : f \in JournalFiles}
FailedType == "tempyr.write-permanently-failed"
CountsFailed(facts) == "failed" \in DOMAIN facts /\ facts.failed \in Nat

\* What was there when a compilation began is still there, and what it has found
\* counts the writes that failed.
WorldInv ==
  /\ lines \in [JournalFiles -> Seq(AllLines)]
  /\ DOMAIN reading = {"todo", "facts", "at"} /\ CountsFailed(reading.facts)
  /\ reading.todo \in Seq(JournalFiles) /\ reading.at \in [JournalFiles -> Seq(AllLines)]
  /\ Len(reading.at["tempyr"]) <= Len(lines["tempyr"])
  /\ \A i \in DOMAIN reading.at["tempyr"] : reading.at["tempyr"][i] = lines["tempyr"][i]
  /\ ReadyIsSound

LEMMA JournalFilesAre == JournalFiles = {"branch", "picker", "pr", "worktree", "tempyr"}
<1>1. DOMAIN FileOrder = 1..5
  BY DEF FileOrder
<1>2. \A i \in 1..5 : i = 1 \/ i = 2 \/ i = 3 \/ i = 4 \/ i = 5
  OBVIOUS
<1>3. /\ FileOrder[1] = "branch" /\ FileOrder[2] = "picker" /\ FileOrder[3] = "pr"
      /\ FileOrder[4] = "worktree" /\ FileOrder[5] = "tempyr"
  BY DEF FileOrder
<1> QED
  BY <1>1, <1>2, <1>3 DEF JournalFiles, Range

LEMMA FileOrderSeq == FileOrder \in Seq(JournalFiles)
<1>1. FileOrder \in Seq({"branch", "picker", "pr", "worktree", "tempyr"})
  BY DEF FileOrder
<1> QED
  BY <1>1, JournalFilesAre

\* One line takes no failure away, and a failure adds one.
LEMMA LineCounts ==
  ASSUME NEW facts, CountsFailed(facts), NEW line
  PROVE  /\ CountsFailed(ApplyLine(facts, line))
         /\ ApplyLine(facts, line).failed >= facts.failed
         /\ line.type = FailedType => ApplyLine(facts, line).failed > 0
<1>1. ASSUME NEW g, DOMAIN g = DOMAIN facts, g.failed = facts.failed
      PROVE  CountsFailed(g) /\ g.failed >= facts.failed
  BY <1>1 DEF CountsFailed
<1>2. CASE line.type = FailedType
  <2>1. PICK g : g = ApplyLine(facts, line)
    OBVIOUS
  <2>2. g = [Settle(facts, line.type) EXCEPT !.told = @ + 1]
    BY <1>2, <2>1 DEF ApplyLine, FailedType
  <2>3. Settle(facts, line.type).failed = facts.failed + 1
        /\ DOMAIN Settle(facts, line.type) = DOMAIN facts
    BY <1>2 DEF Settle, CountsFailed, FailedType
  <2>4. g.failed = facts.failed + 1 /\ DOMAIN g = DOMAIN facts
    BY <2>2, <2>3
  <2> QED
    BY <2>1, <2>4 DEF CountsFailed
<1>3. CASE line.type # FailedType
  <2>1. PICK g : g = ApplyLine(facts, line)
    OBVIOUS
  <2>2. CASE line.type = "tempyr.write-confirmed"
    <3>1. g = [Settle(facts, line.type) EXCEPT !.told = @ + 1]
      BY <2>1, <2>2 DEF ApplyLine
    <3>2. Settle(facts, line.type).failed = facts.failed
          /\ DOMAIN Settle(facts, line.type) = DOMAIN facts
      BY <2>2 DEF Settle, CountsFailed
    <3>3. g.failed = facts.failed /\ DOMAIN g = DOMAIN facts
      BY <3>1, <3>2
    <3> QED
      BY <1>1, <1>3, <2>1, <3>3
  <2>3. CASE line.type # "tempyr.write-confirmed"
    <3>1. g.failed = facts.failed /\ DOMAIN g = DOMAIN facts
      BY <1>3, <2>1, <2>3 DEF ApplyLine, EndPicker, FailedType
    <3> QED
      BY <1>1, <1>3, <2>1, <3>1
  <2> QED
    BY <2>2, <2>3
<1> QED
  BY <1>2, <1>3

\* What the lines make of the facts, after each of the first n.
Compiled(f, facts, file, n) ==
  f = [i \in 0..n |-> IF i = 0 THEN facts ELSE ApplyLine(f[i - 1], file[i])]

LEMMA CompiledSomehow ==
  ASSUME NEW facts, NEW file
  PROVE  \A n \in Nat : \E f : Compiled(f, facts, file, n)
<1> DEFINE S == {n \in Nat : \E f : Compiled(f, facts, file, n)}
<1>1. 0 \in S
  <2> DEFINE g == [i \in 0..0 |-> facts]
  <2>1. g = [i \in 0..0 |-> IF i = 0 THEN facts ELSE ApplyLine(g[i - 1], file[i])]
    OBVIOUS
  <2> HIDE DEF g
  <2>2. Compiled(g, facts, file, 0)
    BY <2>1 DEF Compiled
  <2> QED
    BY <2>2
<1>2. ASSUME NEW n \in Nat, n \in S PROVE n + 1 \in S
  <2>1. PICK f : Compiled(f, facts, file, n)
    BY <1>2
  <2>2. PICK x : x = ApplyLine(f[n], file[n + 1])
    OBVIOUS
  <2>3. PICK g : g = [i \in 0..(n + 1) |-> IF i = n + 1 THEN x ELSE f[i]]
    OBVIOUS
  <2>4. ASSUME NEW i \in 0..(n + 1)
        PROVE  g[i] = IF i = 0 THEN facts ELSE ApplyLine(g[i - 1], file[i])
    <3>1. CASE i = n + 1
      <4>1. n \in 0..(n + 1) /\ n # n + 1 /\ i - 1 = n /\ i # 0
        BY <3>1
      <4>2. g[n] = f[n] /\ g[i] = x
        BY <2>3, <3>1, <4>1
      <4> QED
        BY <2>2, <3>1, <4>1, <4>2
    <3>2. CASE i # n + 1
      <4>1. i \in 0..n /\ (i # 0 => i - 1 \in 0..(n + 1) /\ i - 1 # n + 1)
        BY <3>2
      <4>2. g[i] = f[i] /\ (i # 0 => g[i - 1] = f[i - 1])
        BY <2>3, <3>2, <4>1
      <4>3. f[i] = IF i = 0 THEN facts ELSE ApplyLine(f[i - 1], file[i])
        BY <2>1, <4>1 DEF Compiled
      <4> QED
        BY <4>2, <4>3
    <3> QED
      BY <3>1, <3>2
  <2>5. g = [i \in 0..(n + 1) |-> g[i]]
    BY <2>3
  <2>6. Compiled(g, facts, file, n + 1)
    BY <2>4, <2>5 DEF Compiled
  <2> QED
    BY <2>6
<1> HIDE DEF S
<1>3. Nat \subseteq S
  BY <1>1, <1>2, SetInduction
<1> QED
  BY <1>3 DEF S

\* No line of a file that was counted without a failure tells of one.
LEMMA FileCounts ==
  ASSUME NEW facts, CountsFailed(facts), NEW file \in Seq(AllLines)
  PROVE  /\ CountsFailed(ApplyFile(facts, file))
         /\ ApplyFile(facts, file).failed = 0 => \A i \in DOMAIN file : file[i].type # FailedType
<1>1. Len(file) \in Nat /\ DOMAIN file = 1..Len(file)
  OBVIOUS
<1>2. \E f : Compiled(f, facts, file, Len(file))
  BY <1>1, CompiledSomehow
<1>3. PICK f : Compiled(f, facts, file, Len(file)) /\ ApplyFile(facts, file) = f[Len(file)]
  BY <1>2 DEF Compiled, ApplyFile
<1> DEFINE S == {n \in Nat : n <= Len(file) =>
                  /\ CountsFailed(f[n])
                  /\ f[n].failed = 0 => \A i \in 1..n : file[i].type # FailedType}
<1>4. 0 \in S
  <2>1. f[0] = facts
    BY <1>1, <1>3 DEF Compiled
  <2> QED
    BY <2>1
<1>5. ASSUME NEW n \in Nat, n \in S PROVE n + 1 \in S
  <2> SUFFICES ASSUME n + 1 <= Len(file)
               PROVE  /\ CountsFailed(f[n + 1])
                      /\ f[n + 1].failed = 0 => \A i \in 1..(n + 1) : file[i].type # FailedType
    OBVIOUS
  <2>1. n <= Len(file) /\ n + 1 \in 0..Len(file) /\ n + 1 # 0 /\ (n + 1) - 1 = n
    BY <1>1
  <2>2. CountsFailed(f[n]) /\ (f[n].failed = 0 => \A i \in 1..n : file[i].type # FailedType)
    BY <1>5, <2>1
  <2>3. f[n + 1] = ApplyLine(f[n], file[n + 1])
    BY <1>3, <2>1 DEF Compiled
  <2>4. PICK g : g = f[n + 1]
    OBVIOUS
  <2>5. /\ CountsFailed(g) /\ g.failed >= f[n].failed
        /\ file[n + 1].type = FailedType => g.failed > 0
    BY <2>2, <2>3, <2>4, LineCounts
  <2>6. ASSUME g.failed = 0, NEW i \in 1..(n + 1) PROVE file[i].type # FailedType
    <3>1. f[n].failed = 0
      BY <2>2, <2>5, <2>6 DEF CountsFailed
    <3>2. CASE i = n + 1
      BY <2>5, <2>6, <3>2
    <3>3. CASE i # n + 1
      <4>1. i \in 1..n
        BY <3>3
      <4> QED
        BY <2>2, <3>1, <4>1
    <3> QED
      BY <3>2, <3>3
  <2> QED
    BY <2>4, <2>5, <2>6
<1> HIDE DEF S
<1>6. Nat \subseteq S
  BY <1>4, <1>5, SetInduction
<1>7. Len(file) \in S /\ Len(file) <= Len(file)
  BY <1>1, <1>6
<1> QED
  BY <1>1, <1>3, <1>7 DEF S

LEMMA WorldStarts == WorldInit => WorldInv
<1> SUFFICES ASSUME WorldInit PROVE WorldInv
  OBVIOUS
<1>1. <<>> \in Seq(AllLines) /\ <<>> \in Seq(JournalFiles)
  OBVIOUS
<1>2. lines \in [JournalFiles -> Seq(AllLines)] /\ reading.at \in [JournalFiles -> Seq(AllLines)]
  BY <1>1 DEF WorldInit, NotReading
<1>3. /\ DOMAIN reading = {"todo", "facts", "at"} /\ reading.todo = <<>> /\ reading.facts = NoFacts
      /\ snapshot.verdict = "none" /\ "tempyr" \in JournalFiles
  BY JournalFilesAre DEF WorldInit, NotReading, NoWorld
<1>4. reading.at["tempyr"] = <<>> /\ lines["tempyr"] = <<>>
  BY <1>3 DEF WorldInit, NotReading
<1>5. CountsFailed(reading.facts)
  BY <1>3 DEF CountsFailed, NoFacts
<1> QED
  BY <1>1, <1>2, <1>3, <1>4, <1>5 DEF WorldInv, ReadyIsSound

LEMMA AddsKept ==
  ASSUME WorldInv, NEW f \in JournalFiles, NEW line \in LinesOf(f), Adds(f, line), rooted' = rooted
  PROVE  WorldInv'
<1>1. line \in AllLines
  BY DEF AllLines
<1>2. lines' = [lines EXCEPT ![f] = Append(lines[f], line)] /\ snapshot' = NoWorld
      /\ (reading' = NotReading \/ reading' = reading)
  BY DEF Adds
<1>3. lines[f] \in Seq(AllLines)
  BY DEF WorldInv
<1>4. PICK l : l = Append(lines[f], line)
  OBVIOUS
<1>5. /\ l \in Seq(AllLines) /\ Len(l) = Len(lines[f]) + 1 /\ Len(lines[f]) \in Nat
      /\ DOMAIN lines[f] \subseteq DOMAIN l /\ \A i \in DOMAIN lines[f] : l[i] = lines[f][i]
  BY <1>1, <1>3, <1>4
<1>6. lines' \in [JournalFiles -> Seq(AllLines)] /\ lines'[f] = l
      /\ \A g \in JournalFiles : g # f => lines'[g] = lines[g]
  BY <1>2, <1>4, <1>5 DEF WorldInv
<1>7. snapshot'.verdict = "none"
  BY <1>2 DEF NoWorld
<1>8. ReadyIsSound'
  BY <1>7 DEF ReadyIsSound
<1>9. "tempyr" \in JournalFiles
  BY JournalFilesAre
<1>10. CASE reading' = reading
  <2>1. PICK a : a = reading.at["tempyr"]
    OBVIOUS
  <2>2. PICK k : k = lines["tempyr"]
    OBVIOUS
  <2>3. PICK m : m = lines'["tempyr"]
    OBVIOUS
  <2>4. a \in Seq(AllLines) /\ k \in Seq(AllLines) /\ Len(a) <= Len(k) /\ \A i \in DOMAIN a : a[i] = k[i]
    BY <1>9, <2>1, <2>2 DEF WorldInv
  <2>5. Len(k) <= Len(m) /\ Len(m) \in Nat /\ \A i \in DOMAIN k : m[i] = k[i]
    <3>1. CASE f = "tempyr"
      BY <1>4, <1>5, <1>6, <2>2, <2>3, <3>1
    <3>2. CASE f # "tempyr"
      BY <1>6, <1>9, <2>2, <2>3, <2>4, <3>2
    <3> QED
      BY <3>1, <3>2
  <2>6. Len(a) <= Len(m) /\ \A i \in DOMAIN a : a[i] = m[i]
    BY <2>4, <2>5
  <2>7. reading'.at["tempyr"] = a
    BY <1>10, <2>1
  <2> QED
    BY <1>6, <1>8, <1>10, <2>3, <2>6, <2>7 DEF WorldInv
<1>11. CASE reading' = NotReading
  <2>1. /\ DOMAIN reading' = {"todo", "facts", "at"} /\ reading'.todo = <<>> /\ reading'.facts = NoFacts
        /\ reading'.at = [g \in JournalFiles |-> <<>>]
    BY <1>11 DEF NotReading
  <2>2. CountsFailed(reading.facts)'
    BY <2>1 DEF CountsFailed, NoFacts
  <2>3. <<>> \in Seq(AllLines) /\ <<>> \in Seq(JournalFiles)
    OBVIOUS
  <2>4. reading'.at["tempyr"] = <<>> /\ lines'["tempyr"] \in Seq(AllLines)
    BY <1>6, <1>9, <2>1
  <2>5. Len(reading'.at["tempyr"]) <= Len(lines'["tempyr"]) /\ DOMAIN reading'.at["tempyr"] = {}
    BY <2>4
  <2>6. reading'.at \in [JournalFiles -> Seq(AllLines)] /\ reading'.todo \in Seq(JournalFiles)
    BY <2>1, <2>3
  <2> QED
    BY <1>6, <1>8, <2>1, <2>2, <2>5, <2>6 DEF WorldInv
<1> QED
  BY <1>2, <1>10, <1>11

LEMMA ReadFileKept == ASSUME WorldInv, BeginSnapshot \/ ReadFile PROVE WorldInv'
<1>1. lines' = lines /\ rooted' = rooted
  BY DEF BeginSnapshot, ReadFile
<1>2. CASE BeginSnapshot
  <2>1. /\ DOMAIN reading' = {"todo", "facts", "at"} /\ reading'.todo = FileOrder
        /\ reading'.facts = NoFacts /\ reading'.at = lines /\ snapshot' = NoWorld
    BY <1>2 DEF BeginSnapshot
  <2>2. CountsFailed(reading.facts)'
    BY <2>1 DEF CountsFailed, NoFacts
  <2>3. ReadyIsSound'
    BY <2>1 DEF ReadyIsSound, NoWorld
  <2>4. lines["tempyr"] \in Seq(AllLines)
    BY JournalFilesAre DEF WorldInv
  <2>5. Len(reading'.at["tempyr"]) <= Len(lines'["tempyr"])
    BY <1>1, <2>1, <2>4
  <2> QED
    BY <1>1, <2>1, <2>2, <2>3, <2>5, FileOrderSeq DEF WorldInv
<1>3. CASE ReadFile
  <2>1. PICK todo : todo = reading.todo
    OBVIOUS
  <2>2. todo \in Seq(JournalFiles) /\ Len(todo) > 0
    BY <1>3, <2>1 DEF ReadFile, WorldInv
  <2>3. PICK g : g = Head(todo)
    OBVIOUS
  <2>4. g \in JournalFiles /\ Tail(todo) \in Seq(JournalFiles)
    BY <2>2, <2>3
  <2>5. PICK facts : facts = ApplyFile(reading.facts, lines[g])
    OBVIOUS
  <2>6. lines[g] \in Seq(AllLines) /\ CountsFailed(reading.facts)
    BY <2>4 DEF WorldInv
  <2>7. CountsFailed(facts)
    BY <2>5, <2>6, FileCounts
  <2>8. reading' = [reading EXCEPT !.todo = Tail(todo), !.facts = facts] /\ snapshot' = snapshot
    BY <1>3, <2>1, <2>3, <2>5 DEF ReadFile
  <2>9. /\ DOMAIN reading' = {"todo", "facts", "at"} /\ reading'.todo = Tail(todo)
        /\ reading'.facts = facts /\ reading'.at = reading.at
    BY <2>8 DEF WorldInv
  <2> QED
    BY <1>1, <2>4, <2>7, <2>8, <2>9 DEF WorldInv, ReadyIsSound
<1> QED
  BY <1>2, <1>3

LEMMA AnswerSnapshotKept == ASSUME WorldInv, AnswerSnapshot PROVE WorldInv'
<1>1. lines' = lines /\ rooted' = rooted /\ github' = github
      /\ reading' = [reading EXCEPT !.todo = <<>>, !.facts = NoFacts]
  BY DEF AnswerSnapshot
<1>2. /\ DOMAIN reading' = {"todo", "facts", "at"} /\ reading'.todo = <<>>
      /\ reading'.facts = NoFacts /\ reading'.at = reading.at
  BY <1>1 DEF WorldInv
<1>3. PICK facts : facts = ApplyFile(reading.facts, lines["tempyr"])
  OBVIOUS
<1>4. PICK tags : tags = Tags(facts)
  OBVIOUS
<1>5. snapshot'.verdict = Readiness(BlockersFor(tags))
  BY <1>3, <1>4 DEF AnswerSnapshot
<1>6. lines["tempyr"] \in Seq(AllLines) /\ CountsFailed(reading.facts)
  BY JournalFilesAre DEF WorldInv
<1>7. /\ CountsFailed(facts)
      /\ facts.failed = 0 => \A i \in DOMAIN lines["tempyr"] : lines["tempyr"][i].type # FailedType
  BY <1>3, <1>6, FileCounts
<1>8. /\ "session" \in DOMAIN tags /\ "tempyr" \in DOMAIN tags
      /\ (~rooted => tags.session = "unavailable")
      /\ (facts.failed # 0 => tags.tempyr = "unavailable")
  BY <1>4 DEF Tags, Tag
<1>9. ASSUME snapshot'.verdict = "Ready" PROVE rooted /\ facts.failed = 0
  <2>1. BlockersFor(tags) = {}
    BY <1>5, <1>9 DEF Readiness
  <2>2. "session" \notin BlockersFor(tags) /\ "tempyr" \notin BlockersFor(tags)
    BY <2>1
  <2> QED
    BY <1>8, <2>2 DEF BlockersFor
<1>10. PICK a : a = reading.at["tempyr"]
  OBVIOUS
<1>11. \A i \in DOMAIN a : i \in DOMAIN lines["tempyr"] /\ a[i] = lines["tempyr"][i]
  <2>1. a \in Seq(AllLines) /\ Len(a) <= Len(lines["tempyr"]) /\ "tempyr" \in JournalFiles
    BY <1>10, JournalFilesAre DEF WorldInv
  <2>2. DOMAIN a \subseteq DOMAIN lines["tempyr"]
    BY <1>6, <2>1
  <2> QED
    BY <1>10, <2>2 DEF WorldInv
<1>12. ReadyIsSound'
  <2> SUFFICES ASSUME snapshot'.verdict = "Ready" PROVE rooted' /\ Failed(reading'.at["tempyr"]) = {}
    BY DEF ReadyIsSound
  <2>1. \A i \in DOMAIN a : a[i].type # FailedType
    BY <1>7, <1>9, <1>11
  <2>2. Failed(a) = {}
    BY <2>1 DEF Failed, OfType, FailedType
  <2> QED
    BY <1>1, <1>2, <1>9, <1>10, <2>2
<1>13. CountsFailed(reading.facts)'
  BY <1>2 DEF CountsFailed, NoFacts
<1>14. <<>> \in Seq(JournalFiles)
  OBVIOUS
<1> QED
  BY <1>1, <1>2, <1>12, <1>13, <1>14 DEF WorldInv

LEMMA WorldInvKept == WorldInv /\ [WorldNext]_worldVars => WorldInv'
<1> SUFFICES ASSUME WorldInv, [WorldNext]_worldVars PROVE WorldInv'
  OBVIOUS
<1>1. ASSUME NEW f \in JournalFiles, NEW line \in LinesOf(f), Journal(f, line) \/ JournalAgain(f, line)
      PROVE  WorldInv'
  <2>1. Adds(f, line) /\ rooted' = rooted
    BY <1>1 DEF Journal, JournalAgain
  <2> QED
    BY <2>1, AddsKept
<1>2. CASE UNCHANGED worldVars
  BY <1>2 DEF worldVars, WorldInv, CountsFailed, ReadyIsSound
<1> QED
  BY <1>1, <1>2, ReadFileKept, AnswerSnapshotKept DEF WorldNext

-----------------------------------------------------------------------------
(***************************************************************************)
(* What a line of a file makes of the facts: those of no other file.       *)
(***************************************************************************)
TempyrTypes ==
  {"tempyr.write-pending", "tempyr.write-confirmed", "tempyr.write-permanently-failed"}
PrTypes == {"pr.opened", "pr.review-received", "pr.merged"}
PickerTypes == {"picker.spawned", "picker.exited", "picker.killed"}
EndTypes == {"picker.exited", "picker.killed"}
WorldFactsType ==
  [session : Pickers \union {NoPicker}, status : {"none", "running"} \union EndTypes,
   tree : BOOLEAN, stale : {"none", "behind"}, pr : {"none", "open", "closed", "merged"},
   ci : {"none", "success", "failure"}, reviews : Nat, pending : Nat, failed : Nat,
   deadEnds : Nat, told : Nat]

\* The facts that the lines of one file say.
FactsOf(f, x) ==
  CASE f = "branch" -> <<x.stale>>
    [] f = "picker" -> <<x.session, x.status>>
    [] f = "pr" -> <<x.pr, x.ci, x.reviews>>
    [] f = "tempyr" -> <<x.pending, x.failed, x.deadEnds>>
    [] OTHER -> <<>>

\* What a file may add to the facts.
Extends(f, x, y) ==
  /\ y \in WorldFactsType /\ (x.tree => y.tree)
  /\ \A g \in JournalFiles : g # f => FactsOf(g, y) = FactsOf(g, x)

LEMMA LinesAre ==
  /\ \A line \in LinesOf("branch") : line = Line("branch.staleness-updated", "behind")
  /\ \A line \in LinesOf("worktree") : line = Line("worktree.created", "none")
  /\ \A line \in LinesOf("picker") :
       line.type \in PickerTypes /\ line.id \in Pickers /\ line = Line(line.type, line.id)
  /\ \A line \in LinesOf("pr") :
       \/ line.type \in PrTypes /\ line.id = "none"
       \/ line.type = "pr.status-changed" /\ line.id \in {"open", "closed"}
       \/ line.type = "pr.ci.status-changed" /\ line.id \in {"success", "failure"}
  /\ \A line \in LinesOf("tempyr") :
       \/ line.type \in TempyrTypes /\ line.id \in GraphWrites /\ line = Line(line.type, line.id)
       \/ line.type = "tempyr.node-changed" /\ line.id = "dead_end"
<1>1. \A line \in LinesOf("branch") : line = Line("branch.staleness-updated", "behind")
  BY DEF LinesOf
<1>2. \A line \in LinesOf("worktree") : line = Line("worktree.created", "none")
  BY DEF LinesOf
<1>3. ASSUME NEW line \in LinesOf("picker")
      PROVE  line.type \in PickerTypes /\ line.id \in Pickers /\ line = Line(line.type, line.id)
  BY <1>3 DEF LinesOf, Line, PickerTypes
<1>4. ASSUME NEW line \in LinesOf("pr")
      PROVE  \/ line.type \in PrTypes /\ line.id = "none"
             \/ line.type = "pr.status-changed" /\ line.id \in {"open", "closed"}
             \/ line.type = "pr.ci.status-changed" /\ line.id \in {"success", "failure"}
  BY <1>4 DEF LinesOf, Line, PrTypes
<1>5. ASSUME NEW line \in LinesOf("tempyr")
      PROVE  \/ line.type \in TempyrTypes /\ line.id \in GraphWrites /\ line = Line(line.type, line.id)
             \/ line.type = "tempyr.node-changed" /\ line.id = "dead_end"
  <2>1. LinesOf("tempyr") = {Line(t, w) : t \in TempyrTypes, w \in GraphWrites}
                              \union {Line("tempyr.node-changed", "dead_end")}
    BY DEF LinesOf, TempyrTypes
  <2> QED
    BY <1>5, <2>1 DEF Line
<1> QED
  BY <1>1, <1>2, <1>3, <1>4, <1>5

LEMMA BranchExtends ==
  ASSUME NEW x \in WorldFactsType, NEW line, line.type = "branch.staleness-updated", line.id = "behind"
  PROVE  Extends("branch", x, ApplyLine(x, line)) /\ ApplyLine(x, line).stale = "behind"
<1>1. PICK y : y = [x EXCEPT !.stale = line.id]
  OBVIOUS
<1>2. ApplyLine(x, line) = y
  BY <1>1 DEF ApplyLine
<1>3. y \in WorldFactsType
  BY <1>1 DEF WorldFactsType
<1>4. /\ y.tree = x.tree /\ y.session = x.session /\ y.status = x.status /\ y.pr = x.pr
      /\ y.ci = x.ci /\ y.reviews = x.reviews /\ y.pending = x.pending /\ y.failed = x.failed
      /\ y.deadEnds = x.deadEnds /\ y.stale = "behind"
  BY <1>1 DEF WorldFactsType
<1> QED
  BY <1>2, <1>3, <1>4, JournalFilesAre DEF Extends, FactsOf

LEMMA TreeExtends ==
  ASSUME NEW x \in WorldFactsType, NEW line, line.type = "worktree.created"
  PROVE  Extends("worktree", x, ApplyLine(x, line)) /\ ApplyLine(x, line).tree
<1>1. PICK y : y = [x EXCEPT !.tree = TRUE]
  OBVIOUS
<1>2. ApplyLine(x, line) = y
  BY <1>1 DEF ApplyLine
<1>3. y \in WorldFactsType
  BY <1>1 DEF WorldFactsType
<1>4. /\ y.tree /\ y.session = x.session /\ y.status = x.status /\ y.pr = x.pr
      /\ y.ci = x.ci /\ y.reviews = x.reviews /\ y.pending = x.pending /\ y.failed = x.failed
      /\ y.deadEnds = x.deadEnds /\ y.stale = x.stale
  BY <1>1 DEF WorldFactsType
<1> QED
  BY <1>2, <1>3, <1>4, JournalFilesAre DEF Extends, FactsOf

LEMMA SpawnExtends ==
  ASSUME NEW x \in WorldFactsType, NEW line, line.type = "picker.spawned", line.id \in Pickers
  PROVE  /\ Extends("picker", x, ApplyLine(x, line))
         /\ ApplyLine(x, line).session = line.id /\ ApplyLine(x, line).status = "running"
<1>1. PICK y : y = [x EXCEPT !.session = line.id, !.status = "running", !.tree = TRUE]
  OBVIOUS
<1>2. ApplyLine(x, line) = y
  BY <1>1 DEF ApplyLine
<1>3. y \in WorldFactsType
  BY <1>1 DEF WorldFactsType
<1>4. /\ y.tree /\ y.session = line.id /\ y.status = "running" /\ y.pr = x.pr
      /\ y.ci = x.ci /\ y.reviews = x.reviews /\ y.pending = x.pending /\ y.failed = x.failed
      /\ y.deadEnds = x.deadEnds /\ y.stale = x.stale
  BY <1>1 DEF WorldFactsType
<1> QED
  BY <1>2, <1>3, <1>4, JournalFilesAre DEF Extends, FactsOf

LEMMA EndExtends ==
  ASSUME NEW x \in WorldFactsType, NEW line, line.type \in EndTypes, line.id \in Pickers
  PROVE  /\ Extends("picker", x, ApplyLine(x, line))
         /\ ApplyLine(x, line).session = (IF x.session = NoPicker THEN line.id ELSE x.session)
         /\ ApplyLine(x, line).status = line.type
<1>1. PICK s : s = IF x.session = NoPicker THEN line.id ELSE x.session
  OBVIOUS
<1>2. PICK y : y = [x EXCEPT !.session = s, !.status = line.type]
  OBVIOUS
<1>3. ApplyLine(x, line) = y
  BY <1>1, <1>2 DEF ApplyLine, EndPicker, EndTypes
<1>4. s \in Pickers \union {NoPicker}
  BY <1>1 DEF WorldFactsType
<1>5. y \in WorldFactsType
  BY <1>2, <1>4 DEF WorldFactsType
<1>6. /\ y.tree = x.tree /\ y.session = s /\ y.status = line.type /\ y.pr = x.pr
      /\ y.ci = x.ci /\ y.reviews = x.reviews /\ y.pending = x.pending /\ y.failed = x.failed
      /\ y.deadEnds = x.deadEnds /\ y.stale = x.stale
  BY <1>2 DEF WorldFactsType
<1> QED
  BY <1>1, <1>3, <1>5, <1>6, JournalFilesAre DEF Extends, FactsOf

\* What a line about the PR makes of the facts of it.
PrAfter(line, x, y) ==
  /\ y.pr = CASE line.type = "pr.opened" -> "open" [] line.type = "pr.merged" -> "merged"
              [] line.type = "pr.status-changed" -> line.id [] OTHER -> x.pr
  /\ y.ci = IF line.type = "pr.ci.status-changed" THEN line.id ELSE x.ci
  /\ y.reviews = x.reviews + (IF line.type = "pr.review-received" THEN 1 ELSE 0)

LEMMA PrExtends ==
  ASSUME NEW x \in WorldFactsType, NEW line \in LinesOf("pr")
  PROVE  Extends("pr", x, ApplyLine(x, line)) /\ PrAfter(line, x, ApplyLine(x, line))
<1>1. ASSUME NEW y \in WorldFactsType, y.tree = x.tree, y.session = x.session, y.status = x.status,
             y.pending = x.pending, y.failed = x.failed, y.deadEnds = x.deadEnds, y.stale = x.stale
      PROVE  Extends("pr", x, y)
  BY <1>1, JournalFilesAre DEF Extends, FactsOf
<1>2. x.reviews \in Nat
  BY DEF WorldFactsType
<1>3. CASE line.type = "pr.opened"
  <2>1. PICK y : y = [x EXCEPT !.pr = "open"]
    OBVIOUS
  <2>2. ApplyLine(x, line) = y
    BY <1>3, <2>1 DEF ApplyLine
  <2>3. y \in WorldFactsType
    BY <1>2, <1>3, <2>1, LinesAre DEF WorldFactsType, PrTypes
  <2>4. /\ y.tree = x.tree /\ y.session = x.session /\ y.status = x.status /\ y.stale = x.stale
        /\ y.pending = x.pending /\ y.failed = x.failed /\ y.deadEnds = x.deadEnds
        /\ y.pr = "open" /\ y.ci = x.ci /\ y.reviews = x.reviews
    BY <2>1 DEF WorldFactsType
  <2>5. Extends("pr", x, y)
    BY <1>1, <2>3, <2>4
  <2> QED
    BY <1>2, <1>3, <2>2, <2>4, <2>5 DEF PrAfter
<1>4. CASE line.type = "pr.merged"
  <2>1. PICK y : y = [x EXCEPT !.pr = "merged"]
    OBVIOUS
  <2>2. ApplyLine(x, line) = y
    BY <1>4, <2>1 DEF ApplyLine
  <2>3. y \in WorldFactsType
    BY <1>2, <1>4, <2>1, LinesAre DEF WorldFactsType, PrTypes
  <2>4. /\ y.tree = x.tree /\ y.session = x.session /\ y.status = x.status /\ y.stale = x.stale
        /\ y.pending = x.pending /\ y.failed = x.failed /\ y.deadEnds = x.deadEnds
        /\ y.pr = "merged" /\ y.ci = x.ci /\ y.reviews = x.reviews
    BY <2>1 DEF WorldFactsType
  <2>5. Extends("pr", x, y)
    BY <1>1, <2>3, <2>4
  <2> QED
    BY <1>2, <1>4, <2>2, <2>4, <2>5 DEF PrAfter
<1>5. CASE line.type = "pr.review-received"
  <2>1. PICK y : y = [x EXCEPT !.reviews = x.reviews + 1]
    OBVIOUS
  <2>2. ApplyLine(x, line) = y
    BY <1>5, <2>1 DEF ApplyLine
  <2>3. y \in WorldFactsType
    BY <1>2, <1>5, <2>1, LinesAre DEF WorldFactsType, PrTypes
  <2>4. /\ y.tree = x.tree /\ y.session = x.session /\ y.status = x.status /\ y.stale = x.stale
        /\ y.pending = x.pending /\ y.failed = x.failed /\ y.deadEnds = x.deadEnds
        /\ y.pr = x.pr /\ y.ci = x.ci /\ y.reviews = x.reviews + 1
    BY <2>1 DEF WorldFactsType
  <2>5. Extends("pr", x, y)
    BY <1>1, <2>3, <2>4
  <2> QED
    BY <1>2, <1>5, <2>2, <2>4, <2>5 DEF PrAfter
<1>6. CASE line.type = "pr.status-changed"
  <2>1. PICK y : y = [x EXCEPT !.pr = line.id]
    OBVIOUS
  <2>2. ApplyLine(x, line) = y
    BY <1>6, <2>1 DEF ApplyLine
  <2>3. y \in WorldFactsType
    BY <1>2, <1>6, <2>1, LinesAre DEF WorldFactsType, PrTypes
  <2>4. /\ y.tree = x.tree /\ y.session = x.session /\ y.status = x.status /\ y.stale = x.stale
        /\ y.pending = x.pending /\ y.failed = x.failed /\ y.deadEnds = x.deadEnds
        /\ y.pr = line.id /\ y.ci = x.ci /\ y.reviews = x.reviews
    BY <2>1 DEF WorldFactsType
  <2>5. Extends("pr", x, y)
    BY <1>1, <2>3, <2>4
  <2> QED
    BY <1>2, <1>6, <2>2, <2>4, <2>5 DEF PrAfter
<1>7. CASE line.type = "pr.ci.status-changed"
  <2>1. PICK y : y = [x EXCEPT !.ci = line.id]
    OBVIOUS
  <2>2. ApplyLine(x, line) = y
    BY <1>7, <2>1 DEF ApplyLine
  <2>3. y \in WorldFactsType
    BY <1>2, <1>7, <2>1, LinesAre DEF WorldFactsType, PrTypes
  <2>4. /\ y.tree = x.tree /\ y.session = x.session /\ y.status = x.status /\ y.stale = x.stale
        /\ y.pending = x.pending /\ y.failed = x.failed /\ y.deadEnds = x.deadEnds
        /\ y.pr = x.pr /\ y.ci = line.id /\ y.reviews = x.reviews
    BY <2>1 DEF WorldFactsType
  <2>5. Extends("pr", x, y)
    BY <1>1, <2>3, <2>4
  <2> QED
    BY <1>2, <1>7, <2>2, <2>4, <2>5 DEF PrAfter
<1> QED
  BY <1>3, <1>4, <1>5, <1>6, <1>7, LinesAre DEF PrTypes

\* What a line about the graph makes of the facts of it.
TempyrAfter(line, x, y) ==
  /\ y.pending = CASE line.type = "tempyr.write-pending" -> x.pending + 1
                   [] line.type = "tempyr.node-changed" -> x.pending
                   [] OTHER -> Less(x.pending)
  /\ y.failed = x.failed + (IF line.type = "tempyr.write-permanently-failed" THEN 1 ELSE 0)
  /\ y.deadEnds = x.deadEnds + (IF line.type = "tempyr.node-changed" THEN 1 ELSE 0)

LEMMA TempyrExtends ==
  ASSUME NEW x \in WorldFactsType, NEW line \in LinesOf("tempyr")
  PROVE  Extends("tempyr", x, ApplyLine(x, line)) /\ TempyrAfter(line, x, ApplyLine(x, line))
<1>1. ASSUME NEW y \in WorldFactsType, y.tree = x.tree, y.session = x.session, y.status = x.status,
             y.pr = x.pr, y.ci = x.ci, y.reviews = x.reviews, y.stale = x.stale
      PROVE  Extends("tempyr", x, y)
  BY <1>1, JournalFilesAre DEF Extends, FactsOf
<1>2. /\ x.pending \in Nat /\ x.failed \in Nat /\ x.deadEnds \in Nat /\ x.told \in Nat
      /\ Less(x.pending) \in Nat /\ x.pending + 1 \in Nat /\ x.failed + 1 \in Nat
      /\ x.deadEnds + 1 \in Nat /\ x.told + 1 \in Nat
  BY DEF WorldFactsType, Less
<1>3. CASE line.type = "tempyr.write-pending"
  <2>1. PICK y : y = [x EXCEPT !.pending = x.pending + 1, !.told = x.told + 1]
    OBVIOUS
  <2>2. ApplyLine(x, line) = y
    BY <1>3, <2>1 DEF ApplyLine
  <2>3. y \in WorldFactsType
    BY <1>2, <2>1 DEF WorldFactsType
  <2>4. /\ y.tree = x.tree /\ y.session = x.session /\ y.status = x.status /\ y.stale = x.stale
        /\ y.pr = x.pr /\ y.ci = x.ci /\ y.reviews = x.reviews
        /\ y.pending = x.pending + 1 /\ y.failed = x.failed /\ y.deadEnds = x.deadEnds
    BY <2>1 DEF WorldFactsType
  <2>5. Extends("tempyr", x, y)
    BY <1>1, <2>3, <2>4
  <2> QED
    BY <1>2, <1>3, <2>2, <2>4, <2>5 DEF TempyrAfter
<1>4. CASE line.type = "tempyr.write-confirmed"
  <2>6. PICK z : z = [x EXCEPT !.pending = Less(x.pending), !.failed = x.failed]
    OBVIOUS
  <2>7. Settle(x, line.type) = z
    <3>1. Settle(x, line.type) = [x EXCEPT !.pending = Less(@), !.failed = @]
      BY <1>4 DEF Settle
    <3> QED
      BY <2>6, <3>1
  <2>8. z \in WorldFactsType /\ z.told = x.told
    BY <1>2, <2>6 DEF WorldFactsType
  <2>1. PICK y : y = [z EXCEPT !.told = z.told + 1]
    OBVIOUS
  <2>2. ApplyLine(x, line) = y
    <3>1. ApplyLine(x, line) = [Settle(x, line.type) EXCEPT !.told = @ + 1]
      BY <1>4 DEF ApplyLine
    <3> QED
      BY <2>1, <2>7, <3>1
  <2>3. y \in WorldFactsType
    BY <1>2, <2>1, <2>8 DEF WorldFactsType
  <2>4. /\ y.tree = x.tree /\ y.session = x.session /\ y.status = x.status /\ y.stale = x.stale
        /\ y.pr = x.pr /\ y.ci = x.ci /\ y.reviews = x.reviews
        /\ y.pending = Less(x.pending) /\ y.failed = x.failed /\ y.deadEnds = x.deadEnds
    BY <2>1, <2>6, <2>8 DEF WorldFactsType
  <2>5. Extends("tempyr", x, y)
    BY <1>1, <2>3, <2>4
  <2> QED
    BY <1>2, <1>4, <2>2, <2>4, <2>5 DEF TempyrAfter
<1>5. CASE line.type = "tempyr.write-permanently-failed"
  <2>6. PICK z : z = [x EXCEPT !.pending = Less(x.pending), !.failed = x.failed + 1]
    OBVIOUS
  <2>7. Settle(x, line.type) = z
    BY <1>5, <2>6 DEF Settle
  <2>8. z \in WorldFactsType /\ z.told = x.told
    BY <1>2, <2>6 DEF WorldFactsType
  <2>1. PICK y : y = [z EXCEPT !.told = z.told + 1]
    OBVIOUS
  <2>2. ApplyLine(x, line) = y
    <3>1. ApplyLine(x, line) = [Settle(x, line.type) EXCEPT !.told = @ + 1]
      BY <1>5 DEF ApplyLine
    <3> QED
      BY <2>1, <2>7, <3>1
  <2>3. y \in WorldFactsType
    BY <1>2, <2>1, <2>8 DEF WorldFactsType
  <2>4. /\ y.tree = x.tree /\ y.session = x.session /\ y.status = x.status /\ y.stale = x.stale
        /\ y.pr = x.pr /\ y.ci = x.ci /\ y.reviews = x.reviews
        /\ y.pending = Less(x.pending) /\ y.failed = x.failed + 1 /\ y.deadEnds = x.deadEnds
    BY <2>1, <2>6, <2>8 DEF WorldFactsType
  <2>5. Extends("tempyr", x, y)
    BY <1>1, <2>3, <2>4
  <2> QED
    BY <1>2, <1>5, <2>2, <2>4, <2>5 DEF TempyrAfter
<1>6. CASE line.type = "tempyr.node-changed"
  <2>1. PICK y : y = [x EXCEPT !.deadEnds = x.deadEnds + 1, !.told = x.told + 1]
    OBVIOUS
  <2>2. ApplyLine(x, line) = y
    BY <1>6, <2>1 DEF ApplyLine
  <2>3. y \in WorldFactsType
    BY <1>2, <2>1 DEF WorldFactsType
  <2>4. /\ y.tree = x.tree /\ y.session = x.session /\ y.status = x.status /\ y.stale = x.stale
        /\ y.pr = x.pr /\ y.ci = x.ci /\ y.reviews = x.reviews
        /\ y.pending = x.pending /\ y.failed = x.failed /\ y.deadEnds = x.deadEnds + 1
    BY <2>1 DEF WorldFactsType
  <2>5. Extends("tempyr", x, y)
    BY <1>1, <2>3, <2>4
  <2> QED
    BY <1>2, <1>6, <2>2, <2>4, <2>5 DEF TempyrAfter
<1> QED
  BY <1>3, <1>4, <1>5, <1>6, LinesAre DEF TempyrTypes

-----------------------------------------------------------------------------
(***************************************************************************)
(* What the first n lines of a file say, told without the fold: the latest *)
(* line of a kind, the writes that nothing has settled yet.  The lines come*)
(* in the order in which the services publish.                             *)
(***************************************************************************)
\* The latest of the first n lines that has one of the types, and what it says.
Latest(log, n, types, k) ==
  /\ k \in 1..n /\ log[k].type \in types
  /\ \A i \in (k + 1)..n : log[i].type \notin types
LatestSays(log, n, types, v) ==
  IF \E i \in 1..n : log[i].type \in types THEN \E k \in 1..n : Latest(log, n, types, k) /\ v = log[k].id
  ELSE v = "none"
OfTypes(log, n, types) == {i \in 1..n : log[i].type \in types}

\* The order in which the services publish, line by line.
PickerOrderly(log) ==
  \A m \in 1..Len(log) :
    IF log[m].type = "picker.spawned"
      THEN \A i \in 1..(m - 1) : log[i].type = "picker.spawned" => log[i].id # log[m].id
      ELSE /\ \E i \in 1..(m - 1) : log[i].type = "picker.spawned" /\ log[i].id = log[m].id
           /\ \A i \in 1..(m - 1) : log[i].type \in EndTypes => log[i].id # log[m].id
PrOrderly(log) ==
  \A m \in 1..Len(log) :
    IF log[m].type = "pr.opened" THEN \A i \in 1..(m - 1) : log[i].type # "pr.opened"
    ELSE /\ \E i \in 1..(m - 1) : log[i].type = "pr.opened"
         /\ \A i \in 1..(m - 1) : log[i].type # "pr.merged"
SettledTypes == {"tempyr.write-confirmed", "tempyr.write-permanently-failed"}
TempyrOrderly(log) ==
  \A m \in 1..Len(log) :
    /\ log[m].type = "tempyr.write-pending" =>
         \A i \in 1..(m - 1) : log[i].type = "tempyr.write-pending" => log[i].id # log[m].id
    /\ log[m].type \in SettledTypes =>
         /\ \E i \in 1..(m - 1) : log[i].type = "tempyr.write-pending" /\ log[i].id = log[m].id
         /\ \A i \in 1..(m - 1) : log[i].type \in SettledTypes => log[i].id # log[m].id
Orderly(f, log) ==
  CASE f = "picker" -> PickerOrderly(log) [] f = "pr" -> PrOrderly(log)
    [] f = "tempyr" -> TempyrOrderly(log) [] OTHER -> TRUE

\* A Picker has ended that was not the latest by then.
ClashUpTo(log, n) ==
  \E j \in 1..n : /\ log[j].type \in EndTypes
                  /\ \E k \in 1..(j - 1) : /\ Latest(log, j - 1, {"picker.spawned"}, k)
                                           /\ log[k].id # log[j].id
StatusOf(log, n, x) ==
  \/ \E j \in 1..n : log[j].type \in EndTypes /\ log[j].id = x.session /\ x.status = log[j].type
  \/ x.status = "running" /\ \A j \in 1..n : log[j].type \in EndTypes => log[j].id # x.session
PickerUpTo(log, n, x) ==
  IF n = 0 THEN x.session = NoPicker /\ x.status = "none"
  ELSE /\ \E k \in 1..n : Latest(log, n, {"picker.spawned"}, k) /\ x.session = log[k].id
       /\ ClashUpTo(log, n) \/ StatusOf(log, n, x)
PrUpTo(log, n, x) ==
  /\ LatestSays(log, n, {"pr.ci.status-changed"}, x.ci)
  /\ x.reviews = Cardinality(OfTypes(log, n, {"pr.review-received"}))
  /\ IF n = 0 THEN x.pr = "none"
     ELSE IF \E i \in 1..n : log[i].type = "pr.merged" THEN x.pr = "merged"
     ELSE IF \E i \in 1..n : log[i].type = "pr.status-changed"
       THEN LatestSays(log, n, {"pr.status-changed"}, x.pr)
       ELSE x.pr = "open"
PendingUpTo(log, n) ==
  {w \in GraphWrites : /\ \E i \in 1..n : log[i].id = w
                       /\ \A i \in 1..n : log[i].id = w => log[i].type = "tempyr.write-pending"}
TempyrUpTo(log, n, x) ==
  /\ IsFiniteSet(PendingUpTo(log, n)) /\ x.pending = Cardinality(PendingUpTo(log, n))
  /\ x.failed = Cardinality(OfTypes(log, n, {"tempyr.write-permanently-failed"}))
  /\ x.deadEnds = Cardinality(OfTypes(log, n, {"tempyr.node-changed"}))
UpTo(f, log, n, x) ==
  CASE f = "picker" -> PickerUpTo(log, n, x) [] f = "pr" -> PrUpTo(log, n, x)
    [] f = "tempyr" -> TempyrUpTo(log, n, x)
    [] f = "branch" -> x.stale = IF n = 0 THEN "none" ELSE "behind"
    [] OTHER -> n # 0 => x.tree

LEMMA OneMoreOf ==
  ASSUME NEW log, NEW n \in Nat, NEW types
  PROVE  /\ IsFiniteSet(OfTypes(log, n, types)) /\ Cardinality(OfTypes(log, n, types)) \in Nat
         /\ Cardinality(OfTypes(log, n + 1, types)) =
              Cardinality(OfTypes(log, n, types)) + (IF log[n + 1].type \in types THEN 1 ELSE 0)
<1>1. PICK S : S = OfTypes(log, n, types)
  OBVIOUS
<1>2. IsFiniteSet(1..n)
  BY FS_Interval
<1>3. S \subseteq 1..n
  BY <1>1 DEF OfTypes
<1>4. IsFiniteSet(S)
  BY <1>2, <1>3, FS_Subset
<1>5. Cardinality(S) \in Nat
  BY <1>4, FS_CardinalityType
<1>6. 1..(n + 1) = (1..n) \union {n + 1} /\ n + 1 \notin 1..n
  OBVIOUS
<1>7. CASE log[n + 1].type \in types
  <2>1. OfTypes(log, n + 1, types) = S \union {n + 1}
    BY <1>1, <1>6, <1>7 DEF OfTypes
  <2>2. n + 1 \notin S
    BY <1>3, <1>6
  <2>3. Cardinality(S \union {n + 1}) = Cardinality(S) + 1
    BY <1>4, <2>2, FS_AddElement
  <2> QED
    BY <1>1, <1>4, <1>5, <1>7, <2>1, <2>3
<1>8. CASE log[n + 1].type \notin types
  <2>1. OfTypes(log, n + 1, types) = S
    BY <1>1, <1>6, <1>8 DEF OfTypes
  <2> QED
    BY <1>1, <1>4, <1>5, <1>8, <2>1
<1> QED
  BY <1>7, <1>8

LEMMA OneMoreLatest ==
  ASSUME NEW log, NEW n \in Nat, NEW types, NEW v
  PROVE  /\ log[n + 1].type \in types => LatestSays(log, n + 1, types, log[n + 1].id)
         /\ log[n + 1].type \notin types /\ LatestSays(log, n, types, v) => LatestSays(log, n + 1, types, v)
<1>1. /\ n + 1 \in 1..(n + 1) /\ (n + 2)..(n + 1) = {} /\ 1..n \subseteq 1..(n + 1)
      /\ (n + 1) + 1 = n + 2 /\ \A i \in 1..(n + 1) : i = n + 1 \/ i \in 1..n
      /\ \A k \in 1..n : \A i \in (k + 1)..(n + 1) : i = n + 1 \/ i \in (k + 1)..n
  OBVIOUS
<1>2. ASSUME log[n + 1].type \in types PROVE LatestSays(log, n + 1, types, log[n + 1].id)
  <2>1. Latest(log, n + 1, types, n + 1)
    BY <1>1, <1>2 DEF Latest
  <2> QED
    BY <1>1, <1>2, <2>1 DEF LatestSays
<1>3. ASSUME log[n + 1].type \notin types, LatestSays(log, n, types, v)
      PROVE  LatestSays(log, n + 1, types, v)
  <2>1. \A k \in 1..n : Latest(log, n, types, k) => Latest(log, n + 1, types, k)
    BY <1>1, <1>3 DEF Latest
  <2>2. CASE \E i \in 1..n : log[i].type \in types
    <3>1. PICK k \in 1..n : Latest(log, n, types, k) /\ v = log[k].id
      BY <1>3, <2>2 DEF LatestSays
    <3>2. Latest(log, n + 1, types, k) /\ k \in 1..(n + 1) /\ log[k].type \in types
      BY <1>1, <2>1, <3>1 DEF Latest
    <3> QED
      BY <3>1, <3>2 DEF LatestSays
  <2>3. CASE ~ \E i \in 1..n : log[i].type \in types
    <3>1. ~ \E i \in 1..(n + 1) : log[i].type \in types
      BY <1>1, <1>3, <2>3
    <3> QED
      BY <1>3, <2>3, <3>1 DEF LatestSays
  <2> QED
    BY <2>2, <2>3
<1> QED
  BY <1>2, <1>3

LEMMA PickerLine ==
  ASSUME NEW log \in Seq(LinesOf("picker")), PickerOrderly(log), NEW n \in Nat, n + 1 <= Len(log),
         NEW x \in WorldFactsType, PickerUpTo(log, n, x), NEW y, y = ApplyLine(x, log[n + 1])
  PROVE  PickerUpTo(log, n + 1, y)
<1>1. Len(log) \in Nat /\ \A i \in 1..(n + 1) : i \in 1..Len(log) /\ log[i] \in LinesOf("picker")
  OBVIOUS
<1>2. /\ n + 1 # 0 /\ (n + 1) - 1 = n /\ n + 1 \in 1..(n + 1) /\ n + 1 \in 1..Len(log)
      /\ 1..n \subseteq 1..(n + 1) /\ (\A i \in 1..(n + 1) : i = n + 1 \/ i \in 1..n)
      /\ \A j \in 1..n : 1..(j - 1) \subseteq 1..n
  BY <1>1
<1>3. \A i \in 1..(n + 1) : log[i].type \in PickerTypes /\ log[i].id \in Pickers
  BY <1>1, LinesAre
<1>4. PICK line : line = log[n + 1]
  OBVIOUS
<1>5. CASE line.type = "picker.spawned"
  <2>1. y.session = line.id /\ y.status = "running"
    BY <1>2, <1>3, <1>4, <1>5, SpawnExtends
  <2>2. Latest(log, n + 1, {"picker.spawned"}, n + 1)
    BY <1>2, <1>4, <1>5 DEF Latest
  <2>3. ASSUME NEW j \in 1..(n + 1), log[j].type \in EndTypes PROVE log[j].id # y.session
    <3>1. j \in 1..n /\ j \in 1..Len(log) /\ log[j].type # "picker.spawned"
      BY <1>1, <1>2, <1>4, <1>5, <2>3 DEF EndTypes
    <3>2. PICK i \in 1..(j - 1) : log[i].type = "picker.spawned" /\ log[i].id = log[j].id
      BY <3>1 DEF PickerOrderly
    <3>3. i \in 1..n
      BY <1>2, <3>1
    <3>4. log[i].id # line.id
      BY <1>2, <1>4, <1>5, <3>2, <3>3 DEF PickerOrderly
    <3> QED
      BY <2>1, <3>2, <3>4
  <2>4. StatusOf(log, n + 1, y)
    BY <2>1, <2>3 DEF StatusOf
  <2> QED
    BY <1>2, <1>4, <2>1, <2>2, <2>4 DEF PickerUpTo
<1>6. CASE line.type # "picker.spawned"
  <2>1. line.type \in EndTypes /\ line.id \in Pickers
    BY <1>2, <1>3, <1>4, <1>6 DEF PickerTypes, EndTypes
  <2>2. n # 0
    <3>1. \E i \in 1..n : log[i].type = "picker.spawned"
      BY <1>2, <1>4, <1>6 DEF PickerOrderly
    <3> QED
      BY <3>1
  <2>3. PICK k \in 1..n : Latest(log, n, {"picker.spawned"}, k) /\ x.session = log[k].id
    BY <2>2 DEF PickerUpTo
  <2>4. x.session # NoPicker
    BY <1>2, <1>3, <2>3, WorldBoundsAssumption
  <2>5. y.session = x.session /\ y.status = line.type
    BY <1>4, <2>1, <2>4, EndExtends
  <2>6. Latest(log, n + 1, {"picker.spawned"}, k) /\ k \in 1..(n + 1)
    <3>1. \A i \in (k + 1)..(n + 1) : i = n + 1 \/ i \in (k + 1)..n
      OBVIOUS
    <3> QED
      BY <1>2, <1>4, <1>6, <2>3, <3>1 DEF Latest
  <2>7. CASE log[k].id = line.id
    <3>1. StatusOf(log, n + 1, y)
      BY <1>2, <1>4, <2>1, <2>3, <2>5, <2>7 DEF StatusOf
    <3> QED
      BY <1>2, <2>3, <2>5, <2>6, <3>1 DEF PickerUpTo
  <2>8. CASE log[k].id # line.id
    <3>1. ClashUpTo(log, n + 1)
      BY <1>2, <1>4, <2>1, <2>3, <2>8 DEF ClashUpTo
    <3> QED
      BY <1>2, <2>3, <2>5, <2>6, <3>1 DEF PickerUpTo
  <2> QED
    BY <2>7, <2>8
<1> QED
  BY <1>5, <1>6

LEMMA PrLine ==
  ASSUME NEW log \in Seq(LinesOf("pr")), PrOrderly(log), NEW n \in Nat, n + 1 <= Len(log),
         NEW x \in WorldFactsType, PrUpTo(log, n, x), NEW y, y = ApplyLine(x, log[n + 1])
  PROVE  PrUpTo(log, n + 1, y)
<1>1. Len(log) \in Nat /\ \A i \in 1..(n + 1) : i \in 1..Len(log) /\ log[i] \in LinesOf("pr")
  OBVIOUS
<1>2. /\ n + 1 # 0 /\ (n + 1) - 1 = n /\ n + 1 \in 1..(n + 1) /\ n + 1 \in 1..Len(log)
      /\ 1..n \subseteq 1..(n + 1) /\ (\A i \in 1..(n + 1) : i = n + 1 \/ i \in 1..n)
      /\ (n # 0 => 1 \in 1..n /\ 1 \in 1..Len(log) /\ 1..(1 - 1) = {})
  BY <1>1
<1>3. PICK line : line = log[n + 1]
  OBVIOUS
<1>4. line \in LinesOf("pr")
  BY <1>1, <1>2, <1>3
<1>5. PrAfter(line, x, y)
  BY <1>3, <1>4, PrExtends
<1>6. LatestSays(log, n + 1, {"pr.ci.status-changed"}, y.ci)
  <2>1. CASE line.type = "pr.ci.status-changed"
    BY <1>3, <1>5, <2>1, OneMoreLatest DEF PrAfter
  <2>2. CASE line.type # "pr.ci.status-changed"
    <3>1. y.ci = x.ci
      BY <1>5, <2>2 DEF PrAfter
    <3> QED
      BY <1>3, <2>2, <3>1, OneMoreLatest DEF PrUpTo
  <2> QED
    BY <2>1, <2>2
<1>7. y.reviews = Cardinality(OfTypes(log, n + 1, {"pr.review-received"}))
  <2>1. Cardinality(OfTypes(log, n + 1, {"pr.review-received"})) =
          Cardinality(OfTypes(log, n, {"pr.review-received"}))
            + (IF log[n + 1].type \in {"pr.review-received"} THEN 1 ELSE 0)
    BY OneMoreOf
  <2> QED
    BY <1>3, <1>5, <2>1 DEF PrAfter, PrUpTo
<1> DEFINE Shows == IF \E i \in 1..(n + 1) : log[i].type = "pr.merged" THEN y.pr = "merged"
                    ELSE IF \E i \in 1..(n + 1) : log[i].type = "pr.status-changed"
                      THEN LatestSays(log, n + 1, {"pr.status-changed"}, y.pr)
                      ELSE y.pr = "open"
<1>8. CASE line.type = "pr.opened"
  <2>1. n = 0
    <3> SUFFICES ASSUME n # 0 PROVE FALSE
      OBVIOUS
    <3>1. \A i \in 1..n : log[i].type # "pr.opened"
      BY <1>2, <1>3, <1>8 DEF PrOrderly
    <3>2. log[1].type # "pr.opened"
      BY <1>2, <3>1
    <3> QED
      BY <1>2, <3>2 DEF PrOrderly
  <2>2. y.pr = "open"
    BY <1>5, <1>8 DEF PrAfter
  <2>3. \A i \in 1..(n + 1) : log[i].type = "pr.opened"
    BY <1>2, <1>3, <1>8, <2>1
  <2>4. Shows
    BY <2>2, <2>3
  <2> QED
    BY <1>2, <1>6, <1>7, <2>4 DEF PrUpTo
<1>9. CASE line.type # "pr.opened"
  <2>1. /\ \E i \in 1..n : log[i].type = "pr.opened"
        /\ \A i \in 1..n : log[i].type # "pr.merged"
    BY <1>2, <1>3, <1>9 DEF PrOrderly
  <2>2. n # 0
    BY <2>1
  <2>3. CASE line.type = "pr.merged"
    <3>1. y.pr = "merged"
      BY <1>5, <2>3 DEF PrAfter
    <3>2. Shows
      BY <1>2, <1>3, <2>3, <3>1
    <3> QED
      BY <1>2, <1>6, <1>7, <3>2 DEF PrUpTo
  <2>4. CASE line.type = "pr.status-changed"
    <3>1. y.pr = line.id
      BY <1>5, <2>4 DEF PrAfter
    <3>2. LatestSays(log, n + 1, {"pr.status-changed"}, line.id)
      BY <1>3, <2>4, OneMoreLatest
    <3>3. \A i \in 1..(n + 1) : log[i].type # "pr.merged"
      BY <1>2, <1>3, <2>1, <2>4
    <3>4. Shows
      BY <1>2, <1>3, <2>4, <3>1, <3>2, <3>3
    <3> QED
      BY <1>2, <1>6, <1>7, <3>4 DEF PrUpTo
  <2>5. CASE line.type \notin {"pr.merged", "pr.status-changed"}
    <3>1. y.pr = x.pr
      BY <1>5, <1>9, <2>5 DEF PrAfter
    <3>2. \A i \in 1..(n + 1) : log[i].type # "pr.merged"
      BY <1>2, <1>3, <2>1, <2>5
    <3>3. CASE \E i \in 1..n : log[i].type = "pr.status-changed"
      <4>1. LatestSays(log, n, {"pr.status-changed"}, x.pr)
        BY <2>1, <2>2, <3>3 DEF PrUpTo
      <4>2. LatestSays(log, n + 1, {"pr.status-changed"}, x.pr)
        BY <1>3, <2>5, <4>1, OneMoreLatest
      <4>3. Shows
        BY <1>2, <3>1, <3>2, <3>3, <4>2
      <4> QED
        BY <1>2, <1>6, <1>7, <4>3 DEF PrUpTo
    <3>4. CASE ~ \E i \in 1..n : log[i].type = "pr.status-changed"
      <4>1. x.pr = "open"
        BY <2>1, <2>2, <3>4 DEF PrUpTo
      <4>2. ~ \E i \in 1..(n + 1) : log[i].type = "pr.status-changed"
        BY <1>2, <1>3, <2>5, <3>4
      <4>3. Shows
        BY <3>1, <3>2, <4>1, <4>2
      <4> QED
        BY <1>2, <1>6, <1>7, <4>3 DEF PrUpTo
    <3> QED
      BY <3>3, <3>4
  <2> QED
    BY <2>3, <2>4, <2>5
<1> QED
  BY <1>8, <1>9

LEMMA TempyrLine ==
  ASSUME NEW log \in Seq(LinesOf("tempyr")), TempyrOrderly(log), NEW n \in Nat, n + 1 <= Len(log),
         NEW x \in WorldFactsType, TempyrUpTo(log, n, x), NEW y, y = ApplyLine(x, log[n + 1])
  PROVE  TempyrUpTo(log, n + 1, y)
<1>1. Len(log) \in Nat /\ \A i \in 1..(n + 1) : i \in 1..Len(log) /\ log[i] \in LinesOf("tempyr")
  OBVIOUS
<1>2. /\ (n + 1) - 1 = n /\ n + 1 \in 1..(n + 1) /\ n + 1 \in 1..Len(log)
      /\ 1..n \subseteq 1..(n + 1) /\ (\A i \in 1..(n + 1) : i = n + 1 \/ i \in 1..n)
      /\ \A j \in 1..n : 1..(j - 1) \subseteq 1..n
  BY <1>1
<1>3. PICK line : line = log[n + 1]
  OBVIOUS
<1>4. line \in LinesOf("tempyr")
  BY <1>1, <1>2, <1>3
<1>5. TempyrAfter(line, x, y)
  BY <1>3, <1>4, TempyrExtends
<1>6. y.failed = Cardinality(OfTypes(log, n + 1, {"tempyr.write-permanently-failed"}))
  <2>1. Cardinality(OfTypes(log, n + 1, {"tempyr.write-permanently-failed"})) =
          Cardinality(OfTypes(log, n, {"tempyr.write-permanently-failed"}))
            + (IF log[n + 1].type \in {"tempyr.write-permanently-failed"} THEN 1 ELSE 0)
    BY OneMoreOf
  <2> QED
    BY <1>3, <1>5, <2>1 DEF TempyrAfter, TempyrUpTo
<1>7. y.deadEnds = Cardinality(OfTypes(log, n + 1, {"tempyr.node-changed"}))
  <2>1. Cardinality(OfTypes(log, n + 1, {"tempyr.node-changed"})) =
          Cardinality(OfTypes(log, n, {"tempyr.node-changed"}))
            + (IF log[n + 1].type \in {"tempyr.node-changed"} THEN 1 ELSE 0)
    BY OneMoreOf
  <2> QED
    BY <1>3, <1>5, <2>1 DEF TempyrAfter, TempyrUpTo
<1>8. PICK P : P = PendingUpTo(log, n)
  OBVIOUS
<1>9. IsFiniteSet(P) /\ x.pending = Cardinality(P) /\ P \subseteq GraphWrites
  BY <1>8 DEF TempyrUpTo, PendingUpTo
<1>10. PICK w : w = line.id
  OBVIOUS
<1>11. CASE line.type = "tempyr.node-changed"
  <2>1. w \notin GraphWrites
    BY <1>4, <1>10, <1>11, LinesAre, WorldBoundsAssumption DEF TempyrTypes
  <2>2. PendingUpTo(log, n + 1) = P
    BY <1>2, <1>3, <1>8, <1>10, <2>1 DEF PendingUpTo
  <2>3. y.pending = x.pending
    BY <1>5, <1>11 DEF TempyrAfter
  <2> QED
    BY <1>6, <1>7, <1>9, <2>2, <2>3 DEF TempyrUpTo
<1>12. CASE line.type # "tempyr.node-changed"
  <2>0. line.type \in TempyrTypes /\ w \in GraphWrites
    BY <1>4, <1>10, <1>12, LinesAre
  <2>1. \A v \in GraphWrites : v # w => (v \in PendingUpTo(log, n + 1) <=> v \in P)
    BY <1>2, <1>3, <1>8, <1>10 DEF PendingUpTo
  <2>2. CASE line.type = "tempyr.write-pending"
    <3>1. ASSUME NEW i \in 1..n, log[i].id = w PROVE FALSE
      <4>1. log[i] \in LinesOf("tempyr") /\ i \in 1..Len(log)
        BY <1>1, <1>2
      <4>2. \A j \in 1..n : log[j].type = "tempyr.write-pending" => log[j].id # w
        BY <1>2, <1>3, <1>10, <2>2 DEF TempyrOrderly
      <4>3. log[i].type # "tempyr.node-changed"
        BY <2>0, <3>1, <4>1, LinesAre, WorldBoundsAssumption DEF TempyrTypes
      <4>4. log[i].type \in SettledTypes
        BY <3>1, <4>1, <4>2, <4>3, LinesAre DEF TempyrTypes, SettledTypes
      <4>5. PICK j \in 1..(i - 1) : log[j].type = "tempyr.write-pending" /\ log[j].id = log[i].id
        BY <4>1, <4>4 DEF TempyrOrderly
      <4> QED
        BY <1>2, <3>1, <4>2, <4>5
    <3>2. w \notin P /\ w \in PendingUpTo(log, n + 1)
      BY <1>2, <1>3, <1>8, <1>10, <2>0, <2>2, <3>1 DEF PendingUpTo
    <3>3. PendingUpTo(log, n + 1) \subseteq GraphWrites
      BY DEF PendingUpTo
    <3>4. PendingUpTo(log, n + 1) = P \union {w}
      BY <1>9, <2>0, <2>1, <3>2, <3>3
    <3>5. IsFiniteSet(P \union {w}) /\ Cardinality(P \union {w}) = Cardinality(P) + 1
      BY <1>9, <3>2, FS_AddElement
    <3>6. y.pending = x.pending + 1
      BY <1>5, <2>2 DEF TempyrAfter
    <3> QED
      BY <1>6, <1>7, <1>9, <3>4, <3>5, <3>6 DEF TempyrUpTo
  <2>3. CASE line.type # "tempyr.write-pending"
    <3>1. line.type \in SettledTypes
      BY <2>0, <2>3 DEF TempyrTypes, SettledTypes
    <3>2. PICK i \in 1..n : log[i].type = "tempyr.write-pending" /\ log[i].id = w
      BY <1>2, <1>3, <1>10, <3>1 DEF TempyrOrderly
    <3>3. ASSUME NEW j \in 1..n, log[j].id = w PROVE log[j].type = "tempyr.write-pending"
      <4>1. log[j] \in LinesOf("tempyr")
        BY <1>1, <1>2
      <4>2. log[j].type \notin SettledTypes
        BY <1>2, <1>3, <1>10, <3>1, <3>3 DEF TempyrOrderly
      <4>3. log[j].type # "tempyr.node-changed"
        BY <2>0, <3>3, <4>1, LinesAre, WorldBoundsAssumption DEF TempyrTypes
      <4> QED
        BY <4>1, <4>2, <4>3, LinesAre DEF TempyrTypes, SettledTypes
    <3>4. w \in P
      BY <1>8, <2>0, <3>2, <3>3 DEF PendingUpTo
    <3>5. w \notin PendingUpTo(log, n + 1)
      BY <1>2, <1>3, <1>10, <2>3 DEF PendingUpTo
    <3>6. PendingUpTo(log, n + 1) \subseteq GraphWrites
      BY DEF PendingUpTo
    <3>7. PendingUpTo(log, n + 1) = P \ {w}
      BY <1>9, <2>1, <3>5, <3>6
    <3>8. IsFiniteSet(P \ {w}) /\ Cardinality(P \ {w}) = Cardinality(P) - 1
      BY <1>9, <3>4, FS_RemoveElement
    <3>9. Cardinality(P) \in Nat /\ Cardinality(P) # 0
      BY <1>9, <3>4, FS_CardinalityType, FS_EmptySet
    <3>10. y.pending = Less(x.pending)
      BY <1>5, <1>12, <2>3 DEF TempyrAfter
    <3>11. y.pending = Cardinality(P) - 1
      BY <1>9, <3>9, <3>10 DEF Less
    <3> QED
      BY <1>6, <1>7, <3>7, <3>8, <3>11 DEF TempyrUpTo
  <2> QED
    BY <2>2, <2>3
<1> QED
  BY <1>11, <1>12

-----------------------------------------------------------------------------
(***************************************************************************)
(* What the lines of a whole file make of the facts, line by line, and that*)
(* this is what FileTold says of them.                                     *)
(***************************************************************************)
LEMMA LineAdds ==
  ASSUME NEW f \in JournalFiles, NEW log \in Seq(LinesOf(f)), NEW n \in Nat, n + 1 <= Len(log),
         NEW x \in WorldFactsType
  PROVE  /\ Extends(f, x, ApplyLine(x, log[n + 1]))
         /\ Orderly(f, log) /\ UpTo(f, log, n, x) => UpTo(f, log, n + 1, ApplyLine(x, log[n + 1]))
<1>1. PICK line : line = log[n + 1]
  OBVIOUS
<1>2. line \in LinesOf(f) /\ n + 1 # 0
  BY <1>1
<1>3. PICK y : y = ApplyLine(x, line)
  OBVIOUS
<1>4. CASE f = "branch"
  <2>1. Extends("branch", x, y) /\ y.stale = "behind"
    BY <1>2, <1>3, <1>4, LinesAre, BranchExtends DEF Line
  <2>2. UpTo(f, log, n + 1, y)
    BY <1>2, <1>4, <2>1 DEF UpTo
  <2> QED
    BY <1>1, <1>3, <1>4, <2>1, <2>2
<1>5. CASE f = "worktree"
  <2>1. Extends("worktree", x, y) /\ y.tree
    BY <1>2, <1>3, <1>5, LinesAre, TreeExtends DEF Line
  <2>2. UpTo(f, log, n + 1, y)
    BY <1>2, <1>5, <2>1 DEF UpTo
  <2> QED
    BY <1>1, <1>3, <1>5, <2>1, <2>2
<1>6. CASE f = "picker"
  <2>1. line.type \in PickerTypes /\ line.id \in Pickers
    BY <1>2, <1>6, LinesAre
  <2>2. Extends("picker", x, y)
    BY <1>3, <2>1, SpawnExtends, EndExtends DEF PickerTypes, EndTypes
  <2>3. PickerOrderly(log) /\ PickerUpTo(log, n, x) => PickerUpTo(log, n + 1, y)
    BY <1>1, <1>3, <1>6, PickerLine
  <2> QED
    BY <1>1, <1>3, <1>6, <2>2, <2>3 DEF Orderly, UpTo
<1>7. CASE f = "pr"
  <2>1. Extends("pr", x, y)
    BY <1>2, <1>3, <1>7, PrExtends
  <2>2. PrOrderly(log) /\ PrUpTo(log, n, x) => PrUpTo(log, n + 1, y)
    BY <1>1, <1>3, <1>7, PrLine
  <2> QED
    BY <1>1, <1>3, <1>7, <2>1, <2>2 DEF Orderly, UpTo
<1>8. CASE f = "tempyr"
  <2>1. Extends("tempyr", x, y)
    BY <1>2, <1>3, <1>8, TempyrExtends
  <2>2. TempyrOrderly(log) /\ TempyrUpTo(log, n, x) => TempyrUpTo(log, n + 1, y)
    BY <1>1, <1>3, <1>8, TempyrLine
  <2> QED
    BY <1>1, <1>3, <1>8, <2>1, <2>2 DEF Orderly, UpTo
<1> QED
  BY <1>4, <1>5, <1>6, <1>7, <1>8, JournalFilesAre

\* What a whole file makes of the facts.
LEMMA FileAdds ==
  ASSUME NEW f \in JournalFiles, NEW log \in Seq(LinesOf(f)), NEW x \in WorldFactsType
  PROVE  /\ Extends(f, x, ApplyFile(x, log))
         /\ Orderly(f, log) /\ UpTo(f, log, 0, x) => UpTo(f, log, Len(log), ApplyFile(x, log))
<1>1. Len(log) \in Nat
  OBVIOUS
<1>2. \E c : Compiled(c, x, log, Len(log))
  BY <1>1, CompiledSomehow
<1>3. PICK c : Compiled(c, x, log, Len(log)) /\ ApplyFile(x, log) = c[Len(log)]
  BY <1>2 DEF Compiled, ApplyFile
<1> DEFINE S == {n \in Nat : n <= Len(log) =>
                  /\ Extends(f, x, c[n])
                  /\ Orderly(f, log) /\ UpTo(f, log, 0, x) => UpTo(f, log, n, c[n])}
<1>4. 0 \in S
  <2>1. c[0] = x
    BY <1>1, <1>3 DEF Compiled
  <2>2. Extends(f, x, x)
    BY DEF Extends
  <2> QED
    BY <2>1, <2>2
<1>5. ASSUME NEW n \in Nat, n \in S PROVE n + 1 \in S
  <2> SUFFICES ASSUME n + 1 <= Len(log)
               PROVE  /\ Extends(f, x, c[n + 1])
                      /\ Orderly(f, log) /\ UpTo(f, log, 0, x) => UpTo(f, log, n + 1, c[n + 1])
    OBVIOUS
  <2>1. n <= Len(log) /\ n + 1 \in 0..Len(log) /\ n + 1 # 0 /\ (n + 1) - 1 = n
    BY <1>1
  <2>2. PICK y : y = c[n]
    OBVIOUS
  <2>3. Extends(f, x, y) /\ (Orderly(f, log) /\ UpTo(f, log, 0, x) => UpTo(f, log, n, y))
    BY <1>5, <2>1, <2>2
  <2>4. PICK z : z = ApplyLine(y, log[n + 1])
    OBVIOUS
  <2>5. c[n + 1] = z
    BY <1>3, <2>1, <2>2, <2>4 DEF Compiled
  <2>6. y \in WorldFactsType
    BY <2>3 DEF Extends
  <2>7. Extends(f, y, z) /\ (Orderly(f, log) /\ UpTo(f, log, n, y) => UpTo(f, log, n + 1, z))
    BY <2>4, <2>6, LineAdds
  <2>8. Extends(f, x, z)
    BY <2>3, <2>7 DEF Extends
  <2> QED
    BY <2>3, <2>5, <2>7, <2>8
<1> HIDE DEF S
<1>6. Nat \subseteq S
  BY <1>4, <1>5, SetInduction
<1>7. Len(log) \in S /\ Len(log) <= Len(log)
  BY <1>1, <1>6
<1> QED
  BY <1>3, <1>7 DEF S

\* Nothing has been found yet of a file that is yet to be read.
LEMMA NothingYet ==
  ASSUME NEW f \in JournalFiles, NEW log, NEW x \in WorldFactsType, FactsOf(f, x) = FactsOf(f, NoFacts)
  PROVE  UpTo(f, log, 0, x)
<1>1. 1..0 = {}
  OBVIOUS
<1>2. CASE f = "branch"
  BY <1>2 DEF FactsOf, NoFacts, UpTo
<1>3. CASE f = "worktree"
  BY <1>3 DEF UpTo
<1>4. CASE f = "picker"
  BY <1>4 DEF FactsOf, NoFacts, UpTo, PickerUpTo
<1>5. Cardinality({}) = 0 /\ IsFiniteSet({})
  BY FS_EmptySet
<1>6. OfTypes(log, 0, {"pr.review-received"}) = {} /\ PendingUpTo(log, 0) = {}
      /\ OfTypes(log, 0, {"tempyr.write-permanently-failed"}) = {}
      /\ OfTypes(log, 0, {"tempyr.node-changed"}) = {}
  BY <1>1 DEF OfTypes, PendingUpTo
<1>7. CASE f = "pr"
  <2>1. x.pr = "none" /\ x.ci = "none" /\ x.reviews = 0
    BY <1>7 DEF FactsOf, NoFacts
  <2>2. LatestSays(log, 0, {"pr.ci.status-changed"}, x.ci)
    BY <1>1, <2>1 DEF LatestSays
  <2> QED
    BY <1>5, <1>6, <1>7, <2>1, <2>2 DEF UpTo, PrUpTo
<1>8. CASE f = "tempyr"
  <2>1. x.pending = 0 /\ x.failed = 0 /\ x.deadEnds = 0
    BY <1>8 DEF FactsOf, NoFacts
  <2> QED
    BY <1>5, <1>6, <1>8, <2>1 DEF UpTo, TempyrUpTo
<1> QED
  BY <1>2, <1>3, <1>4, <1>7, <1>8, JournalFilesAre

LEMMA MaxIs ==
  ASSUME NEW S \in SUBSET Int, NEW k \in S, \A i \in S : k >= i
  PROVE  Max(S) = k
<1>1. \E m \in S : \A i \in S : m >= i
  OBVIOUS
<1>2. PICK m : m = Max(S)
  OBVIOUS
<1>3. m \in S /\ \A i \in S : m >= i
  BY <1>1, <1>2 DEF Max
<1> QED
  BY <1>2, <1>3

LEMMA LatestIsLast ==
  ASSUME NEW log, NEW n \in Nat, NEW types, NEW k, Latest(log, n, types, k)
  PROVE  Max(OfTypes(log, n, types)) = k
<1>1. k \in OfTypes(log, n, types) /\ OfTypes(log, n, types) \in SUBSET Int
  BY DEF Latest, OfTypes
<1>2. \A i \in OfTypes(log, n, types) : k >= i
  <2> TAKE i \in OfTypes(log, n, types)
  <2>1. i \in 1..n /\ log[i].type \in types /\ k \in 1..n
    BY DEF OfTypes, Latest
  <2>2. i \notin (k + 1)..n
    BY <2>1 DEF Latest
  <2> QED
    BY <2>1, <2>2
<1> QED
  BY <1>1, <1>2, MaxIs

LEMMA OfTypeIs ==
  ASSUME NEW A, NEW log \in Seq(A), NEW types
  PROVE  OfType(log, types) = OfTypes(log, Len(log), types)
<1>1. DOMAIN log = 1..Len(log)
  OBVIOUS
<1> QED
  BY <1>1 DEF OfType, OfTypes

LEMMA SaysIsLast ==
  ASSUME NEW A, NEW log \in Seq(A), NEW types, NEW v, LatestSays(log, Len(log), types, v)
  PROVE  LastId(log, types) = v
<1>1. Len(log) \in Nat /\ OfType(log, types) = OfTypes(log, Len(log), types)
  BY OfTypeIs
<1>2. CASE \E i \in 1..Len(log) : log[i].type \in types
  <2>1. PICK k \in 1..Len(log) : Latest(log, Len(log), types, k) /\ v = log[k].id
    BY <1>2 DEF LatestSays
  <2>2. Max(OfType(log, types)) = k /\ OfType(log, types) # {}
    BY <1>1, <1>2, <2>1, LatestIsLast DEF OfTypes
  <2> QED
    BY <2>1, <2>2 DEF LastId
<1>3. CASE ~ \E i \in 1..Len(log) : log[i].type \in types
  <2>1. OfType(log, types) = {} /\ v = "none"
    BY <1>1, <1>3 DEF OfTypes, LatestSays
  <2> QED
    BY <2>1 DEF LastId
<1> QED
  BY <1>2, <1>3

LEMMA EmptyIs == ASSUME NEW S, NEW q \in Seq(S) PROVE q = <<>> <=> Len(q) = 0
<1>1. q = <<>> => Len(q) = 0
  OBVIOUS
<1>2. ASSUME Len(q) = 0 PROVE q = <<>>
  <2>1. q = [i \in 1..Len(q) |-> q[i]]
    OBVIOUS
  <2>2. q = [i \in 1..0 |-> q[i]]
    BY <1>2, <2>1
  <2>3. DOMAIN q = {}
    BY <2>2
  <2> QED BY <1>2, <2>3
<1> QED BY <1>1, <1>2

Shown(x) == [x EXCEPT !.pr = ShownPr(x)]

LEMMA PickerIsTold ==
  ASSUME NEW log \in Seq(LinesOf("picker")), PickerOrderly(log), NEW x \in WorldFactsType,
         PickerUpTo(log, Len(log), x)
  PROVE  IF log = <<>> THEN x.session = NoPicker /\ x.status = "none"
         ELSE /\ x.session = LastId(log, {"picker.spawned"})
              /\ Overlap(log) \/ x.status = StatusTold(log, x.session)
<1>1. Len(log) \in Nat /\ DOMAIN log = 1..Len(log) /\ (log = <<>> <=> Len(log) = 0)
  BY EmptyIs
<1>2. CASE Len(log) = 0
  BY <1>1, <1>2 DEF PickerUpTo
<1>3. CASE Len(log) # 0
  <2>1. PICK k \in 1..Len(log) : Latest(log, Len(log), {"picker.spawned"}, k) /\ x.session = log[k].id
    BY <1>3 DEF PickerUpTo
  <2>2. LatestSays(log, Len(log), {"picker.spawned"}, x.session)
    <3>1. log[k].type \in {"picker.spawned"}
      BY <2>1 DEF Latest
    <3> QED
      BY <2>1, <3>1 DEF LatestSays
  <2>3. x.session = LastId(log, {"picker.spawned"})
    BY <2>2, SaysIsLast
  <2>4. ASSUME NEW j \in DOMAIN log
        PROVE  j \in Ends(log) <=> log[j].type \in EndTypes
    BY DEF Ends, OfType, EndTypes
  <2>5. ASSUME ClashUpTo(log, Len(log)) PROVE Overlap(log)
    <3>1. PICK j \in 1..Len(log) :
            /\ log[j].type \in EndTypes
            /\ \E m \in 1..(j - 1) : Latest(log, j - 1, {"picker.spawned"}, m) /\ log[m].id # log[j].id
      BY <2>5 DEF ClashUpTo
    <3>2. PICK m \in 1..(j - 1) : Latest(log, j - 1, {"picker.spawned"}, m) /\ log[m].id # log[j].id
      BY <3>1
    <3>3. {i \in OfType(log, {"picker.spawned"}) : i < j} = OfTypes(log, j - 1, {"picker.spawned"})
      BY <1>1 DEF OfType, OfTypes
    <3>4. Max({i \in OfType(log, {"picker.spawned"}) : i < j}) = m
      <4>1. j - 1 \in Nat
        OBVIOUS
      <4> QED
        BY <3>2, <3>3, <4>1, LatestIsLast
    <3>5. j \in Ends(log)
      BY <1>1, <2>4, <3>1
    <3> QED
      BY <3>2, <3>4, <3>5 DEF Overlap
  <2>6. ASSUME StatusOf(log, Len(log), x) PROVE x.status = StatusTold(log, x.session)
    <3>1. PICK ends : ends = {log[i].type : i \in {j \in Ends(log) : log[j].id = x.session}}
      OBVIOUS
    <3>2. StatusTold(log, x.session) = IF ends = {} THEN "running" ELSE CHOOSE type \in ends : TRUE
      BY <3>1 DEF StatusTold
    <3>3. Ends(log) \subseteq 1..Len(log)
      BY <1>1 DEF Ends, OfType
    <3>4. CASE \E j \in 1..Len(log) : log[j].type \in EndTypes /\ log[j].id = x.session
                                        /\ x.status = log[j].type
      <4>1. PICK j \in 1..Len(log) : log[j].type \in EndTypes /\ log[j].id = x.session
                                        /\ x.status = log[j].type
        BY <3>4
      <4>2. ASSUME NEW i \in 1..Len(log), log[i].type \in EndTypes, log[i].id = x.session PROVE i = j
        <5>1. ~(i < j)
          <6> SUFFICES ASSUME i < j PROVE FALSE
            OBVIOUS
          <6>1. i \in 1..(j - 1) /\ log[j].type # "picker.spawned"
            BY <4>1 DEF EndTypes
          <6> QED
            BY <4>1, <4>2, <6>1 DEF PickerOrderly
        <5>2. ~(j < i)
          <6> SUFFICES ASSUME j < i PROVE FALSE
            OBVIOUS
          <6>1. j \in 1..(i - 1) /\ log[i].type # "picker.spawned"
            BY <4>2 DEF EndTypes
          <6> QED
            BY <4>1, <4>2, <6>1 DEF PickerOrderly
        <5> QED
          BY <5>1, <5>2
      <4>3. {i \in Ends(log) : log[i].id = x.session} = {j}
        BY <1>1, <2>4, <3>3, <4>1, <4>2
      <4>4. ends = {x.status}
        BY <3>1, <4>1, <4>3
      <4> QED
        BY <3>2, <4>4
    <3>5. CASE x.status = "running" /\ \A j \in 1..Len(log) : log[j].type \in EndTypes => log[j].id # x.session
      <4>1. {j \in Ends(log) : log[j].id = x.session} = {}
        BY <1>1, <2>4, <3>3, <3>5
      <4>2. ends = {}
        BY <3>1, <4>1
      <4> QED
        BY <3>2, <3>5, <4>2
    <3> QED
      BY <2>6, <3>4, <3>5 DEF StatusOf
  <2>7. ClashUpTo(log, Len(log)) \/ StatusOf(log, Len(log), x)
    BY <1>3 DEF PickerUpTo
  <2> QED
    BY <1>1, <1>3, <2>3, <2>5, <2>6, <2>7
<1> QED
  BY <1>2, <1>3

LEMMA PrIsTold ==
  ASSUME NEW log \in Seq(LinesOf("pr")), NEW x \in WorldFactsType, PrUpTo(log, Len(log), x)
  PROVE  /\ x.ci = LastId(log, {"pr.ci.status-changed"})
         /\ x.reviews = Cardinality(OfType(log, {"pr.review-received"}))
         /\ Shown(x).pr = (IF log = <<>> THEN ShownPr(NoFacts)
                           ELSE IF OfType(log, {"pr.merged"}) # {} THEN "merged"
                           ELSE IF OfType(log, {"pr.status-changed"}) = {} THEN "open"
                           ELSE LastId(log, {"pr.status-changed"}))
<1>1. Len(log) \in Nat /\ DOMAIN log = 1..Len(log) /\ (log = <<>> <=> Len(log) = 0)
  BY EmptyIs
<1>2. x.ci = LastId(log, {"pr.ci.status-changed"})
  BY SaysIsLast DEF PrUpTo
<1>3. x.reviews = Cardinality(OfType(log, {"pr.review-received"}))
  BY OfTypeIs DEF PrUpTo
<1>4. Shown(x).pr = ShownPr(x)
  BY DEF Shown, WorldFactsType
<1>5. ASSUME x.pr # "none" PROVE ShownPr(x) = x.pr
  BY <1>5 DEF ShownPr
<1>6. CASE log = <<>>
  <2>1. x.pr = "none"
    BY <1>1, <1>6 DEF PrUpTo
  <2>2. ShownPr(x) = ShownPr(NoFacts)
    BY <2>1 DEF ShownPr, NoFacts
  <2> QED
    BY <1>2, <1>3, <1>4, <1>6, <2>2
<1>7. CASE log # <<>>
  <2>0. Len(log) # 0
    BY <1>1, <1>7
  <2>1. CASE \E i \in 1..Len(log) : log[i].type = "pr.merged"
    <3>1. OfType(log, {"pr.merged"}) # {}
      BY <1>1, <2>1 DEF OfType
    <3>2. x.pr = "merged"
      BY <2>0, <2>1 DEF PrUpTo
    <3> QED
      BY <1>2, <1>3, <1>4, <1>5, <1>7, <3>1, <3>2
  <2>2. CASE ~ \E i \in 1..Len(log) : log[i].type = "pr.merged"
    <3>1. OfType(log, {"pr.merged"}) = {}
      BY <1>1, <2>2 DEF OfType
    <3>2. CASE \E i \in 1..Len(log) : log[i].type = "pr.status-changed"
      <4>1. OfType(log, {"pr.status-changed"}) # {}
        BY <1>1, <3>2 DEF OfType
      <4>2. LatestSays(log, Len(log), {"pr.status-changed"}, x.pr)
        BY <2>0, <2>2, <3>2 DEF PrUpTo
      <4>3. LastId(log, {"pr.status-changed"}) = x.pr
        BY <4>2, SaysIsLast
      <4>4. x.pr # "none"
        <5>1. PICK k \in 1..Len(log) : log[k].type = "pr.status-changed" /\ x.pr = log[k].id
          BY <3>2, <4>2 DEF LatestSays, Latest
        <5>2. log[k] \in LinesOf("pr")
          OBVIOUS
        <5> QED
          BY <5>1, <5>2, LinesAre DEF PrTypes
      <4> QED
        BY <1>2, <1>3, <1>4, <1>5, <1>7, <3>1, <4>1, <4>3, <4>4
    <3>3. CASE ~ \E i \in 1..Len(log) : log[i].type = "pr.status-changed"
      <4>1. OfType(log, {"pr.status-changed"}) = {}
        BY <1>1, <3>3 DEF OfType
      <4>2. x.pr = "open"
        BY <2>0, <2>2, <3>3 DEF PrUpTo
      <4> QED
        BY <1>2, <1>3, <1>4, <1>5, <1>7, <3>1, <4>1, <4>2
    <3> QED
      BY <3>2, <3>3
  <2> QED
    BY <2>1, <2>2
<1> QED
  BY <1>6, <1>7

LEMMA FileIsTold ==
  ASSUME NEW f \in JournalFiles, NEW log \in Seq(LinesOf(f)), Orderly(f, log), NEW x \in WorldFactsType,
         UpTo(f, log, Len(log), x)
  PROVE  FileTold(f, log, Shown(x))
<1>1. Len(log) \in Nat /\ DOMAIN log = 1..Len(log) /\ (log = <<>> <=> Len(log) = 0)
  BY EmptyIs
<1>2. /\ Shown(x).session = x.session /\ Shown(x).status = x.status /\ Shown(x).tree = x.tree
      /\ Shown(x).stale = x.stale /\ Shown(x).ci = x.ci /\ Shown(x).reviews = x.reviews
      /\ Shown(x).pending = x.pending /\ Shown(x).failed = x.failed /\ Shown(x).deadEnds = x.deadEnds
  BY DEF Shown, WorldFactsType
<1>3. CASE f = "branch"
  <2>1. x.stale = IF Len(log) = 0 THEN "none" ELSE "behind"
    BY <1>3 DEF UpTo
  <2>2. LatestSays(log, Len(log), {"branch.staleness-updated"}, x.stale)
    <3>1. CASE Len(log) = 0
      BY <1>1, <2>1, <3>1 DEF LatestSays
    <3>2. CASE Len(log) # 0
      <4>1. Len(log) \in 1..Len(log) /\ (Len(log) + 1)..Len(log) = {}
        BY <1>1, <3>2
      <4>2. log[Len(log)] = Line("branch.staleness-updated", "behind")
        BY <1>3, <4>1, LinesAre
      <4>3. Latest(log, Len(log), {"branch.staleness-updated"}, Len(log)) /\ log[Len(log)].id = "behind"
            /\ log[Len(log)].type \in {"branch.staleness-updated"}
        BY <4>1, <4>2 DEF Latest, Line
      <4> QED
        BY <2>1, <3>2, <4>1, <4>3 DEF LatestSays
    <3> QED
      BY <3>1, <3>2
  <2>3. LastId(log, {"branch.staleness-updated"}) = x.stale
    BY <2>2, SaysIsLast
  <2> QED
    BY <1>2, <1>3, <2>3 DEF FileTold
<1>4. CASE f = "worktree"
  BY <1>1, <1>2, <1>4 DEF UpTo, FileTold
<1>5. CASE f = "picker"
  <2>1. PickerOrderly(log) /\ PickerUpTo(log, Len(log), x)
    BY <1>5 DEF Orderly, UpTo
  <2>2. IF log = <<>> THEN x.session = NoPicker /\ x.status = "none"
         ELSE /\ x.session = LastId(log, {"picker.spawned"})
              /\ Overlap(log) \/ x.status = StatusTold(log, x.session)
    BY <1>5, <2>1, PickerIsTold
  <2> QED
    BY <1>2, <1>5, <2>2 DEF FileTold
<1>6. CASE f = "pr"
  <2>1. PrUpTo(log, Len(log), x)
    BY <1>6 DEF UpTo
  <2>2. /\ x.ci = LastId(log, {"pr.ci.status-changed"})
        /\ x.reviews = Cardinality(OfType(log, {"pr.review-received"}))
        /\ Shown(x).pr = (IF log = <<>> THEN ShownPr(NoFacts)
                           ELSE IF OfType(log, {"pr.merged"}) # {} THEN "merged"
                           ELSE IF OfType(log, {"pr.status-changed"}) = {} THEN "open"
                           ELSE LastId(log, {"pr.status-changed"}))
    BY <1>6, <2>1, PrIsTold
  <2> QED
    BY <1>2, <1>6, <2>2 DEF FileTold
<1>7. CASE f = "tempyr"
  <2>1. TempyrUpTo(log, Len(log), x)
    BY <1>7 DEF UpTo
  <2>2. Failed(log) = OfTypes(log, Len(log), {"tempyr.write-permanently-failed"})
    BY OfTypeIs DEF Failed
  <2>3. OfType(log, {"tempyr.node-changed"}) = OfTypes(log, Len(log), {"tempyr.node-changed"})
    BY OfTypeIs
  <2>4. Pending(log) = PendingUpTo(log, Len(log))
    BY <1>1 DEF Pending, Unsettled, PendingUpTo
  <2> QED
    BY <1>2, <1>7, <2>1, <2>2, <2>3, <2>4 DEF FileTold, TempyrUpTo
<1> QED
  BY <1>3, <1>4, <1>5, <1>6, <1>7, JournalFilesAre

-----------------------------------------------------------------------------
(***************************************************************************)
(* A compilation under way: of every file that it has read, what it has    *)
(* found is so of the lines up to one of them, not before those that were  *)
(* there when it began; of the others it has found nothing.                *)
(***************************************************************************)
Todos ==
  {<<"branch", "picker", "pr", "worktree", "tempyr">>, <<"picker", "pr", "worktree", "tempyr">>,
   <<"pr", "worktree", "tempyr">>, <<"worktree", "tempyr">>, <<"tempyr">>, <<>>}
BeginsAs(a, l) == Len(a) <= Len(l) /\ \A i \in 1..Len(a) : a[i] = l[i]

\* What the facts say of a file is so of its lines up to one of them, the k-th or later.
SaysOf(f, log, k, x) == \E n \in k..Len(log) : FileTold(f, SubSeq(log, 1, n), Shown(x))
AnswerSays(f, log, k, y) == \E n \in k..Len(log) : FileTold(f, SubSeq(log, 1, n), y)

ReadTyped ==
  /\ DOMAIN lines = JournalFiles /\ \A f \in JournalFiles : lines[f] \in Seq(LinesOf(f))
  /\ lines = [f \in JournalFiles |-> lines[f]]
  /\ DOMAIN reading = {"todo", "facts", "at"} /\ reading.facts \in WorldFactsType
  /\ reading = [i \in {"todo", "facts", "at"} |-> reading[i]]
  /\ reading.todo \in Todos
  /\ \A f \in JournalFiles : reading.at[f] \in Seq(LinesOf(f)) /\ BeginsAs(reading.at[f], lines[f])
  /\ again \in 0..MaxAgain /\ Count(lines) <= MaxLines + again
  /\ rooted \in BOOLEAN /\ github \in {"none", "open", "fails"}
  /\ snapshot.verdict \in {"none", "Ready", "ReadyWithWarnings"}
InOrder == again = 0 => \A f \in JournalFiles : \A log \in {lines[f]} : Orderly(f, log)
Unread ==
  \A x \in {reading.facts} : \A f \in Range(reading.todo) : FactsOf(f, x) = FactsOf(f, NoFacts)
ReadSoFar ==
  again = 0 /\ reading.todo # <<>> =>
    \A x \in {reading.facts} : \A f \in JournalFiles \ Range(reading.todo) :
      \A log \in {lines[f]}, k \in {Len(reading.at[f])} : SaysOf(f, log, k, x)
AnswerTells ==
  \A s \in {snapshot} : s # NoWorld /\ again = 0 =>
    \A y \in {s.facts} : \A f \in JournalFiles :
      \A log \in {lines[f]}, k \in {Len(reading.at[f])} : AnswerSays(f, log, k, y)
WorldReadInv == ReadTyped /\ InOrder /\ Unread /\ ReadSoFar /\ AnswerTells

LEMMA RangesAre ==
  /\ Range(<<"branch", "picker", "pr", "worktree", "tempyr">>) =
       {"branch", "picker", "pr", "worktree", "tempyr"}
  /\ Range(<<"picker", "pr", "worktree", "tempyr">>) = {"picker", "pr", "worktree", "tempyr"}
  /\ Range(<<"pr", "worktree", "tempyr">>) = {"pr", "worktree", "tempyr"}
  /\ Range(<<"worktree", "tempyr">>) = {"worktree", "tempyr"}
  /\ Range(<<"tempyr">>) = {"tempyr"} /\ Range(<<>>) = {}
<1>1. Range(<<"branch", "picker", "pr", "worktree", "tempyr">>) =
       {"branch", "picker", "pr", "worktree", "tempyr"}
  BY JournalFilesAre DEF JournalFiles, FileOrder
<1>2. Range(<<"picker", "pr", "worktree", "tempyr">>) = {"picker", "pr", "worktree", "tempyr"}
  <2>1. PICK q : q = <<"picker", "pr", "worktree", "tempyr">>
    OBVIOUS
  <2>2. DOMAIN q = 1..4 /\ q[1] = "picker" /\ q[2] = "pr" /\ q[3] = "worktree" /\ q[4] = "tempyr"
    BY <2>1
  <2>3. \A i \in 1..4 : i = 1 \/ i = 2 \/ i = 3 \/ i = 4
    OBVIOUS
  <2> QED
    BY <2>1, <2>2, <2>3 DEF Range
<1>3. Range(<<"pr", "worktree", "tempyr">>) = {"pr", "worktree", "tempyr"}
  <2>1. PICK q : q = <<"pr", "worktree", "tempyr">>
    OBVIOUS
  <2>2. DOMAIN q = 1..3 /\ q[1] = "pr" /\ q[2] = "worktree" /\ q[3] = "tempyr"
    BY <2>1
  <2>3. \A i \in 1..3 : i = 1 \/ i = 2 \/ i = 3
    OBVIOUS
  <2> QED
    BY <2>1, <2>2, <2>3 DEF Range
<1>4. Range(<<"worktree", "tempyr">>) = {"worktree", "tempyr"}
  <2>1. PICK q : q = <<"worktree", "tempyr">>
    OBVIOUS
  <2>2. DOMAIN q = 1..2 /\ q[1] = "worktree" /\ q[2] = "tempyr"
    BY <2>1
  <2>3. \A i \in 1..2 : i = 1 \/ i = 2
    OBVIOUS
  <2> QED
    BY <2>1, <2>2, <2>3 DEF Range
<1>5. Range(<<"tempyr">>) = {"tempyr"}
  <2>1. PICK q : q = <<"tempyr">>
    OBVIOUS
  <2>2. DOMAIN q = {1} /\ q[1] = "tempyr"
    BY <2>1
  <2> QED
    BY <2>1, <2>2 DEF Range
<1>6. Range(<<>>) = {}
  BY DEF Range
<1> QED
  BY <1>1, <1>2, <1>3, <1>4, <1>5, <1>6

\* The files are read one after the other.
LEMMA NextTodo ==
  ASSUME NEW todo \in Todos, todo # <<>>
  PROVE  /\ Head(todo) \in JournalFiles /\ Head(todo) \in Range(todo) /\ Tail(todo) \in Todos
         /\ Range(todo) \subseteq JournalFiles /\ Range(Tail(todo)) = Range(todo) \ {Head(todo)}
         /\ Tail(todo) = <<>> <=> todo = <<"tempyr">>
<1>1. CASE todo = <<"branch", "picker", "pr", "worktree", "tempyr">>
  <2>1. Head(todo) = "branch" /\ Tail(todo) = <<"picker", "pr", "worktree", "tempyr">> /\ Len(todo) = 5
    BY <1>1
  <2> QED
    BY <1>1, <2>1, RangesAre, JournalFilesAre DEF Todos
<1>2. CASE todo = <<"picker", "pr", "worktree", "tempyr">>
  <2>1. Head(todo) = "picker" /\ Tail(todo) = <<"pr", "worktree", "tempyr">> /\ Len(todo) = 4
    BY <1>2
  <2> QED
    BY <1>2, <2>1, RangesAre, JournalFilesAre DEF Todos
<1>3. CASE todo = <<"pr", "worktree", "tempyr">>
  <2>1. Head(todo) = "pr" /\ Tail(todo) = <<"worktree", "tempyr">> /\ Len(todo) = 3
    BY <1>3
  <2> QED
    BY <1>3, <2>1, RangesAre, JournalFilesAre DEF Todos
<1>4. CASE todo = <<"worktree", "tempyr">>
  <2>1. Head(todo) = "worktree" /\ Tail(todo) = <<"tempyr">> /\ Len(todo) = 2
    BY <1>4
  <2> QED
    BY <1>4, <2>1, RangesAre, JournalFilesAre DEF Todos
<1>5. CASE todo = <<"tempyr">>
  <2>1. Head(todo) = "tempyr" /\ Tail(todo) = <<>> /\ Len(todo) = 1
    BY <1>5
  <2> QED
    BY <1>5, <2>1, RangesAre, JournalFilesAre DEF Todos
<1> QED
  BY <1>1, <1>2, <1>3, <1>4, <1>5 DEF Todos

\* GitHub's answer is the same throughout.
LEMMA SaysSame ==
  ASSUME github' = github, NEW f, NEW log, NEW k, NEW x
  PROVE  (SaysOf(f, log, k, x)' <=> SaysOf(f, log, k, x)) /\ (AnswerSays(f, log, k, x)' <=> AnswerSays(f, log, k, x))
<1>1. Shown(x)' = Shown(x)
  BY DEF Shown, ShownPr
<1>2. ASSUME NEW l, NEW y PROVE FileTold(f, l, y)' <=> FileTold(f, l, y)
  BY DEF FileTold, ShownPr
<1>3. AnswerSays(f, log, k, x)' <=> AnswerSays(f, log, k, x)
  BY <1>2 DEF AnswerSays
<1>4. SaysOf(f, log, k, x)' <=> SaysOf(f, log, k, x)
  BY DEF SaysOf, FileTold, ShownPr, Shown
<1> QED
  BY <1>3, <1>4

LEMMA AnswerOfFacts ==
  ASSUME NEW f, NEW log, NEW k, NEW x
  PROVE  SaysOf(f, log, k, x) <=> AnswerSays(f, log, k, Shown(x))
BY DEF SaysOf, AnswerSays

\* A line more takes nothing away.
LEMMA SaysStays ==
  ASSUME NEW f, NEW A, NEW log \in Seq(A), NEW line, NEW k, NEW x, SaysOf(f, log, k, x)
  PROVE  SaysOf(f, Append(log, line), k, x)
<1>1. PICK n \in k..Len(log) : FileTold(f, SubSeq(log, 1, n), Shown(x))
  BY DEF SaysOf
<1>2. PICK q : q = Append(log, line)
  OBVIOUS
<1>3. Len(q) = Len(log) + 1 /\ Len(log) \in Nat /\ \A i \in 1..Len(log) : q[i] = log[i]
  BY <1>2
<1>4. n \in Int /\ n <= Len(log) /\ n \in k..Len(q)
  BY <1>1, <1>3
<1>5. SubSeq(q, 1, n) = SubSeq(log, 1, n)
  <2>1. \A i \in 1..n : q[i] = log[i]
    BY <1>3, <1>4
  <2>2. SubSeq(q, 1, n) = [i \in 1..n |-> q[i]]
    BY <1>4
  <2>3. SubSeq(log, 1, n) = [i \in 1..n |-> log[i]]
    BY <1>4
  <2> QED
    BY <2>1, <2>2, <2>3
<1> QED
  BY <1>1, <1>2, <1>4, <1>5 DEF SaysOf

LEMMA SaysFramed ==
  ASSUME NEW f \in JournalFiles, NEW g \in JournalFiles, f # g, NEW x \in WorldFactsType, NEW z,
         Extends(g, x, z), NEW log, NEW k, SaysOf(f, log, k, x)
  PROVE  SaysOf(f, log, k, z)
<1>1. z \in WorldFactsType /\ FactsOf(f, x) = FactsOf(f, z) /\ (x.tree => z.tree)
  BY DEF Extends
<1>2. \A y \in {x, z} :
        /\ Shown(y).session = y.session /\ Shown(y).status = y.status /\ Shown(y).tree = y.tree
        /\ Shown(y).stale = y.stale /\ Shown(y).ci = y.ci /\ Shown(y).reviews = y.reviews
        /\ Shown(y).pending = y.pending /\ Shown(y).failed = y.failed /\ Shown(y).deadEnds = y.deadEnds
        /\ Shown(y).pr = ShownPr(y)
  BY <1>1 DEF Shown, WorldFactsType
<1>3. ASSUME NEW l, FileTold(f, l, Shown(x)) PROVE FileTold(f, l, Shown(z))
  <2>1. CASE f = "branch"
    BY <1>1, <1>2, <1>3, <2>1 DEF FactsOf, FileTold
  <2>2. CASE f = "worktree"
    BY <1>1, <1>2, <1>3, <2>2 DEF FileTold
  <2>3. CASE f = "picker"
    BY <1>1, <1>2, <1>3, <2>3 DEF FactsOf, FileTold
  <2>4. CASE f = "pr"
    BY <1>1, <1>2, <1>3, <2>4 DEF FactsOf, FileTold, ShownPr
  <2>5. CASE f = "tempyr"
    BY <1>1, <1>2, <1>3, <2>5 DEF FactsOf, FileTold
  <2> QED
    BY <2>1, <2>2, <2>3, <2>4, <2>5, JournalFilesAre
<1> QED
  BY <1>3 DEF SaysOf

\* A file that is read tells of its lines by then.
LEMMA ReadSays ==
  ASSUME NEW f \in JournalFiles, NEW log \in Seq(LinesOf(f)), Orderly(f, log), NEW x \in WorldFactsType,
         FactsOf(f, x) = FactsOf(f, NoFacts), NEW k \in Nat, k <= Len(log)
  PROVE  SaysOf(f, log, k, ApplyFile(x, log))
<1>1. PICK z : z = ApplyFile(x, log)
  OBVIOUS
<1>2. UpTo(f, log, 0, x)
  BY NothingYet
<1>3. Extends(f, x, z) /\ UpTo(f, log, Len(log), z)
  BY <1>1, <1>2, FileAdds
<1>4. FileTold(f, log, Shown(z))
  BY <1>3, FileIsTold DEF Extends
<1>5. SubSeq(log, 1, Len(log)) = log /\ Len(log) \in k..Len(log)
  OBVIOUS
<1> QED
  BY <1>1, <1>4, <1>5 DEF SaysOf

LEMMA PickerFollows ==
  ASSUME lines["picker"] \in Seq(LinesOf("picker")), PickerOrderly(lines["picker"]),
         NEW line \in LinesOf("picker"), MayFollow("picker", line)
  PROVE  PickerOrderly(Append(lines["picker"], line))
<1>1. PICK log \in Seq(LinesOf("picker")) : log = lines["picker"]
  OBVIOUS
<1>2. PICK q : q = Append(log, line)
  OBVIOUS
<1>3. /\ Len(log) \in Nat /\ Len(q) = Len(log) + 1 /\ q[Len(log) + 1] = line
      /\ (\A i \in 1..Len(log) : q[i] = log[i]) /\ Range(log) = {log[i] : i \in 1..Len(log)}
      /\ (\A m \in 1..Len(q) : m = Len(log) + 1 \/ m \in 1..Len(log))
      /\ (\A m \in 1..Len(log) : 1..(m - 1) \subseteq 1..Len(log))
      /\ (Len(log) + 1) - 1 = Len(log)
  BY <1>1, <1>2 DEF Range
<1>4. /\ \A i \in 1..Len(log) : log[i] = Line(log[i].type, log[i].id)
      /\ line = Line(line.type, line.id) /\ line.type \in PickerTypes
  BY <1>1, LinesAre
<1>5. ASSUME NEW m \in 1..Len(log)
      PROVE  IF q[m].type = "picker.spawned"
               THEN \A i \in 1..(m - 1) : q[i].type = "picker.spawned" => q[i].id # q[m].id
               ELSE /\ \E i \in 1..(m - 1) : q[i].type = "picker.spawned" /\ q[i].id = q[m].id
                    /\ \A i \in 1..(m - 1) : q[i].type \in EndTypes => q[i].id # q[m].id
  <2>1. IF log[m].type = "picker.spawned"
          THEN \A i \in 1..(m - 1) : log[i].type = "picker.spawned" => log[i].id # log[m].id
          ELSE /\ \E i \in 1..(m - 1) : log[i].type = "picker.spawned" /\ log[i].id = log[m].id
               /\ \A i \in 1..(m - 1) : log[i].type \in EndTypes => log[i].id # log[m].id
    BY <1>1 DEF PickerOrderly
  <2>2. q[m] = log[m] /\ \A i \in 1..(m - 1) : q[i] = log[i]
    BY <1>3
  <2> QED
    BY <2>1, <2>2
<1>6. CASE line.type = "picker.spawned"
  <2>1. line \notin Range(log)
    BY <1>1, <1>6 DEF MayFollow, Has
  <2>2. \A i \in 1..Len(log) : log[i].type = "picker.spawned" => log[i].id # line.id
    BY <1>3, <1>4, <1>6, <2>1
  <2> QED
    BY <1>1, <1>2, <1>3, <1>5, <1>6, <2>2 DEF PickerOrderly
<1>7. CASE line.type # "picker.spawned"
  <2>1. line.type \in EndTypes
    BY <1>4, <1>7 DEF PickerTypes, EndTypes
  <2>2. /\ Line("picker.spawned", line.id) \in Range(log)
        /\ Line("picker.exited", line.id) \notin Range(log)
        /\ Line("picker.killed", line.id) \notin Range(log)
    BY <1>1, <1>7, <2>1 DEF MayFollow, Has, EndTypes
  <2>3. \E i \in 1..Len(log) : log[i].type = "picker.spawned" /\ log[i].id = line.id
    BY <1>3, <2>2 DEF Line
  <2>4. \A i \in 1..Len(log) : log[i].type \in EndTypes => log[i].id # line.id
    BY <1>3, <1>4, <2>2 DEF EndTypes
  <2> QED
    BY <1>1, <1>2, <1>3, <1>5, <1>7, <2>3, <2>4 DEF PickerOrderly
<1> QED
  BY <1>6, <1>7

LEMMA PrFollows ==
  ASSUME lines["pr"] \in Seq(LinesOf("pr")), PrOrderly(lines["pr"]),
         NEW line \in LinesOf("pr"), MayFollow("pr", line)
  PROVE  PrOrderly(Append(lines["pr"], line))
<1>1. PICK log \in Seq(LinesOf("pr")) : log = lines["pr"]
  OBVIOUS
<1>2. PICK q : q = Append(log, line)
  OBVIOUS
<1>3. /\ Len(log) \in Nat /\ Len(q) = Len(log) + 1 /\ q[Len(log) + 1] = line
      /\ (\A i \in 1..Len(log) : q[i] = log[i]) /\ Range(log) = {log[i] : i \in 1..Len(log)}
      /\ (\A m \in 1..Len(q) : m = Len(log) + 1 \/ m \in 1..Len(log))
      /\ (\A m \in 1..Len(log) : 1..(m - 1) \subseteq 1..Len(log))
      /\ (Len(log) + 1) - 1 = Len(log)
  BY <1>1, <1>2 DEF Range
<1>4. line.type \in PrTypes \union {"pr.status-changed", "pr.ci.status-changed"}
  BY LinesAre
<1>5. ASSUME NEW m \in 1..Len(log)
      PROVE  IF q[m].type = "pr.opened" THEN \A i \in 1..(m - 1) : q[i].type # "pr.opened"
             ELSE /\ \E i \in 1..(m - 1) : q[i].type = "pr.opened"
                  /\ \A i \in 1..(m - 1) : q[i].type # "pr.merged"
  BY <1>1, <1>3 DEF PrOrderly
<1>6. CASE line.type = "pr.opened"
  <2>0. ~Some("pr", "pr.opened")
    BY <1>6 DEF MayFollow
  <2>1. \A i \in 1..Len(log) : log[i].type # "pr.opened"
    BY <1>1, <1>3, <2>0 DEF Some
  <2> QED
    BY <1>1, <1>2, <1>3, <1>5, <1>6, <2>1 DEF PrOrderly
<1>7. CASE line.type # "pr.opened"
  <2>1. Some("pr", "pr.opened") /\ ~Some("pr", "pr.merged")
    BY <1>4, <1>7 DEF MayFollow, PrTypes
  <2>2. /\ \E i \in 1..Len(log) : log[i].type = "pr.opened"
        /\ \A i \in 1..Len(log) : log[i].type # "pr.merged"
    BY <1>1, <1>3, <2>1 DEF Some
  <2> QED
    BY <1>1, <1>2, <1>3, <1>5, <1>7, <2>2 DEF PrOrderly
<1> QED
  BY <1>6, <1>7

LEMMA TempyrFollows ==
  ASSUME lines["tempyr"] \in Seq(LinesOf("tempyr")), TempyrOrderly(lines["tempyr"]),
         NEW line \in LinesOf("tempyr"), MayFollow("tempyr", line)
  PROVE  TempyrOrderly(Append(lines["tempyr"], line))
<1>1. PICK log \in Seq(LinesOf("tempyr")) : log = lines["tempyr"]
  OBVIOUS
<1>2. PICK q : q = Append(log, line)
  OBVIOUS
<1>3. /\ Len(log) \in Nat /\ Len(q) = Len(log) + 1 /\ q[Len(log) + 1] = line
      /\ (\A i \in 1..Len(log) : q[i] = log[i]) /\ Range(log) = {log[i] : i \in 1..Len(log)}
      /\ (\A m \in 1..Len(q) : m = Len(log) + 1 \/ m \in 1..Len(log))
      /\ (\A m \in 1..Len(log) : 1..(m - 1) \subseteq 1..Len(log))
      /\ (Len(log) + 1) - 1 = Len(log)
  BY <1>1, <1>2 DEF Range
<1>4. \A x \in LinesOf("tempyr") : x.type \in TempyrTypes => x = Line(x.type, x.id)
  BY LinesAre DEF TempyrTypes
<1>5. ASSUME NEW m \in 1..Len(log)
      PROVE  /\ q[m].type = "tempyr.write-pending" =>
                  \A i \in 1..(m - 1) : q[i].type = "tempyr.write-pending" => q[i].id # q[m].id
             /\ q[m].type \in SettledTypes =>
                  /\ \E i \in 1..(m - 1) : q[i].type = "tempyr.write-pending" /\ q[i].id = q[m].id
                  /\ \A i \in 1..(m - 1) : q[i].type \in SettledTypes => q[i].id # q[m].id
  BY <1>1, <1>3 DEF TempyrOrderly
<1>6. ASSUME line.type = "tempyr.write-pending"
      PROVE  \A i \in 1..Len(log) : log[i].type = "tempyr.write-pending" => log[i].id # line.id
  <2>1. line \notin Range(log)
    BY <1>1, <1>6 DEF MayFollow, Has
  <2> QED
    BY <1>3, <1>4, <1>6, <2>1 DEF TempyrTypes
<1>7. ASSUME line.type \in SettledTypes
      PROVE  /\ \E i \in 1..Len(log) : log[i].type = "tempyr.write-pending" /\ log[i].id = line.id
             /\ \A i \in 1..Len(log) : log[i].type \in SettledTypes => log[i].id # line.id
  <2>1. /\ Line("tempyr.write-pending", line.id) \in Range(log)
        /\ Line("tempyr.write-confirmed", line.id) \notin Range(log)
        /\ Line("tempyr.write-permanently-failed", line.id) \notin Range(log)
    BY <1>1, <1>7 DEF MayFollow, Has, SettledTypes
  <2>2. \E i \in 1..Len(log) : log[i].type = "tempyr.write-pending" /\ log[i].id = line.id
    BY <1>3, <2>1 DEF Line
  <2>3. \A i \in 1..Len(log) : log[i].type \in SettledTypes => log[i].id # line.id
    BY <1>3, <1>4, <2>1 DEF SettledTypes, TempyrTypes
  <2> QED
    BY <2>2, <2>3
<1>8. ASSUME NEW m \in 1..Len(q)
      PROVE  /\ q[m].type = "tempyr.write-pending" =>
                  \A i \in 1..(m - 1) : q[i].type = "tempyr.write-pending" => q[i].id # q[m].id
             /\ q[m].type \in SettledTypes =>
                  /\ \E i \in 1..(m - 1) : q[i].type = "tempyr.write-pending" /\ q[i].id = q[m].id
                  /\ \A i \in 1..(m - 1) : q[i].type \in SettledTypes => q[i].id # q[m].id
  BY <1>3, <1>5, <1>6, <1>7
<1> QED
  BY <1>1, <1>2, <1>8 DEF TempyrOrderly

LEMMA OrderKept ==
  ASSUME NEW f \in JournalFiles, lines[f] \in Seq(LinesOf(f)), Orderly(f, lines[f]),
         NEW line \in LinesOf(f), MayFollow(f, line)
  PROVE  Orderly(f, Append(lines[f], line))
BY PickerFollows, PrFollows, TempyrFollows DEF Orderly

LEMMA CountAdds ==
  ASSUME NEW l, NEW k, NEW f \in JournalFiles, \A g \in JournalFiles : Len(l[g]) \in Nat,
         \A g \in JournalFiles : g # f => k[g] = l[g], Len(k[f]) = Len(l[f]) + 1
  PROVE  Count(k) = Count(l) + 1
<1>1. /\ f \in {"branch", "picker", "pr", "worktree", "tempyr"}
      /\ \A g \in {"branch", "picker", "pr", "worktree", "tempyr"} : Len(l[g]) \in Nat
      /\ \A g \in {"branch", "picker", "pr", "worktree", "tempyr"} : g # f => Len(k[g]) = Len(l[g])
  BY JournalFilesAre
<1>2. PICK a \in Nat, b \in Nat, c \in Nat, d \in Nat, e \in Nat :
        /\ a = Len(l["branch"]) /\ b = Len(l["picker"]) /\ c = Len(l["pr"])
        /\ d = Len(l["worktree"]) /\ e = Len(l["tempyr"])
  BY <1>1
<1>3. Count(l) = a + b + c + d + e
  BY <1>2 DEF Count
<1>4. CASE f = "branch"
  <2>1. /\ Len(k["branch"]) = a + 1 /\ Len(k["picker"]) = b /\ Len(k["pr"]) = c
        /\ Len(k["worktree"]) = d /\ Len(k["tempyr"]) = e
    BY <1>1, <1>2, <1>4
  <2>2. Count(k) = (a + 1) + b + c + d + e
    BY <2>1 DEF Count
  <2>3. (a + 1) + b + c + d + e = a + b + c + d + e + 1
    OBVIOUS
  <2> QED
    BY <1>3, <2>2, <2>3
<1>5. CASE f = "picker"
  <2>1. /\ Len(k["branch"]) = a /\ Len(k["picker"]) = b + 1 /\ Len(k["pr"]) = c
        /\ Len(k["worktree"]) = d /\ Len(k["tempyr"]) = e
    BY <1>1, <1>2, <1>5
  <2>2. Count(k) = a + (b + 1) + c + d + e
    BY <2>1 DEF Count
  <2>3. a + (b + 1) + c + d + e = a + b + c + d + e + 1
    OBVIOUS
  <2> QED
    BY <1>3, <2>2, <2>3
<1>6. CASE f = "pr"
  <2>1. /\ Len(k["branch"]) = a /\ Len(k["picker"]) = b /\ Len(k["pr"]) = c + 1
        /\ Len(k["worktree"]) = d /\ Len(k["tempyr"]) = e
    BY <1>1, <1>2, <1>6
  <2>2. Count(k) = a + b + (c + 1) + d + e
    BY <2>1 DEF Count
  <2>3. a + b + (c + 1) + d + e = a + b + c + d + e + 1
    OBVIOUS
  <2> QED
    BY <1>3, <2>2, <2>3
<1>7. CASE f = "worktree"
  <2>1. /\ Len(k["branch"]) = a /\ Len(k["picker"]) = b /\ Len(k["pr"]) = c
        /\ Len(k["worktree"]) = d + 1 /\ Len(k["tempyr"]) = e
    BY <1>1, <1>2, <1>7
  <2>2. Count(k) = a + b + c + (d + 1) + e
    BY <2>1 DEF Count
  <2>3. a + b + c + (d + 1) + e = a + b + c + d + e + 1
    OBVIOUS
  <2> QED
    BY <1>3, <2>2, <2>3
<1>8. CASE f = "tempyr"
  <2>1. /\ Len(k["branch"]) = a /\ Len(k["picker"]) = b /\ Len(k["pr"]) = c
        /\ Len(k["worktree"]) = d /\ Len(k["tempyr"]) = e + 1
    BY <1>1, <1>2, <1>8
  <2>2. Count(k) = a + b + c + d + (e + 1)
    BY <2>1 DEF Count
  <2>3. a + b + c + d + (e + 1) = a + b + c + d + e + 1
    OBVIOUS
  <2> QED
    BY <1>3, <2>2, <2>3
<1> QED
  BY <1>1, <1>4, <1>5, <1>6, <1>7, <1>8

LEMMA WorldReadStarts == WorldInit => WorldReadInv
<1> SUFFICES ASSUME WorldInit PROVE WorldReadInv
  OBVIOUS
<1>1. /\ lines = [f \in JournalFiles |-> <<>>] /\ again = 0 /\ rooted \in BOOLEAN
      /\ github \in {"none", "open", "fails"} /\ snapshot = NoWorld
      /\ reading = [todo |-> <<>>, facts |-> NoFacts, at |-> [f \in JournalFiles |-> <<>>]]
  BY DEF WorldInit, NotReading
<1>2. NoFacts \in WorldFactsType
  BY DEF NoFacts, WorldFactsType
<1>3. \A f \in JournalFiles : lines[f] = <<>> /\ <<>> \in Seq(LinesOf(f)) /\ reading.at[f] = <<>>
  BY <1>1
<1>4. Count(lines) = 0
  <2>1. Len(<<>>) = 0
    OBVIOUS
  <2>2. \A f \in {"branch", "picker", "pr", "worktree", "tempyr"} : Len(lines[f]) = 0
    BY <1>3, <2>1, JournalFilesAre
  <2>3. /\ Len(lines["branch"]) = 0 /\ Len(lines["picker"]) = 0 /\ Len(lines["pr"]) = 0
        /\ Len(lines["worktree"]) = 0 /\ Len(lines["tempyr"]) = 0
    BY <2>2
  <2> QED
    BY <2>3 DEF Count
<1>5. BeginsAs(<<>>, <<>>)
  BY DEF BeginsAs
<1>6. <<>> \in Todos /\ 0 \in 0..MaxAgain /\ MaxLines \in Nat
  BY WorldBoundsAssumption DEF Todos
<1>7. ReadTyped
  BY <1>1, <1>2, <1>3, <1>4, <1>5, <1>6 DEF ReadTyped, NoWorld
<1>8. \A f \in JournalFiles : Orderly(f, <<>>)
  BY DEF Orderly, PickerOrderly, PrOrderly, TempyrOrderly
<1>9. InOrder
  BY <1>3, <1>8 DEF InOrder
<1>10. Unread
  BY <1>1, RangesAre DEF Unread
<1>11. ReadSoFar /\ AnswerTells
  BY <1>1 DEF ReadSoFar, AnswerTells
<1> QED
  BY <1>7, <1>9, <1>10, <1>11 DEF WorldReadInv

LEMMA WorldLineKept ==
  ASSUME WorldReadInv, NEW f \in JournalFiles, NEW line \in LinesOf(f),
         Journal(f, line) \/ JournalAgain(f, line)
  PROVE  WorldReadInv'
<1>1. /\ Adds(f, line) /\ rooted' = rooted /\ github' = github
      /\ \/ again' = again /\ Count(lines) < MaxLines /\ MayFollow(f, line)
         \/ again' = again + 1 /\ again < MaxAgain
  BY DEF Journal, JournalAgain
<1>2. PICK log \in Seq(LinesOf(f)) : log = lines[f]
  BY DEF WorldReadInv, ReadTyped
<1>3. PICK q : q = Append(log, line)
  OBVIOUS
<1>4. /\ q \in Seq(LinesOf(f)) /\ Len(q) = Len(log) + 1 /\ Len(log) \in Nat
      /\ \A i \in 1..Len(log) : q[i] = log[i]
  BY <1>3
<1>5. /\ lines' = [lines EXCEPT ![f] = q] /\ snapshot' = NoWorld
      /\ IF reading.todo = <<>> THEN reading' = NotReading ELSE reading' = reading
  BY <1>1, <1>2, <1>3 DEF Adds
<1>6. /\ lines'[f] = q /\ DOMAIN lines' = JournalFiles
      /\ (\A g \in JournalFiles : g # f => lines'[g] = lines[g])
      /\ lines' = [g \in JournalFiles |-> lines'[g]]
  BY <1>5 DEF WorldReadInv, ReadTyped
<1>7. \A g \in JournalFiles : lines'[g] \in Seq(LinesOf(g))
  BY <1>4, <1>6 DEF WorldReadInv, ReadTyped
<1>8. ReadTyped'
  <2>1. /\ DOMAIN reading' = {"todo", "facts", "at"} /\ reading'.facts \in WorldFactsType
        /\ reading' = [i \in {"todo", "facts", "at"} |-> reading'[i]] /\ reading'.todo \in Todos
        /\ \A g \in JournalFiles :
             reading'.at[g] \in Seq(LinesOf(g)) /\ BeginsAs(reading'.at[g], lines'[g])
    <3>1. CASE reading.todo = <<>>
      <4>1. reading' = [todo |-> <<>>, facts |-> NoFacts, at |-> [g \in JournalFiles |-> <<>>]]
        BY <1>5, <3>1 DEF NotReading
      <4>2. NoFacts \in WorldFactsType /\ <<>> \in Todos
        BY DEF NoFacts, WorldFactsType, Todos
      <4>3. ASSUME NEW g \in JournalFiles
            PROVE  reading'.at[g] \in Seq(LinesOf(g)) /\ BeginsAs(reading'.at[g], lines'[g])
        <5>1. reading'.at[g] = <<>> /\ <<>> \in Seq(LinesOf(g))
          BY <4>1
        <5>2. PICK l \in Seq(LinesOf(g)) : l = lines'[g]
          BY <1>7
        <5>3. BeginsAs(<<>>, l)
          BY DEF BeginsAs
        <5> QED
          BY <5>1, <5>2, <5>3
      <4> QED
        BY <4>1, <4>2, <4>3
    <3>2. CASE reading.todo # <<>>
      <4>1. reading' = reading
        BY <1>5, <3>2
      <4>2. ASSUME NEW g \in JournalFiles
            PROVE  reading'.at[g] \in Seq(LinesOf(g)) /\ BeginsAs(reading'.at[g], lines'[g])
        <5>1. PICK a \in Seq(LinesOf(g)), l \in Seq(LinesOf(g)) :
                a = reading.at[g] /\ l = lines[g] /\ BeginsAs(a, l)
          BY DEF WorldReadInv, ReadTyped
        <5>2. PICK m : m = lines'[g]
          OBVIOUS
        <5>3. BeginsAs(a, m)
          <6>1. CASE g # f
            BY <1>6, <5>1, <5>2, <6>1
          <6>2. CASE g = f
            <7>1. l = log /\ m = q
              BY <1>2, <1>6, <5>1, <5>2, <6>2
            <7> QED
              BY <1>4, <5>1, <7>1 DEF BeginsAs
          <6> QED
            BY <6>1, <6>2
        <5> QED
          BY <4>1, <5>1, <5>2, <5>3
      <4> QED
        BY <4>1, <4>2 DEF WorldReadInv, ReadTyped
    <3> QED
      BY <3>1, <3>2
  <2>2. again' \in 0..MaxAgain /\ Count(lines)' <= MaxLines + again'
    <3>1. \A g \in JournalFiles : Len(lines[g]) \in Nat
      BY DEF WorldReadInv, ReadTyped
    <3>2. Len(lines'[f]) = Len(lines[f]) + 1
      BY <1>2, <1>4, <1>6
    <3>3. PICK l, k : l = lines /\ k = lines'
      OBVIOUS
    <3>4. Count(k) = Count(l) + 1
      BY <1>6, <3>1, <3>2, <3>3, CountAdds
    <3>5. Count(l) \in Nat
      <4>1. /\ Len(l["branch"]) \in Nat /\ Len(l["picker"]) \in Nat /\ Len(l["pr"]) \in Nat
            /\ Len(l["worktree"]) \in Nat /\ Len(l["tempyr"]) \in Nat
        BY <3>1, <3>3, JournalFilesAre
      <4>2. PICK a \in Nat, b \in Nat, c \in Nat, d \in Nat, e \in Nat :
            /\ a = Len(l["branch"]) /\ b = Len(l["picker"]) /\ c = Len(l["pr"])
            /\ d = Len(l["worktree"]) /\ e = Len(l["tempyr"])
        BY <4>1
      <4>3. Count(l) = a + b + c + d + e
        BY <4>2 DEF Count
      <4>4. a + b + c + d + e \in Nat
        OBVIOUS
      <4> QED
        BY <4>3, <4>4
    <3>6. Count(lines)' = Count(k) /\ Count(lines) = Count(l)
      BY <3>3 DEF Count
    <3>7. again \in 0..MaxAgain /\ Count(l) <= MaxLines + again /\ MaxLines \in Nat /\ MaxAgain \in Nat
      BY <3>6, WorldBoundsAssumption DEF WorldReadInv, ReadTyped
    <3> QED
      BY <1>1, <3>4, <3>5, <3>6, <3>7
  <2>3. snapshot'.verdict \in {"none", "Ready", "ReadyWithWarnings"}
    BY <1>5 DEF NoWorld
  <2>4. rooted' \in BOOLEAN /\ github' \in {"none", "open", "fails"}
    BY <1>1 DEF WorldReadInv, ReadTyped
  <2> QED
    BY <1>6, <1>7, <2>1, <2>2, <2>3, <2>4 DEF ReadTyped
<1>9. again \in Nat /\ (again' = 0 => again = 0 /\ MayFollow(f, line))
  BY <1>1, WorldBoundsAssumption DEF WorldReadInv, ReadTyped
<1>10. InOrder'
  <2> SUFFICES ASSUME again' = 0, NEW g \in JournalFiles, NEW l \in {lines'[g]} PROVE Orderly(g, l)
    BY DEF InOrder
  <2>1. PICK o : o = lines[g]
    OBVIOUS
  <2>2. Orderly(g, o)
    BY <1>9, <2>1 DEF WorldReadInv, InOrder
  <2>3. CASE g # f
    BY <1>6, <2>1, <2>2, <2>3
  <2>4. CASE g = f
    <3>1. Orderly(f, lines[f]) /\ lines[f] \in Seq(LinesOf(f))
      BY <1>2, <2>1, <2>2, <2>4
    <3>2. Orderly(f, Append(lines[f], line))
      BY <1>9, <3>1, OrderKept
    <3> QED
      BY <1>2, <1>3, <1>6, <2>4, <3>2
  <2> QED
    BY <2>3, <2>4
<1>11. Unread'
  <2>1. CASE reading.todo = <<>>
    <3>1. reading'.todo = <<>>
      BY <1>5, <2>1 DEF NotReading
    <3> QED
      BY <3>1, RangesAre DEF Unread
  <2>2. CASE reading.todo # <<>>
    <3>1. reading' = reading
      BY <1>5, <2>2
    <3> QED
      BY <3>1 DEF WorldReadInv, Unread
  <2> QED
    BY <2>1, <2>2
<1>12. ReadSoFar'
  <2> SUFFICES ASSUME again' = 0, reading'.todo # <<>>, NEW x \in {reading'.facts},
                      NEW g \in JournalFiles \ Range(reading'.todo), NEW l \in {lines'[g]},
                      NEW k \in {Len(reading'.at[g])}
               PROVE  SaysOf(g, l, k, x)'
    BY DEF ReadSoFar
  <2>1. reading' = reading /\ reading.todo # <<>>
    <3>1. reading.todo # <<>>
      BY <1>5 DEF NotReading
    <3> QED
      BY <1>5, <3>1
  <2>2. PICK o : o = lines[g]
    OBVIOUS
  <2>3. SaysOf(g, o, k, x)
    BY <1>9, <2>1, <2>2 DEF WorldReadInv, ReadSoFar
  <2>4. SaysOf(g, l, k, x)
    <3>1. CASE g # f
      BY <1>6, <2>2, <2>3, <3>1
    <3>2. CASE g = f
      <4>1. o = log /\ l = Append(log, line)
        BY <1>2, <1>3, <1>6, <2>2, <3>2
      <4> QED
        BY <2>3, <4>1, SaysStays
    <3> QED
      BY <3>1, <3>2
  <2> QED
    BY <1>1, <2>4, SaysSame
<1>13. AnswerTells'
  BY <1>5 DEF AnswerTells
<1> QED
  BY <1>8, <1>10, <1>11, <1>12, <1>13 DEF WorldReadInv

LEMMA BeginsAsItself ==
  ASSUME NEW A, NEW l \in Seq(A)
  PROVE  BeginsAs(l, l)
BY DEF BeginsAs

LEMMA WorldBeginKept == ASSUME WorldReadInv, BeginSnapshot PROVE WorldReadInv'
<1>1. /\ reading' = [todo |-> FileOrder, facts |-> NoFacts, at |-> lines] /\ snapshot' = NoWorld
      /\ UNCHANGED <<lines, again, rooted, github>>
  BY DEF BeginSnapshot
<1>2. NoFacts \in WorldFactsType /\ FileOrder \in Todos
  BY DEF NoFacts, WorldFactsType, Todos, FileOrder
<1>3. Range(FileOrder) = JournalFiles
  BY DEF JournalFiles
<1>4. \A f \in JournalFiles : reading'.at[f] = lines[f] /\ lines[f] \in Seq(LinesOf(f))
                                /\ BeginsAs(lines[f], lines[f])
  <2> TAKE f \in JournalFiles
  <2>1. PICK l \in Seq(LinesOf(f)) : l = lines[f]
    BY DEF WorldReadInv, ReadTyped
  <2>2. BeginsAs(l, l)
    BY BeginsAsItself
  <2> QED
    BY <1>1, <2>1, <2>2
<1>5. \A f \in JournalFiles : reading'.at[f] \in Seq(LinesOf(f)) /\ BeginsAs(reading'.at[f], lines'[f])
  BY <1>1, <1>4
<1>6. Count(lines)' = Count(lines)
  BY <1>1 DEF Count
<1>7. ReadTyped'
  BY <1>1, <1>2, <1>5, <1>6 DEF WorldReadInv, ReadTyped, NoWorld
<1>8. InOrder'
  BY <1>1 DEF WorldReadInv, InOrder
<1>9. Unread'
  BY <1>1 DEF Unread
<1>10. ReadSoFar'
  BY <1>1, <1>3 DEF ReadSoFar
<1>11. AnswerTells'
  BY <1>1 DEF AnswerTells
<1> QED
  BY <1>7, <1>8, <1>9, <1>10, <1>11 DEF WorldReadInv

\* The facts after one more file.
LEMMA ReadOne ==
  ASSUME WorldReadInv, reading.todo # <<>>, NEW x, x = reading.facts, NEW g, g = Head(reading.todo),
         NEW z, z = ApplyFile(x, lines[g])
  PROVE  /\ z \in WorldFactsType
         /\ \A f \in Range(Tail(reading.todo)) : FactsOf(f, z) = FactsOf(f, NoFacts)
         /\ again = 0 => \A f \in JournalFiles \ Range(Tail(reading.todo)) :
              \A log \in {lines[f]}, k \in {Len(reading.at[f])} : SaysOf(f, log, k, z)
<1>1. PICK todo \in Todos : todo = reading.todo
  BY DEF WorldReadInv, ReadTyped
<1>2. /\ g \in JournalFiles /\ g \in Range(todo) /\ Range(todo) \subseteq JournalFiles
      /\ Range(Tail(todo)) = Range(todo) \ {g}
  BY <1>1, NextTodo
<1>3. PICK log \in Seq(LinesOf(g)) : log = lines[g]
  BY <1>2 DEF WorldReadInv, ReadTyped
<1>4. x \in WorldFactsType
  BY DEF WorldReadInv, ReadTyped
<1>5. z = ApplyFile(x, log)
  BY <1>3
<1>6. Extends(g, x, z)
  BY <1>2, <1>4, <1>5, FileAdds
<1>7. z \in WorldFactsType
  BY <1>6 DEF Extends
<1>8. \A f \in Range(todo) : FactsOf(f, x) = FactsOf(f, NoFacts)
  BY <1>1 DEF WorldReadInv, Unread
<1>9. \A f \in Range(Tail(todo)) : FactsOf(f, z) = FactsOf(f, NoFacts)
  BY <1>2, <1>6, <1>8 DEF Extends
<1>10. ASSUME again = 0, NEW f \in JournalFiles \ Range(Tail(todo)), NEW l \in {lines[f]},
              NEW k \in {Len(reading.at[f])}
       PROVE  SaysOf(f, l, k, z)
  <2>1. CASE f = g
    <3>1. Orderly(g, log) /\ l = log
      BY <1>2, <1>3, <1>10, <2>1 DEF WorldReadInv, InOrder
    <3>2. PICK a \in Seq(LinesOf(f)) : a = reading.at[f] /\ BeginsAs(a, lines[f])
      BY <1>10 DEF WorldReadInv, ReadTyped
    <3>3. k \in Nat /\ k <= Len(log)
      BY <1>3, <2>1, <3>2 DEF BeginsAs
    <3>4. FactsOf(g, x) = FactsOf(g, NoFacts)
      BY <1>2, <1>8
    <3>5. SaysOf(g, log, k, ApplyFile(x, log))
      BY <1>2, <1>4, <3>1, <3>3, <3>4, ReadSays
    <3> QED
      BY <1>5, <2>1, <3>1, <3>5
  <2>2. CASE f # g
    <3>1. f \in JournalFiles \ Range(todo)
      BY <1>2, <1>10, <2>2
    <3>2. SaysOf(f, l, k, x)
      BY <1>1, <1>10, <3>1 DEF WorldReadInv, ReadSoFar
    <3> QED
      BY <1>2, <1>4, <1>6, <1>10, <2>2, <3>2, SaysFramed
  <2> QED
    BY <2>1, <2>2
<1> QED
  BY <1>1, <1>7, <1>9, <1>10

LEMMA WorldReadKept == ASSUME WorldReadInv, ReadFile PROVE WorldReadInv'
<1>1. PICK x, g, z : x = reading.facts /\ g = Head(reading.todo) /\ z = ApplyFile(x, lines[g])
  OBVIOUS
<1>2. /\ reading.todo # <<>> /\ reading.todo # <<"tempyr">>
      /\ reading' = [reading EXCEPT !.todo = Tail(reading.todo), !.facts = z]
      /\ UNCHANGED <<lines, again, rooted, github, snapshot>>
  BY <1>1 DEF ReadFile
<1>3. /\ z \in WorldFactsType
      /\ \A f \in Range(Tail(reading.todo)) : FactsOf(f, z) = FactsOf(f, NoFacts)
      /\ again = 0 => \A f \in JournalFiles \ Range(Tail(reading.todo)) :
              \A log \in {lines[f]}, k \in {Len(reading.at[f])} : SaysOf(f, log, k, z)
  BY <1>1, <1>2, ReadOne
<1>4. PICK todo \in Todos : todo = reading.todo
  BY DEF WorldReadInv, ReadTyped
<1>5. Tail(todo) \in Todos
  BY <1>2, <1>4, NextTodo
<1>6. /\ DOMAIN reading' = {"todo", "facts", "at"} /\ reading'.todo = Tail(todo)
      /\ reading'.facts = z /\ reading'.at = reading.at
      /\ reading' = [i \in {"todo", "facts", "at"} |-> reading'[i]]
  BY <1>2, <1>4 DEF WorldReadInv, ReadTyped
<1>7. Count(lines)' = Count(lines)
  BY <1>2 DEF Count
<1>8. ReadTyped'
  BY <1>2, <1>3, <1>5, <1>6, <1>7 DEF WorldReadInv, ReadTyped
<1>9. InOrder'
  BY <1>2 DEF WorldReadInv, InOrder
<1>10. Unread'
  BY <1>3, <1>4, <1>6 DEF Unread
<1>11. ReadSoFar'
  <2> SUFFICES ASSUME again' = 0, NEW y \in {reading'.facts},
                      NEW f \in JournalFiles \ Range(reading'.todo), NEW l \in {lines'[f]},
                      NEW k \in {Len(reading'.at[f])}
               PROVE  SaysOf(f, l, k, y)'
    BY DEF ReadSoFar
  <2>1. SaysOf(f, l, k, z) /\ y = z
    BY <1>2, <1>3, <1>4, <1>6
  <2> QED
    BY <1>2, <2>1, SaysSame
<1>12. AnswerTells'
  <2> SUFFICES ASSUME NEW s \in {snapshot'}, s # NoWorld, again' = 0, NEW y \in {s.facts},
                      NEW f \in JournalFiles, NEW l \in {lines'[f]}, NEW k \in {Len(reading'.at[f])}
               PROVE  AnswerSays(f, l, k, y)'
    BY DEF AnswerTells
  <2>1. AnswerSays(f, l, k, y)
    BY <1>2, <1>6 DEF WorldReadInv, AnswerTells
  <2> QED
    BY <1>2, <2>1, SaysSame
<1> QED
  BY <1>8, <1>9, <1>10, <1>11, <1>12 DEF WorldReadInv

LEMMA WorldAnswerKept == ASSUME WorldReadInv, AnswerSnapshot PROVE WorldReadInv'
<1>1. PICK x, g, z : x = reading.facts /\ g = Head(reading.todo) /\ z = ApplyFile(x, lines[g])
  OBVIOUS
<1>2. /\ reading.todo = <<"tempyr">>
      /\ reading' = [reading EXCEPT !.todo = <<>>, !.facts = NoFacts]
      /\ UNCHANGED <<lines, again, rooted, github>>
  BY DEF AnswerSnapshot
<1>3. reading.todo # <<>> /\ g = "tempyr" /\ Tail(reading.todo) = <<>>
  BY <1>1, <1>2
<1>4. /\ again = 0 => \A f \in JournalFiles \ Range(Tail(reading.todo)) :
              \A log \in {lines[f]}, k \in {Len(reading.at[f])} : SaysOf(f, log, k, z)
  BY <1>1, <1>3, ReadOne
<1>5. PICK tags : tags = Tags(z)
  OBVIOUS
<1>6. snapshot' = [facts |-> Shown(z), tags |-> tags, verdict |-> Readiness(BlockersFor(tags)),
                   merge |-> Mergeability(z)]
  BY <1>1, <1>3, <1>5 DEF AnswerSnapshot, Shown
<1>7. /\ DOMAIN reading' = {"todo", "facts", "at"} /\ reading'.todo = <<>>
      /\ reading'.facts = NoFacts /\ reading'.at = reading.at
      /\ reading' = [i \in {"todo", "facts", "at"} |-> reading'[i]]
  BY <1>2 DEF WorldReadInv, ReadTyped
<1>8. Count(lines)' = Count(lines)
  BY <1>2 DEF Count
<1>9. NoFacts \in WorldFactsType /\ <<>> \in Todos
  BY DEF NoFacts, WorldFactsType, Todos
<1>10. snapshot'.verdict \in {"none", "Ready", "ReadyWithWarnings"}
  BY <1>6 DEF Readiness
<1>11. ReadTyped'
  BY <1>2, <1>7, <1>8, <1>9, <1>10 DEF WorldReadInv, ReadTyped
<1>12. InOrder'
  BY <1>2 DEF WorldReadInv, InOrder
<1>13. Unread'
  BY <1>7, RangesAre DEF Unread
<1>14. ReadSoFar'
  BY <1>7 DEF ReadSoFar
<1>15. AnswerTells'
  <2> SUFFICES ASSUME NEW s \in {snapshot'}, s # NoWorld, again' = 0, NEW y \in {s.facts},
                      NEW f \in JournalFiles, NEW l \in {lines'[f]}, NEW k \in {Len(reading'.at[f])}
               PROVE  AnswerSays(f, l, k, y)'
    BY DEF AnswerTells
  <2>1. y = Shown(z)
    BY <1>6
  <2>2. SaysOf(f, l, k, z)
    BY <1>2, <1>3, <1>4, <1>7, RangesAre
  <2>3. AnswerSays(f, l, k, Shown(z))
    BY <2>2, AnswerOfFacts
  <2>4. AnswerSays(f, l, k, y)
    BY <2>1, <2>3
  <2> QED
    BY <1>2, <2>4, SaysSame
<1> QED
  BY <1>11, <1>12, <1>13, <1>14, <1>15 DEF WorldReadInv

LEMMA WorldReadInvKept == WorldReadInv /\ [WorldNext]_worldVars => WorldReadInv'
<1> SUFFICES ASSUME WorldReadInv, [WorldNext]_worldVars PROVE WorldReadInv'
  OBVIOUS
<1>1. CASE UNCHANGED worldVars
  <2>1. UNCHANGED <<lines, again, rooted, github, reading, snapshot>>
    BY <1>1 DEF worldVars
  <2>2. Count(lines)' = Count(lines)
    BY <2>1 DEF Count
  <2>3. ReadTyped'
    BY <2>1, <2>2 DEF WorldReadInv, ReadTyped
  <2>4. InOrder' /\ Unread'
    BY <2>1 DEF WorldReadInv, InOrder, Unread
  <2>5. ReadSoFar'
    <3> SUFFICES ASSUME again' = 0, reading'.todo # <<>>, NEW y \in {reading'.facts},
                        NEW f \in JournalFiles \ Range(reading'.todo), NEW l \in {lines'[f]},
                        NEW k \in {Len(reading'.at[f])}
                 PROVE  SaysOf(f, l, k, y)'
      BY DEF ReadSoFar
    <3>1. SaysOf(f, l, k, y)
      BY <2>1 DEF WorldReadInv, ReadSoFar
    <3> QED
      BY <2>1, <3>1, SaysSame
  <2>6. AnswerTells'
    <3> SUFFICES ASSUME NEW s \in {snapshot'}, s # NoWorld, again' = 0, NEW y \in {s.facts},
                      NEW f \in JournalFiles, NEW l \in {lines'[f]}, NEW k \in {Len(reading'.at[f])}
                 PROVE  AnswerSays(f, l, k, y)'
      BY DEF AnswerTells
    <3>1. AnswerSays(f, l, k, y)
      BY <2>1 DEF WorldReadInv, AnswerTells
    <3> QED
      BY <2>1, <3>1, SaysSame
  <2> QED
    BY <2>3, <2>4, <2>5, <2>6 DEF WorldReadInv
<1>2. CASE WorldNext
  BY <1>2, WorldLineKept, WorldBeginKept, WorldReadKept, WorldAnswerKept DEF WorldNext
<1> QED
  BY <1>1, <1>2

LEMMA WorldReadTells == WorldReadInv => WorldIsTold
<1> SUFFICES ASSUME WorldReadInv, snapshot # NoWorld, again = 0, NEW f \in JournalFiles
             PROVE  \E n \in Len(reading.at[f])..Len(lines[f]) :
                      FileTold(f, SubSeq(lines[f], 1, n), snapshot.facts)
  BY DEF WorldIsTold
<1>1. PICK y, l, k : y = snapshot.facts /\ l = lines[f] /\ k = Len(reading.at[f])
  OBVIOUS
<1>2. AnswerSays(f, l, k, y)
  BY <1>1 DEF WorldReadInv, AnswerTells
<1> QED
  BY <1>1, <1>2 DEF AnswerSays

\* What is left to read is an end of the order of the files.
LEMMA TodosEnd == ASSUME NEW todo \in Todos PROVE IsSuffix(todo, FileOrder)
<1>1. PICK o : o = <<"tempyr", "worktree", "pr", "picker", "branch">>
  OBVIOUS
<1>2. /\ Len(o) = 5 /\ o[1] = "tempyr" /\ o[2] = "worktree" /\ o[3] = "pr"
      /\ o[4] = "picker" /\ o[5] = "branch" /\ o = [i \in 1..5 |-> o[i]]
  BY <1>1
<1>3. Reverse(FileOrder) = o
  <2>1. PICK q : q = FileOrder
    OBVIOUS
  <2>2. /\ Len(q) = 5 /\ q[1] = "branch" /\ q[2] = "picker" /\ q[3] = "pr"
        /\ q[4] = "worktree" /\ q[5] = "tempyr"
    BY <2>1 DEF FileOrder
  <2>3. Reverse(q) = [i \in 1..5 |-> q[(5 - i) + 1]]
    BY <2>2 DEF Reverse
  <2>4. \A i \in 1..5 : i = 1 \/ i = 2 \/ i = 3 \/ i = 4 \/ i = 5
    OBVIOUS
  <2>5. \A i \in 1..5 : q[(5 - i) + 1] = o[i]
    BY <1>2, <2>2, <2>4
  <2> QED
    BY <1>2, <2>1, <2>3, <2>5
<1>4. PICK r : r = Reverse(todo)
  OBVIOUS
<1>5. /\ Len(r) \in Nat /\ Len(r) <= 5 /\ r = [i \in 1..Len(r) |-> r[i]]
      /\ \A i \in 1..Len(r) : r[i] = o[i]
  <2>1. CASE todo = <<"branch", "picker", "pr", "worktree", "tempyr">>
    <3>1. todo = FileOrder
      BY <2>1 DEF FileOrder
    <3>2. r = o
      BY <1>3, <1>4, <3>1
    <3> QED
      BY <1>2, <3>2
  <2>2. CASE todo = <<"picker", "pr", "worktree", "tempyr">>
    <3>1. /\ Len(todo) = 4 /\ todo[1] = "picker" /\ todo[2] = "pr" /\ todo[3] = "worktree"
          /\ todo[4] = "tempyr"
      BY <2>2
    <3>2. r = [i \in 1..4 |-> todo[(4 - i) + 1]] /\ Len(r) = 4
      BY <1>4, <3>1 DEF Reverse
    <3>3. \A i \in 1..4 : i = 1 \/ i = 2 \/ i = 3 \/ i = 4
      OBVIOUS
    <3> QED
      BY <1>2, <3>1, <3>2, <3>3
  <2>3. CASE todo = <<"pr", "worktree", "tempyr">>
    <3>1. Len(todo) = 3 /\ todo[1] = "pr" /\ todo[2] = "worktree" /\ todo[3] = "tempyr"
      BY <2>3
    <3>2. r = [i \in 1..3 |-> todo[(3 - i) + 1]] /\ Len(r) = 3
      BY <1>4, <3>1 DEF Reverse
    <3>3. \A i \in 1..3 : i = 1 \/ i = 2 \/ i = 3
      OBVIOUS
    <3> QED
      BY <1>2, <3>1, <3>2, <3>3
  <2>4. CASE todo = <<"worktree", "tempyr">>
    <3>1. Len(todo) = 2 /\ todo[1] = "worktree" /\ todo[2] = "tempyr"
      BY <2>4
    <3>2. r = [i \in 1..2 |-> todo[(2 - i) + 1]] /\ Len(r) = 2
      BY <1>4, <3>1 DEF Reverse
    <3>3. \A i \in 1..2 : i = 1 \/ i = 2
      OBVIOUS
    <3> QED
      BY <1>2, <3>1, <3>2, <3>3
  <2>5. CASE todo = <<"tempyr">>
    <3>1. Len(todo) = 1 /\ todo[1] = "tempyr"
      BY <2>5
    <3>2. r = [i \in 1..1 |-> todo[(1 - i) + 1]] /\ Len(r) = 1
      BY <1>4, <3>1 DEF Reverse
    <3> QED
      BY <1>2, <3>1, <3>2
  <2>6. CASE todo = <<>>
    <3>1. r = [i \in 1..0 |-> todo[(0 - i) + 1]] /\ Len(r) = 0
      BY <1>4, <2>6 DEF Reverse
    <3> QED
      BY <3>1
  <2> QED
    BY <2>1, <2>2, <2>3, <2>4, <2>5, <2>6 DEF Todos
<1>6. Len(r) <= Len(o)
  BY <1>2, <1>5
<1>7. SubSeq(r, 1, Len(r)) = SubSeq(o, 1, Len(r))
  <2>1. SubSeq(r, 1, Len(r)) = [i \in 1..Len(r) |-> r[i]]
    BY <1>5
  <2>2. SubSeq(o, 1, Len(r)) = [i \in 1..Len(r) |-> o[i]]
    BY <1>2, <1>5
  <2> QED
    BY <1>5, <2>1, <2>2
<1> QED
  BY <1>3, <1>4, <1>6, <1>7 DEF IsSuffix, IsPrefix

LEMMA BeginsIsPrefix ==
  ASSUME NEW A, NEW a \in Seq(A), NEW l \in Seq(A), BeginsAs(a, l)
  PROVE  IsPrefix(a, l)
<1>1. Len(a) \in Nat /\ Len(l) \in Nat /\ Len(a) <= Len(l) /\ \A i \in 1..Len(a) : a[i] = l[i]
  BY DEF BeginsAs
<1>2. SubSeq(a, 1, Len(a)) = [i \in 1..Len(a) |-> a[i]]
  BY <1>1
<1>3. SubSeq(l, 1, Len(a)) = [i \in 1..Len(a) |-> l[i]]
  BY <1>1
<1> QED
  BY <1>1, <1>2, <1>3 DEF IsPrefix

LEMMA WorldReadTypes == WorldReadInv => WorldTypeOK
<1> SUFFICES ASSUME WorldReadInv PROVE WorldTypeOK
  OBVIOUS
<1>1. ASSUME NEW f \in JournalFiles
      PROVE  Range(lines[f]) \subseteq LinesOf(f) /\ IsPrefix(reading.at[f], lines[f])
  <2>1. PICK l \in Seq(LinesOf(f)), a \in Seq(LinesOf(f)) :
          l = lines[f] /\ a = reading.at[f] /\ BeginsAs(a, l)
    BY DEF WorldReadInv, ReadTyped
  <2>2. Range(l) \subseteq LinesOf(f)
    BY DEF Range
  <2>3. IsPrefix(a, l)
    BY <2>1, BeginsIsPrefix
  <2> QED
    BY <2>1, <2>2, <2>3
<1>2. IsSuffix(reading.todo, FileOrder)
  BY TodosEnd DEF WorldReadInv, ReadTyped
<1>3. Count(lines) <= MaxLines + MaxAgain
  <2>1. PICK c : c = Count(lines)
    OBVIOUS
  <2>2. /\ \A f \in JournalFiles : Len(lines[f]) \in Nat
        /\ c <= MaxLines + again /\ again \in 0..MaxAgain
    BY <2>1 DEF WorldReadInv, ReadTyped
  <2>3. PICK l : l = lines
    OBVIOUS
  <2>4. PICK x \in Nat, y \in Nat, z \in Nat, v \in Nat, w \in Nat :
        /\ x = Len(l["branch"]) /\ y = Len(l["picker"]) /\ z = Len(l["pr"])
        /\ v = Len(l["worktree"]) /\ w = Len(l["tempyr"])
    BY <2>2, <2>3, JournalFilesAre
  <2>5. c = x + y + z + v + w
    BY <2>1, <2>3, <2>4 DEF Count
  <2> QED
    BY <2>1, <2>2, <2>5, WorldBoundsAssumption
<1>4. reading.facts.session \in Pickers \union {NoPicker}
  BY DEF WorldReadInv, ReadTyped, WorldFactsType
<1> QED
  BY <1>1, <1>2, <1>3, <1>4 DEF WorldReadInv, ReadTyped, WorldTypeOK

-----------------------------------------------------------------------------
(***************************************************************************)
(* The review artifacts.                                                   *)
(***************************************************************************)
ReadCalls ==
  [op : {"read"}, at : {"issue", "thread", "summary", "answered", "failed"},
   got : SUBSET Artifacts, since : SUBSET Artifacts]
MarkCalls ==
  [op : {"mark"}, id : Artifacts, status : MarkStatuses, page : Nat, lost : BOOLEAN,
   at : {"lookup", "resolve", "append", "publish", "answered", "failed"}]
ReplyCalls == [op : {"reply"}, at : {"post", "answered", "failed"}, id : Artifacts]
CodexCalls == [op : {"review"}, at : {"codex", "publish", "answered", "failed"}, found : {0, 1}]

OnGitHub == Range(posted)
Marking(x) == [id |-> x.id, status |-> x.status]
\* A list that a call of read-pr-comments has read when it is about to do `at`.
HasRead(at, kind) ==
  \/ at = "answered"
  \/ at = "summary" /\ kind \in {"issue", "thread"}
  \/ at = "thread" /\ kind = "issue"

ReadInv(x) ==
  x.op = "read" =>
    /\ x \in ReadCalls /\ x.got \subseteq OnGitHub /\ x.since \subseteq OnGitHub
    /\ \A a \in x.got : KindOf[a] = "summary" => a \notin Blank
    /\ \A a \in x.since : HasRead(x.at, KindOf[a]) =>
         a \in x.got \/ a \in Blank \/ a \notin Ranked(KindOf[a], 1, ListPage)

\* A lookup has not passed the comment; what it leaves unresolved has failed.
MarkInv(x) ==
  x.op = "mark" =>
    /\ x \in MarkCalls /\ x.id \in OnGitHub
    /\ x.at \in {"lookup", "resolve"} => x.status = "Addressed" /\ KindOf[x.id] = "thread"
    /\ x.at = "lookup" =>
         \A i \in DOMAIN posted : posted[i] = x.id => RankOf(i) > x.page * ThreadPage
    /\ (x.at \in {"append", "publish", "answered"} /\ x.status = "Addressed"
        /\ KindOf[x.id] = "thread") => x.lost \/ x.id \in resolved
    /\ x.at = "publish" => Marking(x) \in Range(handled)
    /\ x.at = "answered" => Marking(x) \in Range(toldReviews)

CodexInv(c, x) ==
  x.op = "review" =>
    /\ x \in CodexCalls
    /\ x.at = "codex" => x.found = 0
    /\ x.at = "answered" /\ x.found = 1 =>
         [id |-> c, status |-> "review-received"] \in Range(toldReviews)

OtherInv(x) ==
  /\ x.op \in {"none", "read", "mark", "reply", "review"}
  /\ x.op = "reply" => x \in ReplyCalls /\ x.id \in OnGitHub
  /\ x.op = "none" => x = NoCall

CallInv(c, x) == ReadInv(x) /\ MarkInv(x) /\ CodexInv(c, x) /\ OtherInv(x)

\* A thread is resolved for a mark that is in the file, or about to be.
ResolvedInv ==
  \A a \in resolved :
    \/ [id |-> a, status |-> "Addressed"] \in Range(handled)
    \/ \E c \in Callers : /\ call[c].op = "mark" /\ call[c].id = a
                          /\ call[c].status = "Addressed" /\ call[c].at = "append"
    \/ reviewFaults > 0

ReviewInv ==
  /\ posted \in Seq(Artifacts) /\ IsInjective(posted)
  /\ resolved \subseteq {posted[i] : i \in OfKind("thread")}
  /\ replies \in Seq(Artifacts) /\ Range(replies) \subseteq OnGitHub
  /\ handled \in Seq([id : Artifacts, status : MarkStatuses])
  /\ toldReviews \in Seq([id : Artifacts, status : MarkStatuses] \union
                         [id : Callers, status : {"review-received"}])
  /\ \A m \in Range(toldReviews) : m.status # "review-received" => m \in Range(handled)
  /\ DOMAIN call = Callers /\ \A c \in Callers : CallInv(c, call[c])
  /\ ResolvedInv
  /\ reviewAsks \in 0..MaxReviewAsks /\ reviewFaults \in 0..MaxReviewFaults

LEMMA SequenceValues ==
  ASSUME NEW SS, NEW s \in Seq(SS)
  PROVE  Range(s) \subseteq SS
<1>1. \A i \in DOMAIN s : s[i] \in SS
  OBVIOUS
<1>2. ASSUME NEW x \in Range(s) PROVE x \in SS
  <2>1. PICK i \in DOMAIN s : x = s[i]
    BY <1>2 DEF Range
  <2> QED
    BY <1>1, <2>1
<1> QED
  BY <1>2

LEMMA RangeAppend ==
  ASSUME NEW S, NEW s \in Seq(S), NEW e \in S
  PROVE  /\ Append(s, e) \in Seq(S) /\ Range(Append(s, e)) = Range(s) \union {e}
         /\ DOMAIN Append(s, e) = DOMAIN s \union {Len(s) + 1} /\ DOMAIN s = 1..Len(s)
         /\ Append(s, e)[Len(s) + 1] = e /\ Len(s) \in Nat
         /\ \A i \in DOMAIN s : Append(s, e)[i] = s[i] /\ i # Len(s) + 1
<1>1. /\ Append(s, e) \in Seq(S) /\ Len(s) \in Nat /\ Len(Append(s, e)) = Len(s) + 1
      /\ DOMAIN s = 1..Len(s) /\ DOMAIN Append(s, e) = 1..(Len(s) + 1)
      /\ \A i \in 1..Len(s) : Append(s, e)[i] = s[i]
      /\ Append(s, e)[Len(s) + 1] = e
  OBVIOUS
<1>2. 1..(Len(s) + 1) = 1..Len(s) \union {Len(s) + 1} /\ Len(s) + 1 \notin 1..Len(s)
  BY <1>1
<1>3. Range(Append(s, e)) = Range(s) \union {e}
  BY <1>1, <1>2 DEF Range
<1> QED
  BY <1>1, <1>2, <1>3

LEMMA ReviewStarts == ReviewInit => ReviewInv
<1> SUFFICES ASSUME ReviewInit PROVE ReviewInv
  OBVIOUS
<1>1. /\ posted = <<>> /\ resolved = {} /\ replies = <<>> /\ handled = <<>> /\ toldReviews = <<>>
      /\ call = [c \in Callers |-> NoCall] /\ reviewAsks = 0 /\ reviewFaults = 0
  BY DEF ReviewInit
<1>2. /\ <<>> \in Seq(Artifacts) /\ <<>> \in Seq([id : Artifacts, status : MarkStatuses])
      /\ <<>> \in Seq([id : Artifacts, status : MarkStatuses] \union
                      [id : Callers, status : {"review-received"}])
      /\ DOMAIN <<>> = {}
  OBVIOUS
<1>3. Range(toldReviews) = {} /\ Range(replies) = {} /\ IsInjective(posted)
  BY <1>1, <1>2 DEF Range, IsInjective
<1>4. \A c \in Callers : CallInv(c, call[c])
  BY <1>1 DEF CallInv, ReadInv, MarkInv, CodexInv, OtherInv, NoCall
<1> QED
  BY <1>1, <1>2, <1>3, <1>4, ReviewBoundsAssumption DEF ReviewInv, ResolvedInv

LEMMA ReviewInvImplies == ReviewInv => ReviewTypeOK /\ ReadIsCurrent /\ MarksAreKept
<1> SUFFICES ASSUME ReviewInv PROVE ReviewTypeOK /\ ReadIsCurrent /\ MarksAreKept
  OBVIOUS
<1>1. ReviewTypeOK
  <2>0. handled \in Seq([id : Artifacts, status : MarkStatuses])
    BY DEF ReviewInv
  <2>2. Range(handled) \subseteq [id : Artifacts, status : MarkStatuses]
    BY <2>0, SequenceValues
  <2>3. reviewAsks <= MaxReviewAsks /\ reviewFaults <= MaxReviewFaults
    BY ReviewBoundsAssumption DEF ReviewInv
  <2> QED
    BY <2>2, <2>3 DEF ReviewInv, ReviewTypeOK, OnGitHub
<1>2. ReadIsCurrent
  BY DEF ReviewInv, ReadIsCurrent, CallInv, ReadInv, HasRead, OnGitHub
<1>3. \A c \in Callers : call[c].op = "mark" /\ call[c].at = "answered" =>
        /\ Mark(c) \in Range(toldReviews)
        /\ call[c].status = "Addressed" /\ KindOf[call[c].id] = "thread" =>
             call[c].lost \/ call[c].id \in resolved
  BY DEF ReviewInv, CallInv, MarkInv, Mark, Marking
<1>4. \A a \in resolved :
       \/ [id |-> a, status |-> "Addressed"] \in Range(handled)
       \/ \E c \in Callers : call[c].op = "mark" /\ call[c].id = a /\ ~CallOver(c)
       \/ reviewFaults > 0
  <2> SUFFICES ASSUME NEW a \in resolved,
                      ~([id |-> a, status |-> "Addressed"] \in Range(handled)),
                      ~(reviewFaults > 0)
               PROVE  \E c \in Callers : call[c].op = "mark" /\ call[c].id = a /\ ~CallOver(c)
    OBVIOUS
  <2>1. ResolvedInv
    BY DEF ReviewInv
  <2>2. PICK c \in Callers : call[c].op = "mark" /\ call[c].id = a /\ call[c].at = "append"
    BY <2>1 DEF ResolvedInv
  <2>3. ~CallOver(c)
    BY <2>2 DEF CallOver
  <2> QED BY <2>2, <2>3
<1>5. \A c \in Callers : call[c].op = "review" /\ call[c].at = "answered" /\ call[c].found = 1 =>
        [id |-> c, status |-> "review-received"] \in Range(toldReviews)
  BY DEF ReviewInv, CallInv, CodexInv
<1> QED
  BY <1>1, <1>2, <1>3, <1>4, <1>5 DEF MarksAreKept, ReviewInv

\* What is posted later changes nothing about the places of what is there.
LEMMA RanksStay ==
  ASSUME posted \in Seq(Artifacts), NEW a \in Artifacts \ OnGitHub, posted' = Append(posted, a)
  PROVE  /\ posted' \in Seq(Artifacts) /\ OnGitHub' = OnGitHub \union {a}
         /\ (IsInjective(posted) => IsInjective(posted'))
         /\ \A i \in DOMAIN posted : RankOf(i)' = RankOf(i) /\ posted'[i] = posted[i]
         /\ DOMAIN posted \subseteq DOMAIN posted'
         /\ \A i \in DOMAIN posted', b \in OnGitHub : posted'[i] = b => i \in DOMAIN posted
         /\ \A k, n : Ranked(k, 1, n)' \intersect OnGitHub \subseteq Ranked(k, 1, n)
<1>1. PICK n : n = Len(posted) + 1
  OBVIOUS
<1>2. /\ posted' \in Seq(Artifacts) /\ Range(posted') = Range(posted) \union {a}
      /\ DOMAIN posted' = DOMAIN posted \union {n} /\ DOMAIN posted = 1..Len(posted)
      /\ posted'[n] = a /\ Len(posted) \in Nat
      /\ \A i \in DOMAIN posted : posted'[i] = posted[i] /\ i # n
  BY <1>1, RangeAppend
<1>3. \A i \in DOMAIN posted : i \in Nat /\ i < n
  BY <1>1, <1>2
<1>4. ASSUME NEW i \in DOMAIN posted PROVE RankOf(i)' = RankOf(i)
  <2>1. {j \in OfKind(KindOf[posted[i]]) : j <= i}' = {j \in OfKind(KindOf[posted[i]]) : j <= i}
    BY <1>2, <1>3, n \in Nat DEF OfKind
  <2> QED
    BY <2>1 DEF RankOf
<1>5. ASSUME NEW i \in DOMAIN posted', NEW b \in OnGitHub, posted'[i] = b PROVE i \in DOMAIN posted
  BY <1>2, <1>5
<1>6. ASSUME NEW k, NEW m PROVE Ranked(k, 1, m)' \intersect OnGitHub \subseteq Ranked(k, 1, m)
  <2> SUFFICES ASSUME NEW b \in OnGitHub, b \in Ranked(k, 1, m)' PROVE b \in Ranked(k, 1, m)
    OBVIOUS
  <2>1. PICK i \in OfKind(k)' : posted'[i] = b /\ RankOf(i)' \in 1..m
    BY DEF Ranked
  <2>2. i \in DOMAIN posted
    BY <1>5, <2>1 DEF OfKind
  <2>3. i \in OfKind(k) /\ posted[i] = b /\ RankOf(i) \in 1..m
    BY <1>2, <1>4, <2>1, <2>2 DEF OfKind
  <2> QED
    BY <2>3 DEF Ranked
<1>7. IsInjective(posted) => IsInjective(posted')
  <2> SUFFICES ASSUME IsInjective(posted), NEW i \in DOMAIN posted', NEW j \in DOMAIN posted',
                      posted'[i] = posted'[j]
               PROVE  i = j
    BY DEF IsInjective
  <2>1. \A p \in DOMAIN posted : posted'[p] # a
    BY <1>2 DEF OnGitHub, Range
  <2> QED
    BY <1>2, <2>1 DEF IsInjective
<1> QED
  BY <1>2, <1>4, <1>5, <1>6, <1>7 DEF OnGitHub

LEMMA ThreadRanks ==
  ASSUME posted \in Seq(Artifacts), NEW k, NEW i \in OfKind(k)
  PROVE  RankOf(i) \in Nat /\ Cardinality(OfKind(k)) \in Nat /\ RankOf(i) <= Cardinality(OfKind(k))
<1>1. DOMAIN posted = 1..Len(posted) /\ Len(posted) \in Nat
  OBVIOUS
<1>2. IsFiniteSet(DOMAIN posted)
  BY <1>1, FS_Interval
<1>3. OfKind(k) \subseteq DOMAIN posted
  BY DEF OfKind
<1>4. IsFiniteSet(OfKind(k))
  BY <1>2, <1>3, FS_Subset
<1>5. PICK T : T = {j \in OfKind(k) : j <= i}
  OBVIOUS
<1>6. T \subseteq OfKind(k) /\ RankOf(i) = Cardinality(T)
  BY <1>5 DEF OfKind, RankOf
<1>7. IsFiniteSet(T) /\ Cardinality(T) <= Cardinality(OfKind(k))
  BY <1>4, <1>6, FS_Subset
<1> QED
  BY <1>4, <1>6, <1>7, FS_CardinalityType

LEMMA PostKept == ASSUME ReviewInv, PostArtifact PROVE ReviewInv'
<1>1. PICK a \in Artifacts \ OnGitHub : posted' = Append(posted, a)
  BY DEF PostArtifact, OnGitHub
<1>2. UNCHANGED <<resolved, replies, handled, toldReviews, call, reviewAsks, reviewFaults>>
  BY DEF PostArtifact
<1>3. posted \in Seq(Artifacts) /\ IsInjective(posted)
  BY DEF ReviewInv
<1>4. /\ posted' \in Seq(Artifacts) /\ OnGitHub' = OnGitHub \union {a}
      /\ IsInjective(posted')
      /\ \A i \in DOMAIN posted : RankOf(i)' = RankOf(i) /\ posted'[i] = posted[i]
      /\ DOMAIN posted \subseteq DOMAIN posted'
      /\ \A i \in DOMAIN posted', b \in OnGitHub : posted'[i] = b => i \in DOMAIN posted
      /\ \A k, n : Ranked(k, 1, n)' \intersect OnGitHub \subseteq Ranked(k, 1, n)
  BY <1>1, <1>3, RanksStay
<1>5. resolved' \subseteq {posted[i] : i \in OfKind("thread")}'
  <2> SUFFICES ASSUME NEW b \in resolved PROVE \E i \in OfKind("thread")' : posted'[i] = b
    BY <1>2
  <2>1. PICK i \in OfKind("thread") : posted[i] = b
    BY DEF ReviewInv
  <2> QED
    BY <1>4, <2>1 DEF OfKind
<1>6. ASSUME NEW c \in Callers, NEW x, CallInv(c, x) PROVE CallInv(c, x)'
  <2>1. ReadInv(x)'
    <3> SUFFICES ASSUME x.op = "read" PROVE ReadInv(x)'
      BY DEF ReadInv
    <3>1. /\ x \in ReadCalls /\ x.got \subseteq OnGitHub /\ x.since \subseteq OnGitHub
          /\ \A b \in x.got : KindOf[b] = "summary" => b \notin Blank
          /\ \A b \in x.since : HasRead(x.at, KindOf[b]) =>
               b \in x.got \/ b \in Blank \/ b \notin Ranked(KindOf[b], 1, ListPage)
      BY <1>6 DEF CallInv, ReadInv
    <3>2. \A b \in x.since : HasRead(x.at, KindOf[b]) =>
            b \in x.got \/ b \in Blank \/ b \notin Ranked(KindOf[b], 1, ListPage)'
      BY <1>4, <3>1
    <3> QED
      BY <1>4, <3>1, <3>2 DEF ReadInv
  <2>2. MarkInv(x)'
    <3> SUFFICES ASSUME x.op = "mark" PROVE MarkInv(x)'
      BY DEF MarkInv
    <3>1. MarkInv(x)
      BY <1>6 DEF CallInv
    <3>2. x.at = "lookup" =>
            \A i \in DOMAIN posted' : posted'[i] = x.id => RankOf(i)' > x.page * ThreadPage
      <4> SUFFICES ASSUME x.at = "lookup", NEW i \in DOMAIN posted', posted'[i] = x.id
                   PROVE  RankOf(i)' > x.page * ThreadPage
        OBVIOUS
      <4>1. x.id \in OnGitHub
        BY <3>1 DEF MarkInv
      <4>2. i \in DOMAIN posted /\ posted[i] = x.id /\ RankOf(i)' = RankOf(i)
        BY <1>4, <4>1
      <4> QED
        BY <3>1, <4>2 DEF MarkInv
    <3> QED
      BY <1>2, <1>4, <3>1, <3>2 DEF MarkInv
  <2>3. CodexInv(c, x)' /\ OtherInv(x)'
    BY <1>2, <1>4, <1>6 DEF CallInv, CodexInv, OtherInv
  <2> QED
    BY <2>1, <2>2, <2>3 DEF CallInv
<1>7. \A c \in Callers : CallInv(c, call[c])'
  <2> SUFFICES ASSUME NEW c \in Callers PROVE CallInv(c, call[c])'
    OBVIOUS
  <2>1. PICK x : x = call[c]
    OBVIOUS
  <2>2. CallInv(c, x)'
    BY <1>6, <2>1 DEF ReviewInv
  <2> QED
    BY <1>2, <2>1, <2>2
<1>8. ResolvedInv'
  <2>1. ResolvedInv
    BY DEF ReviewInv
  <2> QED
    BY <1>2, <2>1 DEF ResolvedInv
<1>9. Range(replies') \subseteq OnGitHub'
  BY <1>2, <1>4 DEF ReviewInv
<1> QED
  BY <1>2, <1>4, <1>5, <1>7, <1>8, <1>9 DEF ReviewInv

\* What is resolved, written and told only grows, and a call keeps what it has.
LEMMA CallGrows ==
  ASSUME NEW c, NEW x, UNCHANGED posted, resolved \subseteq resolved',
         Range(handled) \subseteq Range(handled'), Range(toldReviews) \subseteq Range(toldReviews'),
         CallInv(c, x)
  PROVE  CallInv(c, x)'
<1>1. /\ OnGitHub' = OnGitHub /\ \A k, n : Ranked(k, 1, n)' = Ranked(k, 1, n)
      /\ \A i : RankOf(i)' = RankOf(i)
  BY DEF OnGitHub, Ranked, RankOf, OfKind
<1>2. ReadInv(x)'
  BY <1>1 DEF CallInv, ReadInv
<1>3. MarkInv(x)'
  BY <1>1 DEF CallInv, MarkInv
<1>4. CodexInv(c, x)' /\ OtherInv(x)'
  BY <1>1 DEF CallInv, CodexInv, OtherInv
<1> QED
  BY <1>2, <1>3, <1>4 DEF CallInv

\* A step of one call, which takes the record x.
LEMMA CallMoves ==
  ASSUME ReviewInv, NEW c \in Callers, NEW x, call' = [call EXCEPT ![c] = x], CallInv(c, x)',
         UNCHANGED posted, resolved \subseteq resolved',
         resolved' \subseteq {posted[i] : i \in OfKind("thread")},
         Range(handled) \subseteq Range(handled'), Range(toldReviews) \subseteq Range(toldReviews'),
         handled' \in Seq([id : Artifacts, status : MarkStatuses]),
         toldReviews' \in Seq([id : Artifacts, status : MarkStatuses] \union
                               [id : Callers, status : {"review-received"}]),
         \A m \in Range(toldReviews') : m.status # "review-received" => m \in Range(handled'),
         replies' \in Seq(Artifacts), Range(replies') \subseteq OnGitHub,
         reviewAsks' \in 0..MaxReviewAsks, reviewFaults' \in 0..MaxReviewFaults,
         \A a \in resolved' : a \in resolved
            \/ (x.op = "mark" /\ x.id = a /\ x.status = "Addressed" /\ x.at = "append"),
         reviewFaults <= reviewFaults',
         (call[c].op = "mark" /\ call[c].at = "append") =>
            Marking(call[c]) \in Range(handled') \/ reviewFaults' > 0
  PROVE  ReviewInv'
<1>1. /\ DOMAIN call' = Callers /\ call'[c] = x
      /\ \A d \in Callers : d # c => call'[d] = call[d]
  BY DEF ReviewInv
<1>2. ASSUME NEW d \in Callers PROVE CallInv(d, call[d])'
  <2>1. CASE d = c
    BY <1>1, <2>1
  <2>2. CASE d # c
    <3>1. PICK y : y = call[d]
      OBVIOUS
    <3>2. CallInv(d, y)'
      BY <3>1, CallGrows DEF ReviewInv
    <3> QED
      BY <1>1, <2>2, <3>1, <3>2
  <2> QED
    BY <2>1, <2>2
<1>3. ResolvedInv'
  <2> SUFFICES ASSUME NEW a \in resolved', reviewFaults' = 0
               PROVE  \/ [id |-> a, status |-> "Addressed"] \in Range(handled')
                      \/ \E d \in Callers : /\ call'[d].op = "mark" /\ call'[d].id = a
                                            /\ call'[d].status = "Addressed"
                                            /\ call'[d].at = "append"
    <3>1. reviewFaults' = 0 \/ reviewFaults' > 0
      BY ReviewBoundsAssumption
    <3> QED
      BY <3>1 DEF ResolvedInv
  <2>0. reviewFaults = 0
    BY ReviewBoundsAssumption DEF ReviewInv
  <2>1. CASE a \in resolved
    <3>1. \/ [id |-> a, status |-> "Addressed"] \in Range(handled)
          \/ \E d \in Callers : /\ call[d].op = "mark" /\ call[d].id = a
                                /\ call[d].status = "Addressed" /\ call[d].at = "append"
      <4>1. ResolvedInv
        BY DEF ReviewInv
      <4> QED
        BY <2>0, <2>1, <4>1 DEF ResolvedInv
    <3>2. ASSUME NEW d \in Callers, call[d].op = "mark", call[d].id = a,
                 call[d].status = "Addressed", call[d].at = "append", d = c
          PROVE  [id |-> a, status |-> "Addressed"] \in Range(handled')
      BY <3>2 DEF Marking
    <3> QED
      BY <1>1, <3>1, <3>2
  <2>2. CASE a \notin resolved
    BY <1>1, <2>2
  <2> QED
    BY <2>1, <2>2
<1>4. OnGitHub' = OnGitHub /\ {posted[i] : i \in OfKind("thread")}' = {posted[i] : i \in OfKind("thread")}
  BY DEF OnGitHub, OfKind
<1> QED
  BY <1>1, <1>2, <1>3, <1>4 DEF ReviewInv

\* The rest of the state stays, but for a command that may have failed.
LEMMA CallMovesAlone ==
  ASSUME ReviewInv, NEW c \in Callers, NEW x, call' = [call EXCEPT ![c] = x], CallInv(c, x)',
         UNCHANGED <<posted, resolved, replies, handled, toldReviews>>,
         reviewAsks' \in 0..MaxReviewAsks, reviewFaults' \in 0..MaxReviewFaults,
         reviewFaults <= reviewFaults',
         ~(call[c].op = "mark" /\ call[c].at = "append") \/ reviewFaults' > 0
  PROVE  ReviewInv'
<1>1. /\ handled \in Seq([id : Artifacts, status : MarkStatuses])
      /\ toldReviews \in Seq([id : Artifacts, status : MarkStatuses] \union
                              [id : Callers, status : {"review-received"}])
      /\ \A m \in Range(toldReviews) : m.status # "review-received" => m \in Range(handled)
      /\ replies \in Seq(Artifacts) /\ Range(replies) \subseteq OnGitHub
      /\ resolved \subseteq {posted[i] : i \in OfKind("thread")}
  BY DEF ReviewInv
<1>2. /\ UNCHANGED posted /\ resolved \subseteq resolved' /\ \A a \in resolved' : a \in resolved
      /\ Range(handled) \subseteq Range(handled') /\ Range(toldReviews) \subseteq Range(toldReviews')
      /\ resolved' \subseteq {posted[i] : i \in OfKind("thread")}
      /\ handled' \in Seq([id : Artifacts, status : MarkStatuses])
      /\ toldReviews' \in Seq([id : Artifacts, status : MarkStatuses] \union
                              [id : Callers, status : {"review-received"}])
      /\ \A m \in Range(toldReviews') : m.status # "review-received" => m \in Range(handled')
      /\ replies' \in Seq(Artifacts) /\ Range(replies') \subseteq OnGitHub
  BY <1>1
<1> QED
  BY <1>2, CallMoves

\* A command breaks, or not.
LEMMA CommandFaults ==
  ASSUME ReviewInv
  PROVE  /\ Mended => reviewFaults' \in 0..MaxReviewFaults /\ reviewFaults <= reviewFaults'
         /\ Breaks => /\ reviewFaults' \in 0..MaxReviewFaults /\ reviewFaults <= reviewFaults'
                      /\ reviewFaults' > 0
         /\ Unasked => reviewAsks' \in 0..MaxReviewAsks
BY ReviewBoundsAssumption DEF ReviewInv, Mended, Breaks, Unasked

\* What the record of a call is.
LEMMA CallShapes ==
  ASSUME ReviewInv, NEW c \in Callers
  PROVE  /\ CallInv(c, call[c]) /\ call[c].op \in {"none", "read", "mark", "reply", "review"}
         /\ call[c].op = "read" => call[c] \in ReadCalls
         /\ call[c].op = "mark" => call[c] \in MarkCalls
         /\ call[c].op = "reply" => call[c] \in ReplyCalls
         /\ call[c].op = "review" => call[c] \in CodexCalls
         /\ call[c].op = "none" => call[c] = NoCall
BY DEF ReviewInv, CallInv, ReadInv, MarkInv, CodexInv, OtherInv

\* A call that a command fails ends, with nothing said.
LEMMA OffKept ==
  ASSUME ReviewInv, NEW c \in Callers, Off(c), call[c].at # "idle", Unasked,
         UNCHANGED <<posted, resolved, replies, handled, toldReviews>>
  PROVE  ReviewInv'
<1>1. PICK y : y = call[c]
  OBVIOUS
<1>2. PICK x : x = [y EXCEPT !.at = "failed"]
  OBVIOUS
<1>3. call' = [call EXCEPT ![c] = x] /\ Breaks
  BY <1>1, <1>2 DEF Off, Advance
<1>4. /\ CallInv(c, y) /\ y.op \in {"read", "mark", "reply", "review"}
      /\ y.op = "read" => y \in ReadCalls
      /\ y.op = "mark" => y \in MarkCalls
      /\ y.op = "reply" => y \in ReplyCalls
      /\ y.op = "review" => y \in CodexCalls
  BY <1>1, CallShapes DEF NoCall
<1>5. CallInv(c, x)
  <2>1. CASE y.op = "read"
    <3>1. x \in ReadCalls /\ x.op = "read" /\ x.at = "failed" /\ x.got = y.got /\ x.since = y.since
      BY <1>2, <1>4, <2>1 DEF ReadCalls
    <3> QED
      BY <1>4, <2>1, <3>1 DEF CallInv, ReadInv, MarkInv, CodexInv, OtherInv, HasRead
  <2>2. CASE y.op = "mark"
    <3>1. x \in MarkCalls /\ x.op = "mark" /\ x.at = "failed" /\ x.id = y.id
      BY <1>2, <1>4, <2>2 DEF MarkCalls
    <3> QED
      BY <1>4, <2>2, <3>1 DEF CallInv, ReadInv, MarkInv, CodexInv, OtherInv
  <2>3. CASE y.op = "reply"
    <3>1. x \in ReplyCalls /\ x.op = "reply" /\ x.id = y.id
      BY <1>2, <1>4, <2>3 DEF ReplyCalls
    <3> QED
      BY <1>4, <2>3, <3>1 DEF CallInv, ReadInv, MarkInv, CodexInv, OtherInv
  <2>4. CASE y.op = "review"
    <3>1. x \in CodexCalls /\ x.op = "review" /\ x.at = "failed"
      BY <1>2, <1>4, <2>4 DEF CodexCalls
    <3> QED
      BY <1>4, <2>4, <3>1 DEF CallInv, ReadInv, MarkInv, CodexInv, OtherInv
  <2> QED
    BY <1>4, <2>1, <2>2, <2>3, <2>4
<1>6. CallInv(c, x)'
  BY <1>5, CallGrows
<1> QED
  BY <1>3, <1>6, CommandFaults, CallMovesAlone

LEMMA AskKept == ASSUME ReviewInv, NEW c \in Callers, AskReview(c) PROVE ReviewInv'
<1>1. /\ CallOver(c) /\ reviewAsks' \in 0..MaxReviewAsks /\ Mended
      /\ UNCHANGED <<posted, resolved, replies, handled, toldReviews>>
  BY ReviewBoundsAssumption DEF AskReview, ReviewInv, Mended
<1>2. OnGitHub \subseteq Artifacts
  <2>1. posted \in Seq(Artifacts)
    BY DEF ReviewInv
  <2> QED
    BY <2>1 DEF OnGitHub, Range
<1>3. ASSUME NEW x, CallInv(c, x), Becomes(c, x) PROVE ReviewInv'
  <2>1. CallInv(c, x)'
    BY <1>1, <1>3, CallGrows
  <2>2. call' = [call EXCEPT ![c] = x] /\ call[c].at # "append"
    BY <1>1, <1>3 DEF Becomes, CallOver
  <2> QED
    BY <1>1, <2>1, <2>2, CommandFaults, CallMovesAlone
<1>4. CASE Becomes(c, [op |-> "read", at |-> "issue", got |-> {}, since |-> Range(posted)])
  <2>1. PICK x : x = [op |-> "read", at |-> "issue", got |-> {}, since |-> Range(posted)]
    OBVIOUS
  <2>2. /\ x \in ReadCalls /\ x.op = "read" /\ x.got = {} /\ x.since = OnGitHub /\ x.at = "issue"
    BY <1>2, <2>1 DEF ReadCalls, OnGitHub
  <2>3. CallInv(c, x)
    BY <2>2 DEF CallInv, ReadInv, MarkInv, CodexInv, OtherInv, HasRead
  <2> QED
    BY <1>3, <1>4, <2>1, <2>3
<1>5. ASSUME NEW a \in Range(posted), NEW s \in MarkStatuses,
             Becomes(c, [op |-> "mark", id |-> a, status |-> s, page |-> 0, lost |-> FALSE,
                at |-> IF s = "Addressed" /\ KindOf[a] = "thread" THEN "lookup" ELSE "append"])
      PROVE  ReviewInv'
  <2>1. PICK at : at = IF s = "Addressed" /\ KindOf[a] = "thread" THEN "lookup" ELSE "append"
    OBVIOUS
  <2>2. PICK x : x = [op |-> "mark", id |-> a, status |-> s, page |-> 0, lost |-> FALSE, at |-> at]
    OBVIOUS
  <2>3. /\ x \in MarkCalls /\ x.op = "mark" /\ x.id = a /\ a \in OnGitHub /\ x.page = 0
        /\ x.status = s /\ x.at = at /\ at \in {"lookup", "append"}
    BY <1>2, <2>1, <2>2 DEF MarkCalls, OnGitHub
  <2>4. \A i \in DOMAIN posted : RankOf(i) > 0 * ThreadPage
    <3>1. ASSUME NEW i \in DOMAIN posted PROVE RankOf(i) > 0
      <4>0. posted \in Seq(Artifacts)
        BY DEF ReviewInv
      <4>1. DOMAIN posted = 1..Len(posted) /\ Len(posted) \in Nat /\ i <= i
        BY <4>0
      <4>2. PICK T : T = {j \in OfKind(KindOf[posted[i]]) : j <= i}
        OBVIOUS
      <4>3. T \subseteq DOMAIN posted /\ i \in T /\ RankOf(i) = Cardinality(T)
        BY <4>1, <4>2 DEF OfKind, RankOf
      <4>4. IsFiniteSet(T)
        <5>1. IsFiniteSet(DOMAIN posted)
          BY <4>1, FS_Interval
        <5> QED
          BY <4>3, <5>1, FS_Subset
      <4>5. Cardinality(T) \in Nat /\ Cardinality(T) # 0
        BY <4>3, <4>4, FS_CardinalityType, FS_EmptySet
      <4> QED
        BY <4>3, <4>5
    <3>2. 0 * ThreadPage = 0
      BY PagesAssumption
    <3> QED
      BY <3>1, <3>2
  <2>5. CallInv(c, x)
    BY <2>1, <2>3, <2>4 DEF CallInv, ReadInv, MarkInv, CodexInv, OtherInv
  <2> QED
    BY <1>3, <1>5, <2>1, <2>2, <2>5
<1>6. ASSUME NEW a \in Range(posted), Becomes(c, [op |-> "reply", at |-> "post", id |-> a])
      PROVE  ReviewInv'
  <2>1. PICK x : x = [op |-> "reply", at |-> "post", id |-> a]
    OBVIOUS
  <2>2. x \in ReplyCalls /\ x.op = "reply" /\ x.id \in OnGitHub
    BY <1>2, <2>1 DEF ReplyCalls, OnGitHub
  <2>3. CallInv(c, x)
    BY <2>2 DEF CallInv, ReadInv, MarkInv, CodexInv, OtherInv
  <2> QED
    BY <1>3, <1>6, <2>1, <2>3
<1>7. CASE Becomes(c, [op |-> "review", at |-> "codex", found |-> 0])
  <2>1. PICK x : x = [op |-> "review", at |-> "codex", found |-> 0]
    OBVIOUS
  <2>2. x \in CodexCalls /\ x.op = "review" /\ x.at = "codex" /\ x.found = 0
    BY <2>1 DEF CodexCalls
  <2>3. CallInv(c, x)
    BY <2>2 DEF CallInv, ReadInv, MarkInv, CodexInv, OtherInv
  <2> QED
    BY <1>3, <1>7, <2>1, <2>3
<1> QED
  BY <1>4, <1>5, <1>6, <1>7 DEF AskReview

LEMMA ReadListKept == ASSUME ReviewInv, NEW c \in Callers, ReadList(c) PROVE ReviewInv'
<1>1. PICK y : y = call[c]
  OBVIOUS
<1>2. /\ y.op = "read" /\ y \in ReadCalls /\ CallInv(c, y) /\ y.at \in {"issue", "thread", "summary"}
      /\ UNCHANGED <<posted, resolved, replies, handled, toldReviews>> /\ Unasked
  <2>1. Range(Kinds) = {"issue", "thread", "summary"}
    BY DEF Range, Kinds
  <2> QED
    BY <1>1, <2>1, CallShapes DEF ReadList
<1>3. CASE Off(c)
  BY <1>1, <1>2, <1>3, OffKept
<1>4. CASE ~Off(c)
  <2>1. PICK at : at = CASE y.at = "issue" -> "thread" [] y.at = "thread" -> "summary"
                         [] OTHER -> "answered"
    OBVIOUS
  <2>2. PICK got : got = y.got \union Listed(y.at)
    OBVIOUS
  <2>3. PICK x : x = [y EXCEPT !.got = got, !.at = at]
    OBVIOUS
  <2>4. call' = [call EXCEPT ![c] = x] /\ Mended
    BY <1>1, <1>4, <2>1, <2>2, <2>3 DEF ReadList
  <2>5. at \in {"thread", "summary", "answered"}
    BY <1>2, <2>1
  <2>6. Listed(y.at) \subseteq OnGitHub /\ OnGitHub \subseteq Artifacts
    <3>1. posted \in Seq(Artifacts)
      BY DEF ReviewInv
    <3> QED
      BY <3>1, SequenceValues DEF Listed, Ranked, OfKind, OnGitHub, Range
  <2>7. /\ x \in ReadCalls /\ x.op = "read" /\ x.at = at /\ x.got = got /\ x.since = y.since
    BY <1>2, <2>2, <2>3, <2>5, <2>6 DEF ReadCalls
  <2>8. \A a \in Listed(y.at) : KindOf[a] = y.at /\ (KindOf[a] = "summary" => a \notin Blank)
    BY DEF Listed, Ranked, OfKind
  <2>9. ASSUME NEW a \in x.since, HasRead(at, KindOf[a])
        PROVE  a \in got \/ a \in Blank \/ a \notin Ranked(KindOf[a], 1, ListPage)
    <3>1. KindOf[a] \in {"issue", "thread", "summary"}
      <4>1. Range(Kinds) = {"issue", "thread", "summary"}
        BY DEF Range, Kinds
      <4>2. a \in Artifacts
        BY <2>7, <2>9 DEF ReadCalls
      <4> QED
        BY <4>1, <4>2, ArtifactsAssumption
    <3>2. KindOf[a] = y.at \/ HasRead(y.at, KindOf[a])
      BY <1>2, <2>1, <2>9, <3>1 DEF HasRead
    <3>3. CASE KindOf[a] = y.at
      BY <2>2, <3>3 DEF Listed
    <3>4. CASE HasRead(y.at, KindOf[a])
      BY <1>2, <2>2, <2>7, <2>9, <3>4 DEF CallInv, ReadInv
    <3> QED
      BY <3>2, <3>3, <3>4
  <2>10. ReadInv(x)
    BY <1>2, <2>2, <2>6, <2>7, <2>8, <2>9 DEF CallInv, ReadInv
  <2>11. CallInv(c, x)
    BY <2>7, <2>10 DEF CallInv, MarkInv, CodexInv, OtherInv
  <2>12. CallInv(c, x)'
    BY <1>2, <2>11, CallGrows
  <2> QED
    BY <1>1, <1>2, <2>4, <2>12, CommandFaults, CallMovesAlone
<1> QED
  BY <1>3, <1>4

LEMMA LookUpKept == ASSUME ReviewInv, NEW c \in Callers, LookUp(c) PROVE ReviewInv'
<1>1. PICK y : y = call[c]
  OBVIOUS
<1>2. /\ y.op = "mark" /\ y \in MarkCalls /\ CallInv(c, y) /\ y.at = "lookup"
      /\ UNCHANGED <<posted, resolved, replies, handled, toldReviews>> /\ Unasked
  <2>1. call[c].op = "mark"
    BY CallShapes DEF LookUp, ReadCalls, ReplyCalls, CodexCalls, NoCall
  <2> QED
    BY <1>1, <2>1, CallShapes DEF LookUp
<1>3. /\ y.status = "Addressed" /\ KindOf[y.id] = "thread" /\ y.id \in OnGitHub /\ y.page \in Nat
      /\ \A i \in DOMAIN posted : posted[i] = y.id => RankOf(i) > y.page * ThreadPage
  BY <1>2 DEF CallInv, MarkInv, MarkCalls
<1>4. ASSUME NEW x, x \in MarkCalls, x.id = y.id, x.status = y.status, call' = [call EXCEPT ![c] = x],
             Mended \/ Breaks,
             \/ x.at = "resolve"
             \/ x.at = "append" /\ x.lost
             \/ x.at = "lookup" /\
                  \A i \in DOMAIN posted : posted[i] = x.id => RankOf(i) > x.page * ThreadPage
      PROVE  ReviewInv'
  <2>1. x.op = "mark" /\ MarkInv(x)
    BY <1>3, <1>4 DEF MarkInv, MarkCalls
  <2>2. CallInv(c, x)
    BY <2>1 DEF CallInv, ReadInv, CodexInv, OtherInv
  <2>3. CallInv(c, x)'
    BY <1>2, <2>2, CallGrows
  <2> QED
    BY <1>1, <1>2, <1>4, <2>3, CommandFaults, CallMovesAlone
<1>5. PICK from : from = y.page * ThreadPage
  OBVIOUS
<1>6. from \in Nat /\ ThreadPage \in Nat \ {0} /\ (y.page + 1) * ThreadPage = from + ThreadPage
      /\ y.page + 1 \in Nat
  BY <1>3, <1>5, PagesAssumption
<1>7. PICK i \in DOMAIN posted : posted[i] = y.id
  BY <1>3 DEF OnGitHub, Range
<1>8. /\ i \in OfKind("thread") /\ RankOf(i) \in Nat /\ Cardinality(OfKind("thread")) \in Nat
      /\ RankOf(i) <= Cardinality(OfKind("thread")) /\ RankOf(i) > from
  <2>1. posted \in Seq(Artifacts)
    BY DEF ReviewInv
  <2>2. i \in OfKind("thread")
    BY <1>3, <1>7 DEF OfKind
  <2> QED
    BY <1>3, <1>5, <1>7, <2>1, <2>2, ThreadRanks
<1>9. CASE Advance(c, "resolve") /\ Mended
  <2>1. PICK x : x = [y EXCEPT !.at = "resolve"]
    OBVIOUS
  <2>2. x \in MarkCalls /\ x.at = "resolve" /\ x.id = y.id /\ x.status = y.status
    BY <1>2, <2>1 DEF MarkCalls
  <2>3. call' = [call EXCEPT ![c] = x]
    BY <1>1, <1>9, <2>1 DEF Advance
  <2> QED
    BY <1>4, <1>9, <2>2, <2>3
<1>10. CASE Breaks /\ call' = [call EXCEPT ![c].at = "append", ![c].lost = TRUE]
  <2>1. PICK x : x = [y EXCEPT !.at = "append", !.lost = TRUE]
    OBVIOUS
  <2>2. x \in MarkCalls /\ x.at = "append" /\ x.lost /\ x.id = y.id /\ x.status = y.status
    BY <1>2, <2>1 DEF MarkCalls
  <2>3. call' = [call EXCEPT ![c] = x]
    BY <1>1, <1>10, <2>1
  <2> QED
    BY <1>4, <1>10, <2>2, <2>3
<1>11. CASE /\ y.id \notin Ranked("thread", from + 1, from + ThreadPage) /\ Mended
            /\ IF HasNext(y.page) THEN call' = [call EXCEPT ![c].page = y.page + 1]
               ELSE Advance(c, "append")
  <2>1. RankOf(i) > from + ThreadPage
    <3>1. RankOf(i) \notin (from + 1)..(from + ThreadPage)
      BY <1>7, <1>8, <1>11 DEF Ranked
    <3> QED
      BY <1>6, <1>8, <3>1
  <2>2. HasNext(y.page)
    BY <1>6, <1>8, <2>1 DEF HasNext
  <2>3. PICK x : x = [y EXCEPT !.page = y.page + 1]
    OBVIOUS
  <2>4. x \in MarkCalls /\ x.at = "lookup" /\ x.id = y.id /\ x.status = y.status /\ x.page = y.page + 1
    BY <1>2, <1>6, <2>3 DEF MarkCalls
  <2>5. call' = [call EXCEPT ![c] = x]
    BY <1>1, <1>11, <2>2, <2>3
  <2>6. \A j \in DOMAIN posted : posted[j] = x.id => RankOf(j) > x.page * ThreadPage
    <3>1. IsInjective(posted)
      BY DEF ReviewInv
    <3>2. \A j \in DOMAIN posted : posted[j] = x.id => j = i
      BY <1>7, <2>4, <3>1 DEF IsInjective
    <3> QED
      BY <1>6, <2>1, <2>4, <3>2
  <2> QED
    BY <1>4, <1>11, <2>4, <2>5, <2>6
<1>12. \/ Advance(c, "resolve") /\ Mended
       \/ Breaks /\ call' = [call EXCEPT ![c].at = "append", ![c].lost = TRUE]
       \/ /\ y.id \notin Ranked("thread", from + 1, from + ThreadPage) /\ Mended
          /\ IF HasNext(y.page) THEN call' = [call EXCEPT ![c].page = y.page + 1]
             ELSE Advance(c, "append")
  BY <1>1, <1>5 DEF LookUp
<1> QED
  BY <1>9, <1>10, <1>11, <1>12

LEMMA ResolveKept == ASSUME ReviewInv, NEW c \in Callers, ResolveThread(c) PROVE ReviewInv'
<1>1. PICK y : y = call[c]
  OBVIOUS
<1>2. /\ y.op = "mark" /\ y \in MarkCalls /\ CallInv(c, y) /\ y.at = "resolve"
      /\ UNCHANGED <<posted, replies, handled, toldReviews>> /\ Unasked
  <2>1. call[c].op = "mark"
    BY CallShapes DEF ResolveThread, ReadCalls, ReplyCalls, CodexCalls, NoCall
  <2> QED
    BY <1>1, <2>1, CallShapes DEF ResolveThread
<1>3. y.status = "Addressed" /\ KindOf[y.id] = "thread" /\ y.id \in OnGitHub
  BY <1>2 DEF CallInv, MarkInv
<1>4. PICK x :
        /\ call' = [call EXCEPT ![c] = x] /\ (Mended \/ Breaks)
        /\ x \in MarkCalls /\ x.at = "append" /\ x.id = y.id /\ x.status = y.status /\ x.op = "mark"
        /\ resolved \subseteq resolved' /\ resolved' \subseteq resolved \union {y.id}
        /\ x.lost \/ x.id \in resolved'
  <2>1. CASE resolved' = resolved \union {call[c].id} /\ Advance(c, "append") /\ Mended
    <3>1. PICK x : x = [y EXCEPT !.at = "append"]
      OBVIOUS
    <3>2. x \in MarkCalls /\ x.at = "append" /\ x.id = y.id /\ x.status = y.status /\ x.op = "mark"
      BY <1>2, <3>1 DEF MarkCalls
    <3>3. call' = [call EXCEPT ![c] = x]
      BY <1>1, <2>1, <3>1 DEF Advance
    <3> QED
      BY <1>1, <2>1, <3>2, <3>3
  <2>2. CASE /\ resolved' \in {resolved, resolved \union {call[c].id}}
             /\ Breaks /\ call' = [call EXCEPT ![c].at = "append", ![c].lost = TRUE]
    <3>1. PICK x : x = [y EXCEPT !.at = "append", !.lost = TRUE]
      OBVIOUS
    <3>2. x \in MarkCalls /\ x.at = "append" /\ x.id = y.id /\ x.status = y.status /\ x.op = "mark"
          /\ x.lost
      BY <1>2, <3>1 DEF MarkCalls
    <3>3. call' = [call EXCEPT ![c] = x]
      BY <1>1, <2>2, <3>1
    <3> QED
      BY <1>1, <2>2, <3>2, <3>3
  <2> QED
    BY <2>1, <2>2 DEF ResolveThread
<1>5. CallInv(c, x)'
  <2>1. OnGitHub' = OnGitHub
    BY <1>2 DEF OnGitHub
  <2>2. MarkInv(x)'
    BY <1>3, <1>4, <2>1 DEF MarkInv
  <2> QED
    BY <1>4, <2>2 DEF CallInv, ReadInv, CodexInv, OtherInv
<1>6. resolved' \subseteq {posted[i] : i \in OfKind("thread")}
  <2>1. y.id \in {posted[i] : i \in OfKind("thread")}
    BY <1>3 DEF OnGitHub, Range, OfKind
  <2> QED
    BY <1>4, <2>1 DEF ReviewInv
<1>7. \A a \in resolved' : a \in resolved
         \/ (x.op = "mark" /\ x.id = a /\ x.status = "Addressed" /\ x.at = "append")
  BY <1>3, <1>4
<1>8. /\ handled \in Seq([id : Artifacts, status : MarkStatuses])
      /\ toldReviews \in Seq([id : Artifacts, status : MarkStatuses] \union
                              [id : Callers, status : {"review-received"}])
      /\ \A m \in Range(toldReviews) : m.status # "review-received" => m \in Range(handled)
      /\ replies \in Seq(Artifacts) /\ Range(replies) \subseteq OnGitHub
  BY DEF ReviewInv
<1>9. /\ handled' = handled /\ toldReviews' = toldReviews /\ replies' = replies /\ UNCHANGED posted
      /\ ~(call[c].op = "mark" /\ call[c].at = "append")
  BY <1>1, <1>2
<1>10. reviewAsks' \in 0..MaxReviewAsks /\ reviewFaults' \in 0..MaxReviewFaults
       /\ reviewFaults <= reviewFaults'
  BY <1>2, <1>4, CommandFaults
<1> QED
  BY <1>4, <1>5, <1>6, <1>7, <1>8, <1>9, <1>10, CallMoves

LEMMA AppendHandledKept == ASSUME ReviewInv, NEW c \in Callers, AppendHandled(c) PROVE ReviewInv'
<1>1. PICK y : y = call[c]
  OBVIOUS
<1>2. /\ y.op = "mark" /\ y \in MarkCalls /\ CallInv(c, y) /\ y.at = "append"
      /\ UNCHANGED <<posted, resolved, replies, toldReviews>> /\ Unasked
  <2>1. call[c].op = "mark"
    BY CallShapes DEF AppendHandled, ReadCalls, ReplyCalls, CodexCalls, NoCall
  <2> QED
    BY <1>1, <2>1, CallShapes DEF AppendHandled
<1>3. CASE UNCHANGED handled /\ Off(c)
  BY <1>1, <1>2, <1>3, OffKept
<1>4. CASE handled' = Append(handled, Mark(c)) /\ Advance(c, "publish") /\ Mended
  <2>1. PICK x : x = [y EXCEPT !.at = "publish"]
    OBVIOUS
  <2>2. PICK e : e = Marking(y)
    OBVIOUS
  <2>3. PICK Lines : Lines = [id : Artifacts, status : MarkStatuses]
    OBVIOUS
  <2>4. /\ x \in MarkCalls /\ x.op = "mark" /\ x.at = "publish" /\ x.id = y.id /\ x.status = y.status
        /\ x.lost = y.lost /\ e \in Lines /\ Marking(x) = e
    BY <1>2, <2>1, <2>2, <2>3 DEF MarkCalls, Marking
  <2>5. call' = [call EXCEPT ![c] = x] /\ handled' = Append(handled, e)
    BY <1>1, <1>4, <2>1, <2>2 DEF Advance, Mark, Marking
  <2>6. handled \in Seq(Lines)
    BY <2>3 DEF ReviewInv
  <2>7. handled' \in Seq(Lines) /\ Range(handled') = Range(handled) \union {e}
    BY <2>4, <2>5, <2>6, RangeAppend
  <2>8. /\ toldReviews \in Seq(Lines \union [id : Callers, status : {"review-received"}])
        /\ \A m \in Range(toldReviews) : m.status # "review-received" => m \in Range(handled)
        /\ replies \in Seq(Artifacts) /\ Range(replies) \subseteq OnGitHub
        /\ resolved \subseteq {posted[i] : i \in OfKind("thread")}
    BY <2>3 DEF ReviewInv
  <2>9. MarkInv(x)'
    <3>1. OnGitHub' = OnGitHub
      BY <1>2 DEF OnGitHub
    <3> QED
      BY <1>2, <2>4, <2>7, <3>1 DEF MarkInv, CallInv
  <2>10. CallInv(c, x)'
    BY <2>4, <2>9 DEF CallInv, ReadInv, CodexInv, OtherInv
  <2>11. /\ UNCHANGED posted /\ resolved \subseteq resolved' /\ \A a \in resolved' : a \in resolved
         /\ Range(handled) \subseteq Range(handled') /\ Range(toldReviews) \subseteq Range(toldReviews')
         /\ resolved' \subseteq {posted[i] : i \in OfKind("thread")}
         /\ toldReviews' \in Seq(Lines \union [id : Callers, status : {"review-received"}])
         /\ \A m \in Range(toldReviews') : m.status # "review-received" => m \in Range(handled')
         /\ replies' \in Seq(Artifacts) /\ Range(replies') \subseteq OnGitHub
         /\ Marking(call[c]) \in Range(handled')
    BY <1>1, <1>2, <2>2, <2>7, <2>8
  <2>12. /\ reviewAsks' \in 0..MaxReviewAsks /\ reviewFaults' \in 0..MaxReviewFaults
         /\ reviewFaults <= reviewFaults'
    BY <1>2, <1>4, CommandFaults
  <2> QED
    BY <2>3, <2>5, <2>7, <2>10, <2>11, <2>12, CallMoves
<1> QED
  BY <1>3, <1>4 DEF AppendHandled

\* What TellHandled and TellReview have in common.
LEMMA TellKept ==
  ASSUME ReviewInv, NEW c \in Callers, NEW x, NEW e, call' = [call EXCEPT ![c] = x],
         e \in [id : Artifacts, status : MarkStatuses] \union
              [id : Callers, status : {"review-received"}],
         e.status # "review-received" => e \in Range(handled),
         toldReviews' = Append(toldReviews, e), Mended, Unasked, call[c].at = "publish",
         CallInv(c, [x EXCEPT !.at = "publish"]), x.at = "answered",
         \/ x.op = "mark" /\ x \in MarkCalls /\ e = Marking(x)
         \/ x.op = "review" /\ x \in CodexCalls /\ e = [id |-> c, status |-> "review-received"],
         UNCHANGED <<posted, resolved, replies, handled>>
  PROVE  ReviewInv'
<1>1. PICK Told2 : Told2 = [id : Artifacts, status : MarkStatuses] \union
                          [id : Callers, status : {"review-received"}]
  OBVIOUS
<1>2. toldReviews \in Seq(Told2) /\ e \in Told2
  BY <1>1 DEF ReviewInv
<1>3. toldReviews' \in Seq(Told2) /\ Range(toldReviews') = Range(toldReviews) \union {e}
  BY <1>2, RangeAppend
<1>4. /\ handled \in Seq([id : Artifacts, status : MarkStatuses])
      /\ \A m \in Range(toldReviews) : m.status # "review-received" => m \in Range(handled)
      /\ replies \in Seq(Artifacts) /\ Range(replies) \subseteq OnGitHub
      /\ resolved \subseteq {posted[i] : i \in OfKind("thread")}
  BY DEF ReviewInv
<1>5. CallInv(c, x)'
  <2>1. OnGitHub' = OnGitHub
    BY DEF OnGitHub
  <2>2. CASE x.op = "mark"
    <3>1. PICK y : y = [x EXCEPT !.at = "publish"]
      OBVIOUS
    <3>2. /\ y.op = "mark" /\ y.at = "publish" /\ y.id = x.id /\ y.status = x.status /\ y.lost = x.lost
          /\ CallInv(c, y) /\ x \in MarkCalls /\ e = Marking(x)
      BY <2>2, <3>1 DEF MarkCalls
    <3>3. MarkInv(x)'
      BY <1>3, <2>1, <2>2, <3>2 DEF CallInv, MarkInv
    <3> QED
      BY <2>2, <3>3 DEF CallInv, ReadInv, CodexInv, OtherInv
  <2>3. CASE x.op = "review"
    <3>1. CodexInv(c, x)'
      BY <1>3, <2>3 DEF CodexInv
    <3> QED
      BY <2>3, <3>1 DEF CallInv, ReadInv, MarkInv, OtherInv
  <2> QED
    BY <2>2, <2>3
<1>6. /\ UNCHANGED posted /\ resolved \subseteq resolved' /\ \A a \in resolved' : a \in resolved
      /\ Range(handled) \subseteq Range(handled') /\ Range(toldReviews) \subseteq Range(toldReviews')
      /\ resolved' \subseteq {posted[i] : i \in OfKind("thread")}
      /\ handled' \in Seq([id : Artifacts, status : MarkStatuses])
      /\ \A m \in Range(toldReviews') : m.status # "review-received" => m \in Range(handled')
      /\ replies' \in Seq(Artifacts) /\ Range(replies') \subseteq OnGitHub
      /\ ~(call[c].op = "mark" /\ call[c].at = "append")
  BY <1>3, <1>4
<1>7. /\ reviewAsks' \in 0..MaxReviewAsks /\ reviewFaults' \in 0..MaxReviewFaults
      /\ reviewFaults <= reviewFaults'
  BY CommandFaults
<1> QED
  BY <1>1, <1>3, <1>5, <1>6, <1>7, CallMoves

LEMMA TellHandledKept == ASSUME ReviewInv, NEW c \in Callers, TellHandled(c) PROVE ReviewInv'
<1>1. PICK y : y = call[c]
  OBVIOUS
<1>2. /\ y.op = "mark" /\ y \in MarkCalls /\ CallInv(c, y) /\ y.at = "publish"
      /\ UNCHANGED <<posted, resolved, replies, handled>> /\ Unasked
  BY <1>1, CallShapes DEF TellHandled
<1>3. CASE UNCHANGED toldReviews /\ Off(c)
  BY <1>1, <1>2, <1>3, OffKept
<1>4. CASE toldReviews' = Append(toldReviews, Mark(c)) /\ Advance(c, "answered") /\ Mended
  <2>1. PICK x : x = [y EXCEPT !.at = "answered"]
    OBVIOUS
  <2>2. PICK e : e = Marking(y)
    OBVIOUS
  <2>3. /\ x \in MarkCalls /\ x.op = "mark" /\ x.at = "answered" /\ e = Marking(x)
        /\ e \in [id : Artifacts, status : MarkStatuses]
    BY <1>2, <2>1, <2>2 DEF MarkCalls, Marking
  <2>4. [x EXCEPT !.at = "publish"] = y
    BY <1>2, <2>1 DEF MarkCalls
  <2>5. call' = [call EXCEPT ![c] = x] /\ toldReviews' = Append(toldReviews, e)
    BY <1>1, <1>4, <2>1, <2>2 DEF Advance, Mark, Marking
  <2>6. e \in Range(handled)
    BY <1>2, <2>2 DEF CallInv, MarkInv
  <2> QED
    BY <1>1, <1>2, <1>4, <2>3, <2>4, <2>5, <2>6, TellKept
<1> QED
  BY <1>3, <1>4 DEF TellHandled

LEMMA TellReviewKept == ASSUME ReviewInv, NEW c \in Callers, TellReview(c) PROVE ReviewInv'
<1>1. PICK y : y = call[c]
  OBVIOUS
<1>2. /\ y.op = "review" /\ y \in CodexCalls /\ CallInv(c, y) /\ y.at = "publish"
      /\ UNCHANGED <<posted, resolved, replies, handled>> /\ Unasked
  BY <1>1, CallShapes DEF TellReview
<1>3. CASE UNCHANGED toldReviews /\ Off(c)
  BY <1>1, <1>2, <1>3, OffKept
<1>4. CASE toldReviews' = Append(toldReviews, [id |-> c, status |-> "review-received"])
           /\ Advance(c, "answered") /\ Mended
  <2>1. PICK x : x = [y EXCEPT !.at = "answered"]
    OBVIOUS
  <2>2. PICK e : e = [id |-> c, status |-> "review-received"]
    OBVIOUS
  <2>3. /\ x \in CodexCalls /\ x.op = "review" /\ x.at = "answered"
        /\ e \in [id : Callers, status : {"review-received"}] /\ e.status = "review-received"
    BY <1>2, <2>1, <2>2 DEF CodexCalls
  <2>4. [x EXCEPT !.at = "publish"] = y
    BY <1>2, <2>1 DEF CodexCalls
  <2>5. call' = [call EXCEPT ![c] = x] /\ toldReviews' = Append(toldReviews, e)
    BY <1>1, <1>4, <2>1, <2>2 DEF Advance
  <2>6. /\ e \in [id : Artifacts, status : MarkStatuses] \union
                  [id : Callers, status : {"review-received"}]
        /\ e.status # "review-received" => e \in Range(handled)
        /\ call[c].at = "publish" /\ CallInv(c, [x EXCEPT !.at = "publish"])
        /\ x.op = "review" /\ x \in CodexCalls /\ e = [id |-> c, status |-> "review-received"]
    BY <1>1, <1>2, <2>2, <2>3, <2>4
  <2> QED
    BY <1>2, <1>4, <2>3, <2>5, <2>6, TellKept
<1> QED
  BY <1>3, <1>4 DEF TellReview

LEMMA RunCodexKept == ASSUME ReviewInv, NEW c \in Callers, RunCodex(c) PROVE ReviewInv'
<1>1. PICK y : y = call[c]
  OBVIOUS
<1>2. /\ y.op = "review" /\ y \in CodexCalls /\ CallInv(c, y) /\ y.at = "codex" /\ y.found = 0
      /\ UNCHANGED <<posted, resolved, replies, handled, toldReviews>> /\ Unasked
  <2>1. call[c].op = "review"
    BY CallShapes DEF RunCodex, ReadCalls, ReplyCalls, MarkCalls, NoCall
  <2>2. /\ y.op = "review" /\ y \in CodexCalls /\ CallInv(c, y) /\ y.at = "codex"
        /\ UNCHANGED <<posted, resolved, replies, handled, toldReviews>> /\ Unasked
    BY <1>1, <2>1, CallShapes DEF RunCodex
  <2> QED
    BY <2>2 DEF CallInv, CodexInv
<1>3. CASE Off(c)
  BY <1>1, <1>2, <1>3, OffKept
<1>4. ASSUME NEW x, x \in CodexCalls, x.op = "review", Mended, call' = [call EXCEPT ![c] = x],
             (x.at = "publish" /\ x.found = 1) \/ (x.at = "answered" /\ x.found = 0)
      PROVE  ReviewInv'
  <2>1. CallInv(c, x)
    BY <1>4 DEF CallInv, ReadInv, MarkInv, CodexInv, OtherInv
  <2>2. CallInv(c, x)'
    BY <1>2, <2>1, CallGrows
  <2> QED
    BY <1>1, <1>2, <1>4, <2>2, CommandFaults, CallMovesAlone
<1>5. CASE call' = [call EXCEPT ![c].found = 1, ![c].at = "publish"] /\ Mended
  <2>1. PICK x : x = [y EXCEPT !.found = 1, !.at = "publish"]
    OBVIOUS
  <2>2. x \in CodexCalls /\ x.op = "review" /\ x.at = "publish" /\ x.found = 1
    BY <1>2, <2>1 DEF CodexCalls
  <2>3. call' = [call EXCEPT ![c] = x]
    BY <1>1, <1>5, <2>1
  <2> QED
    BY <1>4, <1>5, <2>2, <2>3
<1>6. CASE Advance(c, "answered") /\ Mended
  <2>1. PICK x : x = [y EXCEPT !.at = "answered"]
    OBVIOUS
  <2>2. x \in CodexCalls /\ x.op = "review" /\ x.at = "answered" /\ x.found = 0
    BY <1>2, <2>1 DEF CodexCalls
  <2>3. call' = [call EXCEPT ![c] = x]
    BY <1>1, <1>6, <2>1 DEF Advance
  <2> QED
    BY <1>4, <1>6, <2>2, <2>3
<1> QED
  BY <1>3, <1>5, <1>6 DEF RunCodex

LEMMA PostReplyKept == ASSUME ReviewInv, NEW c \in Callers, PostReply(c) PROVE ReviewInv'
<1>1. PICK y : y = call[c]
  OBVIOUS
<1>2. /\ y.op = "reply" /\ y \in ReplyCalls /\ CallInv(c, y) /\ y.at = "post" /\ y.id \in OnGitHub
      /\ UNCHANGED <<posted, resolved, handled, toldReviews>> /\ Unasked
  <2>1. call[c].op = "reply"
    BY CallShapes DEF PostReply, ReadCalls, CodexCalls, MarkCalls, NoCall
  <2>2. /\ y.op = "reply" /\ y \in ReplyCalls /\ CallInv(c, y) /\ y.at = "post"
        /\ UNCHANGED <<posted, resolved, handled, toldReviews>> /\ Unasked
    BY <1>1, <2>1, CallShapes DEF PostReply
  <2> QED
    BY <2>2 DEF CallInv, OtherInv
<1>3. PICK at : /\ at \in {"answered", "failed"} /\ Advance(c, at) /\ (Mended \/ Breaks)
                /\ replies' \in {replies, Append(replies, y.id)}
  BY <1>1 DEF PostReply, Off
<1>4. PICK x : x = [y EXCEPT !.at = at]
  OBVIOUS
<1>5. x \in ReplyCalls /\ x.op = "reply" /\ x.id = y.id /\ call' = [call EXCEPT ![c] = x]
  BY <1>1, <1>2, <1>3, <1>4 DEF ReplyCalls, Advance
<1>6. CallInv(c, x)
  BY <1>2, <1>5 DEF CallInv, ReadInv, MarkInv, CodexInv, OtherInv
<1>7. CallInv(c, x)'
  BY <1>2, <1>6, CallGrows
<1>8. replies' \in Seq(Artifacts) /\ Range(replies') \subseteq OnGitHub
  <2>1. replies \in Seq(Artifacts) /\ Range(replies) \subseteq OnGitHub /\ y.id \in Artifacts
    BY <1>2 DEF ReviewInv, ReplyCalls
  <2>2. Append(replies, y.id) \in Seq(Artifacts)
        /\ Range(Append(replies, y.id)) = Range(replies) \union {y.id}
    BY <2>1, RangeAppend
  <2> QED
    BY <1>2, <1>3, <2>1, <2>2
<1>9. /\ handled \in Seq([id : Artifacts, status : MarkStatuses])
      /\ toldReviews \in Seq([id : Artifacts, status : MarkStatuses] \union
                              [id : Callers, status : {"review-received"}])
      /\ \A m \in Range(toldReviews) : m.status # "review-received" => m \in Range(handled)
      /\ resolved \subseteq {posted[i] : i \in OfKind("thread")}
  BY DEF ReviewInv
<1>10. /\ handled' = handled /\ toldReviews' = toldReviews /\ resolved' = resolved /\ UNCHANGED posted
       /\ ~(call[c].op = "mark" /\ call[c].at = "append")
  BY <1>1, <1>2
<1>11. /\ reviewAsks' \in 0..MaxReviewAsks /\ reviewFaults' \in 0..MaxReviewFaults
       /\ reviewFaults <= reviewFaults'
  BY <1>2, <1>3, CommandFaults
<1> QED
  BY <1>5, <1>7, <1>8, <1>9, <1>10, <1>11, CallMoves

LEMMA ReviewInvKept == ReviewInv /\ [ReviewNext]_reviewVars => ReviewInv'
<1> SUFFICES ASSUME ReviewInv, [ReviewNext]_reviewVars PROVE ReviewInv'
  OBVIOUS
<1>1. CASE UNCHANGED reviewVars
  <2>1. UNCHANGED <<posted, resolved, replies, handled, toldReviews, call, reviewAsks, reviewFaults>>
    BY <1>1 DEF reviewVars
  <2>2. OnGitHub' = OnGitHub /\ OfKind("thread")' = OfKind("thread")
    BY <2>1 DEF OnGitHub, OfKind
  <2>3. ASSUME NEW c \in Callers PROVE CallInv(c, call[c])'
    <3>1. PICK y : y = call[c]
      OBVIOUS
    <3>2. CallInv(c, y)'
      BY <2>1, <3>1, CallGrows DEF ReviewInv
    <3> QED
      BY <2>1, <3>1, <3>2
  <2>4. ResolvedInv'
    <3>1. ResolvedInv
      BY DEF ReviewInv
    <3> QED
      BY <2>1, <3>1 DEF ResolvedInv
  <2> QED
    BY <2>1, <2>2, <2>3, <2>4 DEF ReviewInv
<1>2. CASE ReviewNext
  BY <1>2, PostKept, AskKept, ReadListKept, LookUpKept, ResolveKept,
     AppendHandledKept,
     TellHandledKept, PostReplyKept, RunCodexKept, TellReviewKept DEF ReviewNext
<1> QED
  BY <1>1, <1>2

-----------------------------------------------------------------------------
(***************************************************************************)
(* What people commit to the canonical worktree.                           *)
(***************************************************************************)
RefStates == [there : BOOLEAN, has : SUBSET Commits]

\* What people have committed is on the local branch, or else on the branch a new
\* one is made of; a worktree has the commits of the local branch.
EditsInv ==
  /\ gitRefs \in [GitNames -> RefStates] /\ written \in SUBSET Commits
  /\ checkout \in [path : {"absent", "worktree", "stray"}, commits : SUBSET Commits]
  /\ baseRef \in {"none", "origin/trunk"} /\ gitRefs["origin/trunk"].there
  /\ checkout.path = "worktree" =>
       gitRefs["local"].there /\ gitRefs["local"].has \subseteq checkout.commits
  /\ baseRef = "none" =>
       /\ gitRefs["local"].there => written \subseteq gitRefs["local"].has
       /\ ~gitRefs["local"].there /\ gitRefs["origin/branch"].there =>
            written \subseteq gitRefs["origin/branch"].has
       /\ ~gitRefs["local"].there /\ ~gitRefs["origin/branch"].there => written = {}

LEMMA EditsStart == GraphInit => EditsInv
<1> SUFFICES ASSUME GraphInit PROVE EditsInv
  OBVIOUS
<1>1. PICK own \in {Missing, Having({}), Having(Commits)}, pushed \in {Missing, Having({"edits"})} :
        /\ gitRefs = [n \in GitNames |-> CASE n = "local" -> own [] n = "origin/branch" -> pushed
                                        [] OTHER -> Having({})]
        /\ written = IF own.there THEN own.has ELSE pushed.has
  BY DEF GraphInit
<1>2. own \in RefStates /\ pushed \in RefStates /\ Having({}) \in RefStates
      /\ (~pushed.there => pushed.has = {})
  <2>1. Missing \in RefStates /\ Missing.has = {}
    BY DEF RefStates, Missing
  <2>2. Having({}) \in RefStates
    BY DEF RefStates, Having
  <2>3. Having(Commits) \in RefStates
    BY DEF RefStates, Having
  <2>4. Having({"edits"}) \in RefStates /\ Having({"edits"}).there
    BY DEF RefStates, Having, Commits
  <2> QED
    BY <2>1, <2>2, <2>3, <2>4
<1>3. gitRefs \in [GitNames -> RefStates] /\ gitRefs["local"] = own /\ gitRefs["origin/branch"] = pushed
  BY <1>1, <1>2 DEF GitNames
<1>4. written \in SUBSET Commits
  BY <1>1, <1>2 DEF RefStates
<1>5. checkout = [path |-> "absent", commits |-> {}] /\ baseRef \in {"none", "origin/trunk"}
  BY DEF GraphInit
<1>6. gitRefs["origin/trunk"].there
  BY <1>1 DEF GitNames, Having
<1> QED
  BY <1>1, <1>2, <1>3, <1>4, <1>5, <1>6 DEF EditsInv

LEMMA EditsInvImplies == EditsInv => EditsKept
BY DEF EditsInv, EditsKept

LEMMA PeopleCommitKept == ASSUME EditsInv, PeopleCommit PROVE EditsInv'
<1>1. PICK l : l = gitRefs["local"]
  OBVIOUS
<1>2. PICK m : m = [l EXCEPT !.has = @ \union {"edits"}]
  OBVIOUS
<1>3. l \in RefStates /\ l.there
  BY <1>1 DEF EditsInv, GitNames, PeopleCommit
<1>4. m \in RefStates /\ m.there /\ m.has = l.has \union {"edits"}
  BY <1>2, <1>3 DEF RefStates, Commits
<1>5. gitRefs' = [gitRefs EXCEPT !["local"] = m]
  BY <1>1, <1>2 DEF PeopleCommit
<1>6. gitRefs' \in [GitNames -> RefStates] /\ gitRefs'["local"] = m
      /\ gitRefs'["origin/trunk"].there
  BY <1>4, <1>5 DEF EditsInv, GitNames
<1>7. /\ checkout' = [checkout EXCEPT !.commits = @ \union {"edits"}]
      /\ written' = written \union {"edits"} /\ baseRef' = baseRef
      /\ checkout.path = "worktree"
  BY DEF PeopleCommit
<1>8. /\ checkout' \in [path : {"absent", "worktree", "stray"}, commits : SUBSET Commits]
      /\ checkout'.commits = checkout.commits \union {"edits"}
  BY <1>7 DEF EditsInv, Commits
<1>9. written' \in SUBSET Commits
  BY <1>7 DEF EditsInv, Commits
<1> QED
  BY <1>1, <1>3, <1>4, <1>6, <1>7, <1>8, <1>9 DEF EditsInv

LEMMA AddTreeKept == ASSUME EditsInv, AddTree PROVE EditsInv'
<1>1. PICK b : b = BranchToUse
  OBVIOUS
<1>2. /\ b \in RefStates /\ b.there
      /\ baseRef = "none" => written \subseteq b.has
  <2>1. /\ gitRefs["local"] \in RefStates /\ gitRefs["origin/branch"] \in RefStates
        /\ gitRefs["origin/trunk"] \in RefStates
    BY DEF EditsInv, GitNames
  <2>2. CASE gitRefs["local"].there
    BY <1>1, <2>1, <2>2 DEF EditsInv, BranchToUse
  <2>3. CASE ~gitRefs["local"].there
    BY <1>1, <2>1, <2>3 DEF EditsInv, BranchToUse, Base
  <2> QED
    BY <2>2, <2>3
<1>3. /\ gitRefs' = [gitRefs EXCEPT !["local"] = b]
      /\ checkout' = [path |-> "worktree", commits |-> b.has]
      /\ baseRef' = baseRef /\ written' = written
  BY <1>1 DEF AddTree
<1>4. /\ gitRefs' \in [GitNames -> RefStates] /\ gitRefs'["local"] = b
      /\ gitRefs'["origin/trunk"].there
  BY <1>2, <1>3 DEF EditsInv, GitNames
<1>5. checkout' \in [path : {"absent", "worktree", "stray"}, commits : SUBSET Commits]
  BY <1>2, <1>3 DEF RefStates
<1> QED
  BY <1>2, <1>3, <1>4, <1>5 DEF EditsInv

\* Where the worktree goes, or something else is put in its place.
LEMMA NoTreeKept ==
  ASSUME EditsInv, UNCHANGED <<gitRefs, baseRef, written>>,
         checkout' = checkout \/ checkout' = [path |-> "absent", commits |-> {}]
           \/ checkout' = [path |-> "stray", commits |-> {}]
  PROVE  EditsInv'
BY DEF EditsInv

LEMMA EditsInvKept == EditsInv /\ [GraphNext]_graphVars => EditsInv'
<1> SUFFICES ASSUME EditsInv, [GraphNext]_graphVars PROVE EditsInv'
  OBVIOUS
<1>1. ASSUME NEW i, HandleEvent(i) PROVE EditsInv'
  BY <1>1, NoTreeKept DEF HandleEvent
<1>2. ASSUME NEW e, PublishEvent(e) PROVE EditsInv'
  BY <1>2, NoTreeKept DEF PublishEvent
<1>3. ASSUME NEW kind, BeginCommand(kind) PROVE EditsInv'
  BY <1>3, NoTreeKept DEF BeginCommand
<1>4. CASE FileEvent \/ DaemonRestarts \/ RemoveTree \/ PrepareDirectory
  BY <1>4, NoTreeKept DEF FileEvent, DaemonRestarts, RemoveTree, PrepareDirectory
<1>5. CASE ReadJournal \/ ReplayLine \/ FinishReplay \/ CommandFails
  BY <1>5, NoTreeKept DEF ReadJournal, ReplayLine, FinishReplay, CommandFails
<1>6. CASE UNCHANGED graphVars
  BY <1>6, NoTreeKept DEF graphVars
<1> QED
  BY <1>1, <1>2, <1>3, <1>4, <1>5, <1>6, PeopleCommitKept, AddTreeKept DEF GraphNext
=============================================================================
