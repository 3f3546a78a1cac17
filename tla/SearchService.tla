---------------------------- MODULE SearchService ----------------------------
(***************************************************************************)
(* The search service (crates/jam-svc-search): web-search, and below it    *)
(* web-extract and web-crawl.  They share nothing.                         *)
(***************************************************************************)
EXTENDS Integers, Sequences, FiniteSets, SequencesExt

(***************************************************************************)
(* web-search of the search service (crates/jam-svc-search): the choice of *)
(* a backend, the cooldown of Brave that all calls share, and the journal  *)
(* event of an answer.  Every request is a task of its own, so calls start *)
(* and end in any order.  An input that fails validation never reaches the *)
(* choice and is one refusal.                                              *)
(***************************************************************************)
CONSTANTS
  Searches,     \* calls of web-search
  CooldownSecs, \* COOLDOWN_SECS, in ticks
  MaxClock,     \* ticks the model looks at
  SearchFaults  \* what may fail: "backend", "publish"

ASSUME SearchAssumption ==
  /\ {CooldownSecs, MaxClock} \subseteq Nat \ {0}
  /\ SearchFaults \subseteq {"backend", "publish"}

VARIABLES
  clock,      \* Utc::now(), which a call reads once, when it starts
  brave,      \* CooldownState: until which tick, 0 for none
  search,     \* [at, backend, start] of each call
  configured, \* the mode, and the backends with an endpoint or a credential
  lastBrave,  \* how the last call to Brave that ended did: [ok, start]
  heard       \* calls whose search.web-search event is in the journal

searchVars == <<clock, brave, search, configured, lastBrave, heard>>

Intents == {"plain", "privacy", "source"}
SearchErr(kind) == kind \in SearchFaults
InFlight(s) == search[s].at \in {"calling", "telling"}

SearchInit ==
  /\ clock = 1 /\ brave = 0
  /\ search = [s \in Searches |-> [at |-> "idle"]]
  /\ configured \in [mode: {"auto", "brave", "searxng", "linkup"},
                     has: {{"brave"} \union b : b \in SUBSET {"searxng", "linkup"}}]
  /\ configured.mode \in configured.has \union {"auto"}
  /\ lastBrave = [ok |-> TRUE, start |-> 0]
  /\ heard = {}

\* is_privacy_intent is asked first, then is_source_backed_intent.
Wanted(intent) ==
  CASE intent = "privacy" -> "searxng" [] intent = "source" -> "linkup" [] OTHER -> "brave"

\* Faulty variant: an intent nobody can serve goes to Brave.
SelectBackendAny(intent) ==
  IF configured.mode # "auto" THEN configured.mode
  ELSE IF Wanted(intent) \in configured.has THEN Wanted(intent) ELSE "brave"

\* select_web_search_backend: a backend the operator has set serves every
\* intent; in the automatic mode no other backend stands in for the one wanted.
SelectBackend(intent) ==
  CASE configured.mode # "auto" -> configured.mode
    [] configured.mode = "auto" /\ Wanted(intent) \in configured.has -> Wanted(intent)
    [] OTHER -> "unavailable"

\* Faulty variant: a cooldown is over when half of it is.
InCooldownHalf == brave > clock + 1

\* brave_cooldown
InCooldown == brave > clock

\* parse_web_search_input or validate_search_input.
RefuseSearch(s) ==
  /\ search[s].at = "idle"
  /\ search' = [search EXCEPT ![s] = [at |-> "refused"]]
  /\ UNCHANGED <<clock, brave, configured, lastBrave, heard>>

\* web_search up to its first await: the choice of a backend and the look at
\* the cooldown are one step.
BeginSearch(s) ==
  /\ search[s].at = "idle"
  /\ \E intent \in Intents :
       LET backend == SelectBackend(intent)
       IN search' = [search EXCEPT ![s] =
            [at |-> IF backend = "unavailable" THEN "refused"
                    ELSE IF backend = "brave" /\ InCooldown THEN "cooldown" ELSE "calling",
             intent |-> intent, backend |-> backend, start |-> clock]]
  /\ UNCHANGED <<clock, brave, configured, lastBrave, heard>>

\* The backend answers; an answer of Brave clears the cooldown, also one that
\* another call has set meanwhile.
BackendAnswers(s) ==
  /\ search[s].at = "calling"
  /\ search' = [search EXCEPT ![s].at = "telling"]
  /\ IF search[s].backend = "brave"
       THEN brave' = 0 /\ lastBrave' = [ok |-> TRUE, start |-> search[s].start]
       ELSE UNCHANGED <<brave, lastBrave>>
  /\ UNCHANGED <<clock, configured, heard>>

\* Faulty variant: a cooldown that is there is left as it is.
SetCooldownOnce(start) == IF brave = 0 THEN start + CooldownSecs ELSE brave

\* set_brave_cooldown, with the time at which the call started.
SetCooldown(start) == start + CooldownSecs

\* Any error of Brave sets the cooldown, a missing key too; no other backend
\* has one.
BackendFails(s) ==
  /\ search[s].at = "calling" /\ SearchErr("backend")
  /\ search' = [search EXCEPT ![s].at = "failed"]
  /\ IF search[s].backend = "brave"
       THEN /\ brave' = SetCooldown(search[s].start)
            /\ lastBrave' = [ok |-> FALSE, start |-> search[s].start]
       ELSE UNCHANGED <<brave, lastBrave>>
  /\ UNCHANGED <<clock, configured, heard>>

\* Faulty variant: a failed publish is logged and the results are answered.
TellSearchLightly(s) ==
  /\ search[s].at = "telling"
  /\ \E ok \in BOOLEAN :
       /\ ok \/ SearchErr("publish")
       /\ heard' = IF ok THEN heard \union {s} ELSE heard
       /\ search' = [search EXCEPT ![s].at = "answered"]
  /\ UNCHANGED <<clock, brave, configured, lastBrave>>

\* publish_search_event; its failure makes an error of the answer.
TellSearch(s) ==
  /\ search[s].at = "telling"
  /\ \E ok \in BOOLEAN :
       /\ ok \/ SearchErr("publish")
       /\ heard' = IF ok THEN heard \union {s} ELSE heard
       /\ search' = [search EXCEPT ![s].at = IF ok THEN "answered" ELSE "failed"]
  /\ UNCHANGED <<clock, brave, configured, lastBrave>>

SearchTick ==
  /\ clock < MaxClock
  /\ clock' = clock + 1
  /\ UNCHANGED <<brave, search, configured, lastBrave, heard>>

\* run ends and starts again: calls in flight are lost, the cooldown with them.
SearchRestart ==
  /\ brave > 0 \/ \E s \in Searches : InFlight(s)
  /\ brave' = 0
  /\ search' = [s \in Searches |->
       IF InFlight(s) THEN [search[s] EXCEPT !.at = "failed"] ELSE search[s]]
  /\ lastBrave' = [ok |-> TRUE, start |-> 0]
  /\ UNCHANGED <<clock, configured, heard>>

SearchNext ==
  \/ \E s \in Searches :
       \/ RefuseSearch(s) \/ BeginSearch(s)
       \/ BackendAnswers(s) \/ BackendFails(s) \/ TellSearch(s)
  \/ SearchTick \/ SearchRestart
-----------------------------------------------------------------------------

SearchTypeOK ==
  /\ clock \in 1..MaxClock /\ brave \in 0..(MaxClock + CooldownSecs)
  /\ \A s \in Searches : search[s].at \in
       {"idle", "refused", "cooldown", "calling", "telling", "answered", "failed"}
  /\ heard \subseteq Searches

\* After Brave has failed nobody asks it again for the length of a cooldown
\* counted from that call, unless a call that ended later has succeeded: the
\* cooldown is the one of the call that ended last, in whatever order calls
\* start and end (main.rs:670-716, 848-883).
CooldownKept ==
  [][\A s \in Searches :
       (search[s].at = "idle" /\ search'[s].at = "calling" /\ search'[s].backend = "brave") =>
         lastBrave.ok \/ clock >= lastBrave.start + CooldownSecs]_searchVars

\* What was answered with results is in the journal.  A query marked as private
\* goes to the private backend or to none, unless the operator has set a
\* backend: then every query goes to that one, the private ones as well, and to
\* no other (main.rs:715, 719-753).
SearchSafety ==
  \A s \in Searches :
    /\ search[s].at = "answered" => s \in heard
    /\ InFlight(s) => search[s].backend \in
         (IF configured.mode # "auto" THEN {configured.mode}
          ELSE IF search[s].intent = "privacy" THEN {"searxng"} ELSE configured.has)

-----------------------------------------------------------------------------
(***************************************************************************)
(* web-extract and web-crawl of the search service (crates/jam-svc-search): *)
(* a list of URLs taken one after another, a crawl that is breadth first   *)
(* over the pages of one origin, or a job of Firecrawl that is polled and  *)
(* whose pages come in several answers.  A page stands for its canonical   *)
(* URL; which page links to which is chosen at the start.                  *)
(***************************************************************************)
CONSTANTS
  Pages,       \* pages of one origin; Root among them
  Root,
  Linkings,    \* which page may link to which, in the order of its links
  Depths,      \* values of max_depth a caller may ask for
  PageLimits,  \* values of max_pages
  MaxPolls,    \* polls that fit before the deadline
  AnswerSize,  \* the most pages one answer of Firecrawl holds
  CrawlFaults  \* what may fail: "page", "job"

ASSUME CrawlAssumption ==
  /\ Root \in Pages
  /\ \A links \in Linkings : links \in [Pages -> Seq(Pages)] /\ \A p \in Pages : IsInjective(links[p])
  /\ Depths \subseteq Nat /\ PageLimits \subseteq Nat \ {0}
  /\ MaxPolls \in Nat \ {0} /\ AnswerSize \in Nat
  /\ CrawlFaults \subseteq {"page", "job"}

VARIABLES
  links, \* links[p]: the same-origin links of a page, in the page's order
  crawl  \* the request: [at, depth, limit, queue, seen, pages] or its job

crawlVars == <<links, crawl>>

CrawlErr(kind) == kind \in CrawlFaults

CrawlInit ==
  /\ links \in Linkings
  /\ crawl = [at |-> "idle"]

\* parse_web_crawl_input and validate_crawl_input let it pass; the queue
\* starts with the root.
BeginCrawl ==
  /\ crawl.at = "idle"
  /\ \E depth \in Depths, limit \in PageLimits :
       crawl' = [at |-> "fetching", depth |-> depth, limit |-> limit,
                 queue |-> <<[page |-> Root, depth |-> 0]>>, seen |-> {Root}, pages |-> <<>>]
  /\ UNCHANGED links

\* Faulty variant: links go to the front of the queue.
EnqueueFirst(queue, new, depth) ==
  [i \in DOMAIN new |-> [page |-> new[i], depth |-> depth]] \o queue

Enqueue(queue, new, depth) == queue \o [i \in DOMAIN new |-> [page |-> new[i], depth |-> depth]]

\* Faulty variant: a page is marked as seen when it is fetched.
NewLinksUnfetched(page) ==
  SelectSeq(links[page], LAMBDA p : p \notin {crawl.pages[i].page : i \in DOMAIN crawl.pages})

\* same_origin and seen.insert
NewLinks(page) ==
  LET new[i \in 0..Len(links[page])] ==
        IF i = 0 THEN <<>>
        ELSE IF links[page][i] \in crawl.seen THEN new[i - 1]
        ELSE Append(new[i - 1], links[page][i])
  IN new[Len(links[page])]

Fetching == crawl.at = "fetching" /\ crawl.queue # <<>> /\ Len(crawl.pages) < crawl.limit

\* One turn of the loop: fetch_and_extract of the first in the queue, whose
\* new links are queued unless it is as deep as asked.
FetchPage ==
  /\ Fetching
  /\ LET next == Head(crawl.queue)
         new  == IF next.depth < crawl.depth THEN NewLinks(next.page) ELSE <<>>
     IN crawl' = [crawl EXCEPT !.queue = Enqueue(Tail(crawl.queue), new, next.depth + 1),
                               !.seen = @ \union Range(new),
                               !.pages = Append(@, next)]
  /\ UNCHANGED links

\* One page that cannot be fetched fails the crawl.
PageFails ==
  /\ Fetching /\ CrawlErr("page")
  /\ crawl' = [crawl EXCEPT !.at = "failed"]
  /\ UNCHANGED links

EndCrawl ==
  /\ crawl.at = "fetching" /\ ~Fetching
  /\ crawl' = [crawl EXCEPT !.at = "answered"]
  /\ UNCHANGED links

\* web_extract: the URLs of the input one after another, one failure fails all.
BeginExtract ==
  /\ crawl.at = "idle"
  /\ \E urls \in SeqOf(Pages, 2) \ {<<>>} :
       crawl' = [at |-> "extracting", urls |-> urls, pages |-> <<>>]
  /\ UNCHANGED links

ExtractUrl ==
  /\ crawl.at = "extracting" /\ Len(crawl.pages) < Len(crawl.urls)
  /\ \/ crawl' = [crawl EXCEPT !.pages = Append(@, crawl.urls[Len(@) + 1])]
     \/ CrawlErr("page") /\ crawl' = [crawl EXCEPT !.at = "failed"]
  /\ UNCHANGED links

EndExtract ==
  /\ crawl.at = "extracting" /\ Len(crawl.pages) = Len(crawl.urls)
  /\ crawl' = [crawl EXCEPT !.at = "answered"]
  /\ UNCHANGED links

(***************************************************************************)
(* The same asked of Firecrawl                                             *)
(***************************************************************************)

Lesser(m, n) == IF m < n THEN m ELSE n

\* Faulty variant: an answer is taken up to the limit of the whole crawl.
TakeAnswerWhole(got, size, limit) == got + Lesser(size, limit)

\* parse_firecrawl_crawl_pages: of an answer's pages as many as are missing.
TakeAnswer(got, size, limit) == got + Lesser(size, limit - got)

\* A request is posted that starts the job.
BeginJob ==
  /\ crawl.at = "idle"
  /\ \E limit \in PageLimits, status \in {"queued", "completed"} :
       crawl' = [at |-> "job", limit |-> limit, status |-> status, left |-> MaxPolls, got |-> 0]
  /\ UNCHANGED links

\* firecrawl_post_json, firecrawl_get_json or firecrawl_read_json fails.
JobFails ==
  /\ crawl.at \in {"idle", "job", "collecting"} /\ CrawlErr("job")
  /\ crawl' = [at |-> "failed"]
  /\ UNCHANGED links

\* Firecrawl works on the job.
JobMoves ==
  /\ crawl.at = "job" /\ crawl.status = "queued"
  /\ \E status \in {"completed", "failed"} : crawl' = [crawl EXCEPT !.status = status]
  /\ UNCHANGED links

\* One turn of firecrawl_crawl before the deadline: the answer of a completed
\* job holds the first pages.
PollJob ==
  /\ crawl.at = "job" /\ crawl.left > 0
  /\ \/ /\ crawl.status = "completed"
        /\ \E size \in 0..AnswerSize :
             crawl' = [crawl EXCEPT !.at = "collecting", !.got = TakeAnswer(0, size, crawl.limit)]
     \/ crawl.status = "failed" /\ crawl' = [crawl EXCEPT !.at = "failed"]
     \/ crawl.status = "queued" /\ crawl' = [crawl EXCEPT !.left = @ - 1]
  /\ UNCHANGED links

\* A job that completes after the last poll is not asked again.
JobTimesOut ==
  /\ crawl.at = "job" /\ crawl.left = 0
  /\ crawl' = [crawl EXCEPT !.at = "failed"]
  /\ UNCHANGED links

\* firecrawl_collect_crawl_pages: the answer behind "next" while pages are
\* missing.
CollectNext ==
  /\ crawl.at = "collecting" /\ crawl.got < crawl.limit
  /\ \E size \in 0..AnswerSize :
       crawl' = [crawl EXCEPT !.got = TakeAnswer(@, size, crawl.limit)]
  /\ UNCHANGED links

\* No "next", or no page missing.
EndJob ==
  /\ crawl.at = "collecting"
  /\ crawl' = [crawl EXCEPT !.at = "answered"]
  /\ UNCHANGED links

CrawlNext ==
  \/ BeginCrawl \/ FetchPage \/ PageFails \/ EndCrawl
  \/ BeginExtract \/ ExtractUrl \/ EndExtract
  \/ BeginJob \/ JobFails \/ JobMoves \/ PollJob \/ JobTimesOut \/ CollectNext \/ EndJob
-----------------------------------------------------------------------------

CrawlTypeOK ==
  crawl.at \in {"idle", "fetching", "extracting", "job", "collecting", "answered", "failed"}

\* The pages at most n links away from the root.
Within(n) ==
  LET reach[i \in 0..n] == IF i = 0 THEN {Root}
                           ELSE reach[i - 1] \union UNION {Range(links[p]) : p \in reach[i - 1]}
  IN reach[n]

\* A crawl takes no page twice, none that is farther from the root than asked,
\* none before all that are nearer, and stops short of the limit only when no
\* page is left (main.rs:799-841).
CrawlIsNearest ==
  "queue" \in DOMAIN crawl =>
    LET taken == {crawl.pages[i].page : i \in DOMAIN crawl.pages}
    IN /\ Cardinality(taken) = Len(crawl.pages) /\ Len(crawl.pages) <= crawl.limit
       /\ \A i \in DOMAIN crawl.pages :
            LET d == crawl.pages[i].depth
            IN /\ d <= crawl.depth /\ crawl.pages[i].page \in Within(d)
               /\ d > 0 => Within(d - 1) \subseteq taken
       /\ crawl.at = "answered" /\ Len(crawl.pages) < crawl.limit =>
            taken = Within(crawl.depth)

\* A crawl is nearest first, and one by Firecrawl, however its answers are
\* cut, never has more pages than asked (main.rs:1512-1548).
CrawlSafety ==
  /\ CrawlIsNearest
  /\ "got" \in DOMAIN crawl => crawl.got <= crawl.limit
=============================================================================
