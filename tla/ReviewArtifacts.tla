--------------------------- MODULE ReviewArtifacts ---------------------------
(***************************************************************************)
(* The review artifacts of one PR in jam-svc-repo: read-pr-comments,       *)
(* reply-to-comment, mark-review-artifact-handled and request-review.      *)
(* Calls run at once; each is a row of gh commands, of a line appended to  *)
(* the file of handled artifacts and of events, with reviewers posting     *)
(* meanwhile, and each command may fail before or after it took effect.    *)
(***************************************************************************)
EXTENDS Naturals, Sequences, FiniteSets, SequencesExt

CONSTANTS
  Artifacts,   \* what reviewers may post
  KindOf,      \* "issue", "thread" (a comment with a thread of its own) or "summary"
  Blank,       \* artifacts without a text
  Callers,     \* calls that run at once
  ListPage,    \* artifacts in an answer of the REST lists
  ThreadPage,  \* threads in an answer of the GraphQL query
  MaxReviewAsks,   \* bound: calls
  MaxReviewFaults  \* bound: commands that fail

Kinds == <<"issue", "thread", "summary">>
ASSUME ArtifactsAssumption == KindOf \in [Artifacts -> Range(Kinds)] /\ Blank \subseteq Artifacts
ASSUME PagesAssumption == {ListPage, ThreadPage} \subseteq Nat \ {0}
ASSUME ReviewBoundsAssumption == {MaxReviewAsks, MaxReviewFaults} \subseteq Nat

VARIABLES
  posted,    \* what is on GitHub, in the order it was posted
  resolved,  \* comments whose thread is resolved
  replies,   \* artifacts that were replied to
  handled,   \* the lines of the file of handled artifacts
  toldReviews, \* events: marks, and "review-received"
  call,      \* the calls
  reviewAsks, reviewFaults  \* calls and failed commands so far

reviewVars == <<posted, resolved, replies, handled, toldReviews, call, reviewAsks, reviewFaults>>

MarkStatuses == {"Open", "Addressed"}
NoCall == [op |-> "none", at |-> "idle"]
CallOver(c) == call[c].at \in {"idle", "answered", "failed"}
\* The place of posted[i] in the list of its kind, and what is at some places.
OfKind(kind) == {i \in DOMAIN posted : KindOf[posted[i]] = kind}
RankOf(i) == Cardinality({j \in OfKind(KindOf[posted[i]]) : j <= i})
Ranked(kind, first, last) == {posted[i] : i \in {j \in OfKind(kind) : RankOf(j) \in first..last}}

ReviewInit ==
  /\ posted = <<>> /\ resolved = {} /\ replies = <<>>
  /\ handled = <<>> /\ toldReviews = <<>>
  /\ call = [c \in Callers |-> NoCall]
  /\ reviewAsks = 0 /\ reviewFaults = 0

Becomes(c, record) == call' = [call EXCEPT ![c] = record]
Advance(c, at) == call' = [call EXCEPT ![c].at = at]
Mended == UNCHANGED reviewFaults
Breaks == reviewFaults < MaxReviewFaults /\ reviewFaults' = reviewFaults + 1
Off(c) == Breaks /\ Advance(c, "failed")
Unasked == UNCHANGED reviewAsks

\* A reviewer posts what has not been posted.
PostArtifact ==
  /\ \E a \in Artifacts \ Range(posted) : posted' = Append(posted, a)
  /\ UNCHANGED <<resolved, replies, handled, toldReviews, call, reviewAsks, reviewFaults>>

\* The four methods; a call that fails may be made again.  An artifact is named
\* by whoever has read it.
AskReview(c) ==
  /\ CallOver(c) /\ reviewAsks < MaxReviewAsks /\ reviewAsks' = reviewAsks + 1
  /\ \/ Becomes(c, [op |-> "read", at |-> "issue", got |-> {}, since |-> Range(posted)])
     \/ \E a \in Range(posted), s \in MarkStatuses :
          Becomes(c, [op |-> "mark", id |-> a, status |-> s, page |-> 0, lost |-> FALSE,
                      at |-> IF s = "Addressed" /\ KindOf[a] = "thread" THEN "lookup" ELSE "append"])
     \/ \E a \in Range(posted) : Becomes(c, [op |-> "reply", at |-> "post", id |-> a])
     \/ Becomes(c, [op |-> "review", at |-> "codex", found |-> 0])
  /\ UNCHANGED <<posted, resolved, replies, handled, toldReviews, reviewFaults>>

\* Faulty variant: a review without a text is an artifact too.
TakenOf(kind) == Ranked(kind, 1, ListPage)

\* gh api asks for one page of a list; reviews without a text are left out.
Listed(kind) ==
  {a \in Ranked(kind, 1, ListPage) : kind = "summary" => a \notin Blank}

\* read_pr_comments: one list after another.
ReadList(c) ==
  /\ call[c].op = "read" /\ call[c].at \in Range(Kinds)
  /\ \/ /\ call' = [call EXCEPT
              ![c].got = @ \union Listed(call[c].at),
              ![c].at = CASE @ = "issue" -> "thread" [] @ = "thread" -> "summary" [] OTHER -> "answered"]
        /\ Mended
     \/ Off(c)
  /\ UNCHANGED <<posted, resolved, replies, handled, toldReviews>> /\ Unasked

\* Faulty variant: the first answer of the query is all that is looked at.
PagesOnce(page) == FALSE

\* hasNextPage
HasNext(page) == Cardinality(OfKind("thread")) > (page + 1) * ThreadPage

\* find_review_thread_id_for_comment: page after page until the comment is
\* found.  One that is not, and a lookup that fails, are only logged.
LookUp(c) ==
  /\ call[c].at = "lookup"
  /\ LET from == call[c].page * ThreadPage
     IN \/ /\ IF call[c].id \in Ranked("thread", from + 1, from + ThreadPage)
              THEN Advance(c, "resolve")
              ELSE IF HasNext(call[c].page) THEN call' = [call EXCEPT ![c].page = @ + 1]
              ELSE Advance(c, "append")
           /\ Mended
        \/ Breaks /\ call' = [call EXCEPT ![c].at = "append", ![c].lost = TRUE]
  /\ UNCHANGED <<posted, resolved, replies, handled, toldReviews>> /\ Unasked

\* resolve_review_thread: a failure, be it of the answer alone, is only logged.
ResolveThread(c) ==
  /\ call[c].at = "resolve"
  /\ \/ resolved' = resolved \union {call[c].id} /\ Advance(c, "append") /\ Mended
     \/ /\ resolved' \in {resolved, resolved \union {call[c].id}}
        /\ Breaks /\ call' = [call EXCEPT ![c].at = "append", ![c].lost = TRUE]
  /\ UNCHANGED <<posted, replies, handled, toldReviews>> /\ Unasked

Mark(c) == [id |-> call[c].id, status |-> call[c].status]

\* Faulty variant: the line is written once the event is out.
AppendLate(c) ==
  /\ call[c].at = "append" /\ Advance(c, "publish") /\ Mended
  /\ UNCHANGED <<posted, resolved, replies, handled, toldReviews>> /\ Unasked

\* append_handled_artifact
AppendHandled(c) ==
  /\ call[c].at = "append"
  /\ \/ handled' = Append(handled, Mark(c)) /\ Advance(c, "publish") /\ Mended
     \/ UNCHANGED handled /\ Off(c)
  /\ UNCHANGED <<posted, resolved, replies, toldReviews>> /\ Unasked

\* journal.review-artifact.handled
TellHandled(c) ==
  /\ call[c].at = "publish" /\ call[c].op = "mark"
  /\ \/ toldReviews' = Append(toldReviews, Mark(c)) /\ Advance(c, "answered") /\ Mended
     \/ UNCHANGED toldReviews /\ Off(c)
  /\ UNCHANGED <<posted, resolved, replies, handled>> /\ Unasked

\* reply_to_comment: what fails may be on GitHub nevertheless.
PostReply(c) ==
  /\ call[c].at = "post"
  /\ \/ replies' = Append(replies, call[c].id) /\ Advance(c, "answered") /\ Mended
     \/ replies' \in {replies, Append(replies, call[c].id)} /\ Off(c)
  /\ UNCHANGED <<posted, resolved, handled, toldReviews>> /\ Unasked

\* request_review: codex says something or nothing.
RunCodex(c) ==
  /\ call[c].at = "codex"
  /\ \/ call' = [call EXCEPT ![c].found = 1, ![c].at = "publish"] /\ Mended
     \/ Advance(c, "answered") /\ Mended
     \/ Off(c)
  /\ UNCHANGED <<posted, resolved, replies, handled, toldReviews>> /\ Unasked

\* publish_review_received
TellReview(c) ==
  /\ call[c].at = "publish" /\ call[c].op = "review"
  /\ \/ toldReviews' = Append(toldReviews, [id |-> c, status |-> "review-received"]) /\ Advance(c, "answered") /\ Mended
     \/ UNCHANGED toldReviews /\ Off(c)
  /\ UNCHANGED <<posted, resolved, replies, handled>> /\ Unasked

ReviewNext ==
  \/ PostArtifact
  \/ \E c \in Callers :
       AskReview(c) \/ ReadList(c) \/ LookUp(c) \/ ResolveThread(c) \/ AppendHandled(c)
       \/ TellHandled(c) \/ PostReply(c) \/ RunCodex(c) \/ TellReview(c)

ReviewSpec == ReviewInit /\ [][ReviewNext]_reviewVars
-----------------------------------------------------------------------------

ReviewTypeOK ==
  /\ IsInjective(posted) /\ resolved \subseteq {posted[i] : i \in OfKind("thread")}
  /\ Range(replies) \subseteq Range(posted)
  /\ Range(handled) \subseteq [id : Artifacts, status : MarkStatuses]
  /\ reviewAsks <= MaxReviewAsks /\ reviewFaults <= MaxReviewFaults

\* What read-pr-comments answers was on GitHub, and all that was there when it
\* was asked is in it, as far as one page of each list reaches, but for reviews
\* without a text.
ReadIsCurrent ==
  \A c \in Callers : call[c].op = "read" /\ call[c].at = "answered" =>
    /\ call[c].got \subseteq Range(posted)
    /\ \A a \in call[c].got : KindOf[a] = "summary" => a \notin Blank
    /\ \A a \in call[c].since :
         a \in call[c].got \/ a \in Blank \/ a \notin Ranked(KindOf[a], 1, ListPage)

\* A mark is told only if it is in the file, an answered one is both, and its
\* thread is resolved unless gh failed, wherever in the list it is; no thread is
\* resolved but by a mark (mark_review_artifact_handled).
MarksAreKept ==
  /\ \A mark \in Range(toldReviews) : mark.status # "review-received" => mark \in Range(handled)
  /\ \A c \in Callers : call[c].op = "mark" /\ call[c].at = "answered" =>
       /\ Mark(c) \in Range(toldReviews)
       /\ call[c].status = "Addressed" /\ KindOf[call[c].id] = "thread" =>
            call[c].lost \/ call[c].id \in resolved
  /\ \A a \in resolved :
       \/ [id |-> a, status |-> "Addressed"] \in Range(handled)
       \/ \E c \in Callers : call[c].op = "mark" /\ call[c].id = a /\ ~CallOver(c)
       \/ reviewFaults > 0
  /\ \A c \in Callers : call[c].op = "review" /\ call[c].at = "answered" /\ call[c].found = 1 =>
       [id |-> c, status |-> "review-received"] \in Range(toldReviews)
=============================================================================
