------------------------------ MODULE Reviews ------------------------------
(***************************************************************************)
(* The stored AI review of one pull request: the Celery task that writes   *)
(* it, the task that puts it into the vector store, and the task that puts *)
(* in again what is stored.                                                *)
(*                                                                         *)
(* Source: backend/app/worker/tasks/ai_tasks.py, worker/tasks/rag_tasks.py,*)
(* services/rag_store.py (index_review) and the AI routes of               *)
(* backend/app/api/v1/pulls.py.  Nothing but the code keeps a pull request *)
(* to one row: ai_review_results has no unique constraint.  What a review  *)
(* says is chosen by the module Routing; here a review is its number.  The *)
(* judge is left out: it adds its scores to the row it read, by its id, and*)
(* nothing here reads them.                                                *)
(***************************************************************************)
EXTENDS Naturals, FiniteSets

CONSTANTS
  Reviewer,       \* worker processes that generate reviews, numbered
  Indexer,        \* worker processes that index them, numbered
  MaxTriggers,    \* bound: reviews asked for
  MaxReviews,     \* bound: reviews written
  MaxHeads,       \* bound: different diffs of the pull request
  MaxLost         \* bound: workers lost

ASSUME ReviewsAssumption ==
  /\ Reviewer \subseteq Nat /\ IsFiniteSet(Reviewer) /\ Indexer \subseteq Nat
  /\ MaxTriggers \in Nat /\ MaxReviews \in Nat /\ MaxHeads \in Nat \ {0}
  /\ MaxLost \in Nat

VARIABLES
  head,           \* the diff of the pull request now
  reviews,        \* ai_review_results of the pull request
  written,        \* how many were ever written
  triggered,      \* how often a review was asked for
  requests,       \* generate_pr_review_task messages in the queue
  reviewer,       \* what each reviewer is doing
  raced,          \* TRUE once two tasks wrote from overlapping reads
  indexing,       \* index_pr_review_task messages in the queue
  indexer,        \* what each indexer is doing
  points,         \* vector store: the review behind the point of each diff, 0 for none
  shuffled,       \* TRUE once two index tasks overlapped or one failed
  merged,         \* the pull request was merged
  lost,           \* workers lost
  rebuilding,     \* the rows a rebuild of the index has selected and not come to yet
  gone            \* the repository was deleted, and with it its pull requests

reviewVars == <<head, reviews, written, triggered, requests, reviewer, raced, indexing, indexer,
                points, shuffled, merged, lost, rebuilding, gone>>
index == <<indexing, indexer, points, shuffled, rebuilding>>

\* `diff` is routing_metadata.diff_text_snippet, the first 2000 characters of
\* the diff: 0 where an early exit left none.  `text`: there is a summary or a
\* suggestion.
Review == [id : 1..MaxReviews, diff : 0..MaxHeads, text : BOOLEAN]
Selected == [id : 1..MaxReviews, diff : 1..MaxHeads]
Copy(r) == [id |-> r.id, diff |-> r.diff]
NoReview == [id |-> 0, diff |-> 0, text |-> FALSE]
Free == [phase |-> "free", diff |-> 0, seen |-> {}]
Resting == [phase |-> "free", diff |-> 0, id |-> 0]

ReviewsInit ==
  /\ head = 1 /\ reviews = {} /\ written = 0 /\ triggered = 0 /\ requests = 0
  /\ reviewer = [w \in Reviewer |-> Free] /\ raced = FALSE
  /\ indexing = 0 /\ indexer = [w \in Indexer |-> Resting]
  /\ points = [d \in 1..MaxHeads |-> 0] /\ shuffled = FALSE
  /\ merged = FALSE /\ lost = 0
  /\ rebuilding = {} /\ gone = FALSE

\* All workers are alike: the first that is free takes the message.
FirstFree(worker, w) ==
  worker[w].phase = "free" /\ \A v \in DOMAIN worker : v < w => worker[v].phase # "free"

\* A push to either branch.
ChangeDiff ==
  /\ ~gone /\ head < MaxHeads
  /\ head' = head + 1
  /\ UNCHANGED <<reviews, written, triggered, requests, reviewer, raced, index, merged, lost, gone>>

\* Deleting the repository takes the rows of its pull requests with it; what
\* the vector store has of them stays.
DropRepository ==
  /\ ~gone /\ gone' = TRUE
  /\ reviews' = {}
  /\ UNCHANGED <<head, written, triggered, requests, reviewer, raced, index, merged, lost>>

\* trigger_ai_review: nothing stops a second one while the first is under way.
TriggerReview ==
  /\ ~gone /\ triggered < MaxTriggers
  /\ triggered' = triggered + 1 /\ requests' = requests + 1
  /\ UNCHANGED <<head, reviews, written, reviewer, raced, index, merged, lost, gone>>

(***************************************************************************)
(* generate_pr_review_task                                                 *)
(***************************************************************************)
\* The diff is taken now; the models answer later.  Without the pull request
\* or its repository the task is over.
TakeReview(w) ==
  /\ requests > 0 /\ FirstFree(reviewer, w)
  /\ requests' = requests - 1
  /\ reviewer' = IF gone THEN reviewer
                 ELSE [reviewer EXCEPT ![w] = [phase |-> "routing", diff |-> head, seen |-> {}]]
  /\ UNCHANGED <<head, reviews, written, triggered, raced, index, merged, lost, gone>>

\* No diff, a model failed, or the commit raised: the task ends and is
\* acknowledged; no retry is ever raised.
ReviewFails(w) ==
  /\ reviewer[w].phase \in {"routing", "writing"}
  /\ reviewer' = [reviewer EXCEPT ![w] = Free]
  /\ UNCHANGED <<head, reviews, written, triggered, requests, raced, index, merged, lost, gone>>

Numbers == {r.id : r \in reviews}

\* Whether the routing stored a snippet; then the stale rows are selected.
SelectStale(w, snippet) ==
  /\ reviewer[w].phase = "routing"
  /\ reviewer' = [reviewer EXCEPT ![w].phase = "writing", ![w].seen = Numbers,
                                  ![w].diff = IF snippet THEN @ ELSE 0]
  /\ raced' = (raced \/ \E v \in Reviewer \ {w} : reviewer[v].phase = "writing")
  /\ UNCHANGED <<head, reviews, written, triggered, requests, index, merged, lost, gone>>

\* The early exits, which store no snippet, have a summary of their own.
NewReview(w, text) ==
  [id |-> written + 1, diff |-> reviewer[w].diff, text |-> text \/ reviewer[w].diff = 0]

\* A rebuild of the index still has to come to an older review of the diff.
Overtakes(w) == \E b \in rebuilding : b.diff = reviewer[w].diff

\* Fault: the stale rows are left in place.
CommitReview_Keeps(w, text) ==
  /\ reviewer[w].phase = "writing" /\ written < MaxReviews /\ ~gone
  /\ reviews' = reviews \cup {NewReview(w, text)}
  /\ written' = written + 1
  /\ reviewer' = [reviewer EXCEPT ![w].phase = "dispatching"]
  /\ shuffled' = (shuffled \/ Overtakes(w))
  /\ UNCHANGED <<head, triggered, requests, raced, indexing, indexer, points, rebuilding,
                 merged, lost, gone>>

\* What it saw is deleted (a row that is gone already is only warned about)
\* and the new row inserted, in one transaction; the pull request its foreign
\* key names has to be there.
CommitReview(w, text) ==
  /\ reviewer[w].phase = "writing" /\ written < MaxReviews /\ ~gone
  /\ reviews' = {r \in reviews : r.id \notin reviewer[w].seen} \cup {NewReview(w, text)}
  /\ written' = written + 1
  /\ reviewer' = [reviewer EXCEPT ![w].phase = "dispatching"]
  /\ shuffled' = (shuffled \/ Overtakes(w))
  /\ UNCHANGED <<head, triggered, requests, raced, indexing, indexer, points, rebuilding,
                 merged, lost, gone>>

\* index_pr_review_task is queued; a broker that refuses it is only logged.
DispatchIndex(w, sent) ==
  /\ reviewer[w].phase = "dispatching"
  /\ indexing' = IF sent THEN indexing + 1 ELSE indexing
  /\ shuffled' = (shuffled \/ ~sent)
  /\ reviewer' = [reviewer EXCEPT ![w] = Free]
  /\ UNCHANGED <<head, reviews, written, triggered, requests, raced, indexer, points, rebuilding,
                 merged, lost, gone>>

\* acks_late: the message of a lost worker is delivered again, also when the
\* row was committed already.
ReviewerLost(w) ==
  /\ lost < MaxLost /\ reviewer[w].phase # "free"
  /\ lost' = lost + 1
  /\ requests' = requests + 1
  /\ reviewer' = [reviewer EXCEPT ![w] = Free]
  /\ shuffled' = (shuffled \/ reviewer[w].phase = "dispatching")
  /\ UNCHANGED <<head, reviews, written, triggered, raced, indexing, indexer, points, rebuilding,
                 merged, gone>>

\* merge_pull asks for the index too, whether there is a review or not.
MergeIndexes(sent) ==
  /\ ~gone /\ ~merged /\ merged' = TRUE
  /\ indexing' = IF sent THEN indexing + 1 ELSE indexing
  /\ UNCHANGED <<head, reviews, written, triggered, requests, reviewer, raced, indexer, points,
                 shuffled, lost, rebuilding, gone>>

(***************************************************************************)
(* index_pr_review_task                                                    *)
(***************************************************************************)
\* What an index task reads of the review: the only row, or none.
FoundReview == IF reviews = {} THEN {NoReview} ELSE reviews

\* It has a text and a diff: the review's, or else (`found`) the comments or the
\* description of the pull request, and the diff that git gives now.
Indexable(r, found) == (r.text /\ r.diff # 0) \/ found

\* Fault: the diff is always taken as it is now.
TakeIndex_DiffNow(w, found) ==
  /\ indexing > 0 /\ FirstFree(indexer, w)
  /\ indexing' = indexing - 1
  /\ IF gone \/ Cardinality(reviews) > 1 THEN UNCHANGED indexer
     ELSE \E r \in FoundReview :
             indexer' = IF ~Indexable(r, found) THEN indexer
                        ELSE [indexer EXCEPT ![w] = [phase |-> "embedding", id |-> r.id, diff |-> head]]
  /\ shuffled' = (shuffled \/ \E v \in Indexer : indexer[v].phase # "free")
  /\ UNCHANGED <<head, reviews, written, triggered, requests, reviewer, raced, points, merged, lost,
                 rebuilding, gone>>

\* It reads the only row; two rows make scalar_one_or_none raise, and the
\* task is over, as it is without a pull request, a text or a diff.  Without a
\* row or a snippet it takes the diff as it is now.
TakeIndex(w, found) ==
  /\ indexing > 0 /\ FirstFree(indexer, w)
  /\ indexing' = indexing - 1
  /\ IF gone \/ Cardinality(reviews) > 1 THEN UNCHANGED indexer
     ELSE \E r \in FoundReview :
             indexer' = IF ~Indexable(r, found) THEN indexer
                        ELSE [indexer EXCEPT ![w] =
                [phase |-> "embedding", id |-> r.id, diff |-> IF r.diff = 0 THEN head ELSE r.diff]]
  /\ shuffled' = (shuffled \/ \E v \in Indexer : indexer[v].phase # "free")
  /\ UNCHANGED <<head, reviews, written, triggered, requests, reviewer, raced, points, merged, lost,
                 rebuilding, gone>>

\* The point's id is a hash of repository and diff: the upsert overwrites.
\* index_review answers FALSE for every error, and the task only logs it.
Upsert(w, ok) ==
  /\ indexer[w].phase = "embedding"
  /\ points' = IF ok THEN [points EXCEPT ![indexer[w].diff] = indexer[w].id] ELSE points
  /\ shuffled' = (shuffled \/ ~ok)
  /\ indexer' = [indexer EXCEPT ![w] = Resting]
  /\ UNCHANGED <<head, reviews, written, triggered, requests, reviewer, raced, indexing, merged, lost,
                 rebuilding, gone>>

IndexerLost(w) ==
  /\ lost < MaxLost /\ indexer[w].phase # "free"
  /\ lost' = lost + 1
  /\ indexing' = indexing + 1
  /\ indexer' = [indexer EXCEPT ![w] = Resting]
  /\ UNCHANGED <<head, reviews, written, triggered, requests, reviewer, raced, points, shuffled, merged,
                 rebuilding, gone>>

(***************************************************************************)
(* rebuild_rag_index_task, one at a time: all rows are selected first, and *)
(* then embedded and written from that copy one by one.                    *)
(***************************************************************************)
\* Rows without a snippet are skipped; of a row its number and diff are kept,
\* which decide what point it overwrites and with what.
SelectRows ==
  /\ rebuilding = {}
  /\ rebuilding' = {Copy(r) : r \in {r \in reviews : r.diff # 0}}
  /\ UNCHANGED <<head, reviews, written, triggered, requests, reviewer, raced, indexing, indexer,
                 points, shuffled, merged, lost, gone>>

\* A row that cannot be embedded or written is only counted.
RebuildRow(ok) ==
  /\ \E b \in rebuilding :
        /\ rebuilding' = rebuilding \ {b}
        /\ points' = IF ok THEN [points EXCEPT ![b.diff] = b.id] ELSE points
  /\ UNCHANGED <<head, reviews, written, triggered, requests, reviewer, raced, indexing, indexer,
                 shuffled, merged, lost, gone>>

\* The task is delivered again and starts from a new selection.
RebuilderLost ==
  /\ lost < MaxLost /\ rebuilding # {}
  /\ lost' = lost + 1
  /\ rebuilding' = {}
  /\ UNCHANGED <<head, reviews, written, triggered, requests, reviewer, raced, indexing, indexer,
                 points, shuffled, merged, gone>>

ReviewsNext ==
  \/ ChangeDiff \/ DropRepository \/ TriggerReview \/ \E b \in BOOLEAN : MergeIndexes(b)
  \/ \E w \in Reviewer :
       \/ TakeReview(w) \/ ReviewFails(w) \/ ReviewerLost(w)
       \/ \E b \in BOOLEAN : SelectStale(w, b) \/ CommitReview(w, b) \/ DispatchIndex(w, b)
  \/ \E w \in Indexer :
       \/ IndexerLost(w) \/ \E b \in BOOLEAN : TakeIndex(w, b) \/ Upsert(w, b)
  \/ SelectRows \/ RebuilderLost \/ \E ok \in BOOLEAN : RebuildRow(ok)

ReviewsSpec == ReviewsInit /\ [][ReviewsNext]_reviewVars

-----------------------------------------------------------------------------
ReviewsTypeOK ==
  /\ head \in 1..MaxHeads /\ reviews \subseteq Review /\ written \in 0..MaxReviews
  /\ triggered \in 0..MaxTriggers /\ requests \in 0..(MaxTriggers + MaxLost)
  /\ reviewer \in [Reviewer -> [phase : {"free", "routing", "writing", "dispatching"},
                                diff : 0..MaxHeads, seen : SUBSET (1..MaxReviews)]]
  /\ raced \in BOOLEAN /\ shuffled \in BOOLEAN
  /\ indexing \in 0..(MaxReviews + MaxLost + 1) /\ merged \in BOOLEAN
  /\ indexer \in [Indexer -> [phase : {"free", "embedding"}, diff : 0..MaxHeads, id : 0..MaxReviews]]
  /\ points \in [1..MaxHeads -> 0..MaxReviews]
  /\ lost \in 0..MaxLost
  /\ rebuilding \subseteq Selected /\ gone \in BOOLEAN

\* A pull request has one stored review, which the page, the judge and the
\* index task need to read it at all, unless two tasks wrote at the same
\* time: redelivered and repeated tasks replace what they find.
CalmOneReview == raced \/ Cardinality(reviews) <= 1

\* Once every task has ended, the vector store holds for the reviewed diff
\* the review that is stored, if that has a text: an index task never runs
\* before its row is there, and a rebuild writes an older copy over it only
\* where the review was replaced, for the same diff, while the rebuild still
\* held that copy.  Besides that, writers or index tasks that overlapped and
\* index tasks that failed are exempt.
IndexedIsCurrent ==
  (/\ ~raced /\ ~shuffled /\ indexing = 0 /\ rebuilding = {}
   /\ \A w \in Indexer : indexer[w].phase = "free"
   /\ \A w \in Reviewer : reviewer[w].phase # "dispatching")
  => \A r \in reviews : r.diff # 0 /\ r.text => points[r.diff] = r.id

=============================================================================
