------------------------------ MODULE Routing ------------------------------
(***************************************************************************)
(* How one AI review comes about: the heuristic class of the diff, the     *)
(* vote of its neighbours in the vector store, the expert model that class *)
(* is routed to, its samples, and their merging into one review.           *)
(*                                                                         *)
(* Source: backend/app/services/ai_router.py, the voting and retrieval of  *)
(* services/rag_store.py, the caps of services/classifier.py, the fallback *)
(* of services/ai_service.py.  A diff is its signals, a comment the set of *)
(* its words, a severity its rank.                                         *)
(***************************************************************************)
EXTENDS Integers, FiniteSets, SequencesExt

CONSTANTS
  Diff,           \* the diffs reviewed: sets of signals, see Signals
  Reply,         \* what a model may answer: severity, suggestions
  FileRank,       \* the alphabetical rank of each file
  PrimaryHits,    \* results of the project's own collection, best first
  SecondaryHits,  \* results of the seeded collection
  TopK,           \* neighbours that count (5)
  MinPrimary,     \* results below which the seeded collection is asked (2)
  Samples,        \* parallel calls of one expert (3)
  Configured      \* TRUE: settings hold a key for OpenRouter

Category == {"functional", "refactoring", "documentation", "discussion", "false_positive"}
Severity == 0..3           \* low, medium, high, critical
Medium == 1

\* What classify_diff looks for in a diff.
Signals == [blank : BOOLEAN, generated : BOOLEAN, whitespace : BOOLEAN, docFiles : Nat,
            configFiles : Nat, logic : Nat, moves : Nat, prose : Nat, added : Nat, removed : Nat]

\* What a sample proposes: a place in a file, a severity, a comment.
Suggestion == [place : (DOMAIN FileRank) \X Nat, severity : Severity, words : SUBSET Nat]

\* A stored review that a search finds, by its score and its class.
Neighbour == [score : Int, category : Category \cup {"unknown"}]

ASSUME RoutingAssumption ==
  /\ Samples \in Nat \ {0} /\ TopK \in Nat /\ MinPrimary \in Nat /\ Diff \subseteq Signals
  /\ PrimaryHits \subseteq Seq(Neighbour) /\ SecondaryHits \subseteq Seq(Neighbour)
  /\ FileRank \in [DOMAIN FileRank -> Nat]
  /\ \A a \in Reply : ~a.failed /\ a.severity \in Severity /\ a.suggestions \in Seq(Suggestion)

VARIABLES
  step,           \* where the review is
  category,       \* the class it is routed by
  answers,        \* what each sample answered so far
  outcome         \* the RoutedReviewResult

routeVars == <<step, category, answers, outcome>>

NoOutcome == [from |-> "nobody", severity |-> 0, suggestions |-> <<>>, used |-> 0]
Failed == [failed |-> TRUE, severity |-> Medium, suggestions |-> <<>>]

-----------------------------------------------------------------------------
(* classify_diff: scores in halves of a point; the first of equals wins. *)

Capped(n) == IF n > 5 THEN 5 ELSE n
Score(d) ==
  [functional    |-> 2 * Capped(d.logic) + (IF d.removed = 0 /\ d.added > 5 THEN 2 ELSE 0),
   refactoring   |-> 3 * Capped(d.moves) +
                     (IF d.added > 0 /\ d.removed > 0 /\
                         10 * (IF d.added < d.removed THEN d.added ELSE d.removed)
                           > 6 * (IF d.added < d.removed THEN d.removed ELSE d.added)
                      THEN 3 ELSE 0),
   documentation |-> 4 * d.docFiles + 2 * Capped(d.prose),
   discussion    |-> 4 * d.configFiles]

InOrder == <<"functional", "refactoring", "documentation", "discussion">>

ClassifyDiff(d) ==
  IF d.blank \/ d.generated \/ d.whitespace THEN "false_positive"
  ELSE LET best == CHOOSE i \in DOMAIN InOrder :
                     /\ \A j \in DOMAIN InOrder : Score(d)[InOrder[j]] <= Score(d)[InOrder[i]]
                     /\ \A j \in 1..(i - 1) : Score(d)[InOrder[j]] < Score(d)[InOrder[i]]
       IN  InOrder[best]

(* retrieve_context and _majority_vote_category *)

\* The sequence of a set's elements in a strict total order, as sort gives it:
\* at place i the element that i - 1 others precede.
Ranked(S, Before(_, _)) ==
  [i \in 1..Cardinality(S) |->
     CHOOSE x \in S : Cardinality({y \in S : Before(y, x)}) = i - 1]

\* The seeded collection helps out where the project's own has too little.
Hits(primary, secondary) ==
  IF Len(primary) < MinPrimary THEN primary \o secondary ELSE primary

\* all_hits.sort(reverse=True) is stable; the best TopK are kept.
ByScore(hits, a, b) == hits[a].score > hits[b].score \/ (hits[a].score = hits[b].score /\ a < b)
Neighbours(primary, secondary) ==
  LET hits == Hits(primary, secondary)
      order == Ranked(DOMAIN hits, LAMBDA a, b : ByScore(hits, a, b))
  IN  [i \in 1..(IF Len(hits) < TopK THEN Len(hits) ELSE TopK) |-> hits[order[i]]]

Votes(ns, c) == Cardinality({i \in DOMAIN ns : ns[i].category = c})

\* A plurality; of equals the first in the alphabet, which is their rank here.
Alphabet == <<"discussion", "documentation", "false_positive", "functional", "refactoring", "unknown">>
Vote(ns) ==
  LET leads(i) == \A j \in DOMAIN Alphabet : Votes(ns, Alphabet[j]) <= Votes(ns, Alphabet[i])
  IN  Alphabet[CHOOSE i \in DOMAIN Alphabet : leads(i) /\ \A j \in 1..(i - 1) : ~leads(j)]

\* Three neighbours are enough to replace the heuristic by a known category.
Override(heuristic, ns) ==
  IF Len(ns) >= 3 /\ Vote(ns) \in Category THEN Vote(ns) ELSE heuristic

(* The routing table with the cap for small models *)

Expert(c) == IF c \in {"documentation", "discussion"} THEN "mistral" ELSE "qwen"

\* clamp_severity_for_category: a coding model's severity for prose.
Clamp(c, model, severity) ==
  IF c \in {"documentation", "discussion"} /\ model = "qwen" /\ severity > Medium
  THEN Medium ELSE severity

(* Merging the samples *)

Among(as) == {i \in DOMAIN as : ~as[i].failed}

\* _majority_severity: the most frequent, of equals the higher one.
Frequency(as, s) == Cardinality({i \in Among(as) : as[i].severity = s})
MajoritySeverity(as) ==
  LET leading == {s \in Severity : \A t \in Severity : Frequency(as, t) <= Frequency(as, s)}
  IN  CHOOSE s \in leading : \A t \in leading : t <= s

AllSuggestions(as) ==
  FlattenSeq([i \in DOMAIN as |-> IF as[i].failed THEN <<>> ELSE as[i].suggestions])

\* A comment is dropped when four fifths of its words occur in one that is kept.
Repeats(words, kept) ==
  \E i \in DOMAIN kept :
    10 * Cardinality(words \cap kept[i]) >= 8 * (IF words = {} THEN 1 ELSE Cardinality(words))
KeepComment(kept, words) == IF Repeats(words, kept) THEN kept ELSE Append(kept, words)

\* The suggestions of a group, by their index, and the comments kept of it.
At(all, place) == {i \in DOMAIN all : all[i].place = place}
Comments(all, place) ==
  FoldLeft(LAMBDA kept, s : IF s.place = place THEN KeepComment(kept, s.words) ELSE kept, <<>>, all)

First(all, place) == CHOOSE i \in At(all, place) : \A j \in At(all, place) : i <= j
\* Fault: a group keeps the severity of its first suggestion.
HighestOf_First(all, place) == all[First(all, place)].severity
HighestOf(all, place) ==
  CHOOSE s \in {all[i].severity : i \in At(all, place)} :
    \A i \in At(all, place) : all[i].severity <= s

\* _deduplicate_suggestions: one suggestion per place, critical ones first,
\* then by file, then in the order in which the places came up.
Merged(all) ==
  {[place |-> p, severity |-> HighestOf(all, p), comments |-> Comments(all, p)]
    : p \in {all[i].place : i \in DOMAIN all}}
Precedes(all, a, b) ==
  \/ a.severity > b.severity
  \/ a.severity = b.severity /\ FileRank[a.place[1]] < FileRank[b.place[1]]
  \/ a.severity = b.severity /\ FileRank[a.place[1]] = FileRank[b.place[1]]
     /\ First(all, a.place) < First(all, b.place)
Deduplicate(all) == Ranked(Merged(all), LAMBDA a, b : Precedes(all, a, b))

-----------------------------------------------------------------------------
(* route_and_review *)

RouteInit == step = "classify" /\ category = "functional" /\ answers = <<>> /\ outcome = NoOutcome

Finished(o) == step' = "done" /\ outcome' = o

\* An empty diff is answered before anything else.
EmptyDiff(d) ==
  /\ step = "classify" /\ d.blank
  /\ category' = "false_positive"
  /\ Finished([NoOutcome EXCEPT !.from = "none"])
  /\ UNCHANGED answers

Classify(d) ==
  /\ step = "classify" /\ ~d.blank
  /\ category' = ClassifyDiff(d)
  /\ step' = "retrieve"
  /\ UNCHANGED <<answers, outcome>>

\* The neighbours vote; without the vector store the heuristic stands.
Retrieve(primary, secondary) ==
  /\ step = "retrieve"
  /\ category' = Override(category, Neighbours(primary, secondary))
  /\ step' = "route"
  /\ UNCHANGED <<answers, outcome>>

RetrievalFails ==
  /\ step = "retrieve"
  /\ step' = "route"
  /\ UNCHANGED <<category, answers, outcome>>

SkipFalsePositive ==
  /\ step = "route" /\ category = "false_positive"
  /\ Finished([NoOutcome EXCEPT !.from = "classifier"])
  /\ UNCHANGED <<category, answers>>

AskExperts ==
  /\ step = "route" /\ category # "false_positive"
  /\ step' = IF Configured THEN "sample" ELSE "fallback"
  /\ UNCHANGED <<category, answers, outcome>>

\* One of the calls gathered by _run_k_experts answers, or fails alone.
Sample(a) ==
  /\ step = "sample" /\ Len(answers) < Samples
  /\ answers' = Append(answers, a)
  /\ UNCHANGED <<step, category, outcome>>

Merge ==
  /\ step = "sample" /\ Len(answers) = Samples /\ Among(answers) # {}
  /\ Finished([from |-> Expert(category), used |-> Cardinality(Among(answers)),
               severity |-> Clamp(category, Expert(category), MajoritySeverity(answers)),
               suggestions |-> Deduplicate(AllSuggestions(answers))])
  /\ UNCHANGED <<category, answers>>

AllFailed ==
  /\ step = "sample" /\ Len(answers) = Samples /\ Among(answers) = {}
  /\ step' = "fallback"
  /\ UNCHANGED <<category, answers, outcome>>

\* _call_claude_fallback: every severity is medium, no line is named.
Fallback(a) ==
  /\ step = "fallback"
  /\ Finished([from |-> "claude", used |-> 1, severity |-> Clamp(category, "claude", Medium),
               suggestions |-> [i \in DOMAIN a.suggestions |->
                  [place |-> <<a.suggestions[i].place[1], 0>>, severity |-> Medium,
                   comments |-> <<a.suggestions[i].words>>]]])
  /\ UNCHANGED <<category, answers>>

\* The fallback raised: generate_pr_review_task gives up.
FallbackFails ==
  /\ step = "fallback"
  /\ Finished([NoOutcome EXCEPT !.from = "error"])
  /\ UNCHANGED <<category, answers>>

RouteNext ==
  \/ \E d \in Diff : EmptyDiff(d) \/ Classify(d)
  \/ \E p \in PrimaryHits, s \in SecondaryHits : Retrieve(p, s)
  \/ RetrievalFails \/ SkipFalsePositive \/ AskExperts
  \/ \E a \in Reply \cup {Failed} : Sample(a)
  \/ Merge \/ AllFailed
  \/ \E a \in Reply : Fallback(a)
  \/ FallbackFails

RouteSpec == RouteInit /\ [][RouteNext]_routeVars

-----------------------------------------------------------------------------
RouteTypeOK ==
  /\ step \in {"classify", "retrieve", "route", "sample", "fallback", "done"}
  /\ category \in Category
  /\ \A i \in DOMAIN answers : answers[i] \in Reply \cup {Failed}
  /\ outcome.severity \in Severity /\ outcome.used \in 0..Samples

\* A merged review loses nothing of what the samples found: every place that
\* was commented occurs once, as severe as the most severe sample has it,
\* with at least one of its comments, the most severe places first.
MergedCoversAll ==
  (step = "done" /\ outcome.from \in {"qwen", "mistral"}) =>
    LET all == AllSuggestions(answers)
        out == outcome.suggestions
    IN  /\ {out[i].place : i \in DOMAIN out} = {all[i].place : i \in DOMAIN all}
        /\ \A i, j \in DOMAIN out : i < j =>
              out[i].place # out[j].place /\ out[i].severity >= out[j].severity
        /\ \A i \in DOMAIN out :
              /\ out[i].comments # <<>>
              /\ \E k \in DOMAIN all : all[k].place = out[i].place /\ all[k].severity = out[i].severity
              /\ \A k \in DOMAIN all : all[k].place = out[i].place =>
                                         all[k].severity <= out[i].severity

=============================================================================
