------------------------ MODULE CollaborationProofs -------------------------
(***************************************************************************)
(* Proofs about PullRequests, Issues, Reviews, Routing and Social, for any *)
(* number of forks, requests, commits, issues, workers, users and clients. *)
(***************************************************************************)
EXTENDS PullRequests, Issues, Reviews, Routing, Social, FiniteSetTheorems,
        SequenceTheorems, WellFoundedInduction, TLAPS

-----------------------------------------------------------------------------
(***************************************************************************)
(* Pull requests and merging                                               *)
(***************************************************************************)

(* Numbers *)

\* A set of numbers with a bound has a largest element: the least of its bounds.
LEMMA Largest ==
  ASSUME NEW S \in SUBSET Nat, S # {}, NEW b \in Nat, \A s \in S : s <= b
  PROVE  \E n \in S : \A s \in S : s <= n
<1> DEFINE R == {ss \in Nat \X Nat : ss[1] < ss[2]}
           T == {n \in Nat : \A s \in S : s <= n}
<1>1. IsWellFoundedOn(R, Nat)
  BY NatLessThanWellFounded DEF OpToRel
<1>2. T \subseteq Nat /\ T # {}
  OBVIOUS
<1>3. PICK n \in T : \A m \in T : <<m, n>> \notin R
  <2> HIDE DEF R, T
  <2> QED BY <1>1, <1>2, WFMin
<1>4. n \in S
  <2> SUFFICES ASSUME n \notin S PROVE FALSE
    OBVIOUS
  <2>1. PICK s \in S : s \in Nat /\ s <= n /\ s # n
    BY <1>3
  <2>2. n - 1 \in T /\ n - 1 < n /\ n \in Nat
    BY <1>3, <2>1
  <2> QED BY <1>3, <2>2
<1> QED BY <1>3, <1>4

\* Induction, for the members of a set of numbers.
LEMMA Reached ==
  ASSUME NEW S \in SUBSET Nat, 0 \in S, \A n \in S : n + 1 \in S
  PROVE  S = Nat
<1> DEFINE R == {ss \in Nat \X Nat : ss[1] < ss[2]}
           T == Nat \ S
<1>1. IsWellFoundedOn(R, Nat)
  BY NatLessThanWellFounded DEF OpToRel
<1> SUFFICES ASSUME T # {} PROVE FALSE
  OBVIOUS
<1>2. PICK n \in T : \A m \in T : <<m, n>> \notin R
  <2> HIDE DEF R
  <2> QED BY <1>1, WFMin
<1>3. n # 0 /\ n - 1 \in Nat /\ n - 1 < n
  BY <1>2
<1>4. n - 1 \in S
  BY <1>2, <1>3
<1> QED BY <1>2, <1>3, <1>4

-----------------------------------------------------------------------------
(* The invariant *)

\* Commit c merged pull request p, and the target branch reaches it.
MergedAs(p, c) == c \in main /\ \E m \in mergeOf : m.commit = c /\ m.pull = p

JobKept(j) ==
  /\ j.step \notin {"idle", "checked", "numbered"} => j.pull \in 1..inserted
  /\ j.step \in {"checked", "numbered"} => j.seen.sha = 0
  /\ j.step = "numbered" => j.seen.number <= inserted + 1
  /\ j.step = "written" => j.sha # 0 /\ MergedAs(j.pull, j.sha)
  /\ j.step = "fetched" /\ j.alone => FirstCommit[j.seen.source] \in fetchHead
  /\ j.step = "merging" /\ j.alone => FirstCommit[j.seen.source] \in j.incoming

RowKept(p, row) ==
  /\ row.number <= inserted
  /\ row.sha # 0 => MergedAs(p, row.sha)

PullsKept ==
  /\ pulls \in [PullId -> Pull] /\ inserted \in 0..MaxPulls
  /\ job \in [PullSlot -> PullJob] /\ asked \in 0..MaxPullRequests
  /\ main \subseteq PullCommit /\ topic \in [Source -> SUBSET PullCommit]
  /\ forks \subseteq Fork /\ fetchHead \subseteq PullCommit
  /\ made \in 0..MaxCommits /\ mergeOf \subseteq MergeRecord
  /\ \A p \in PullId : RowKept(p, pulls[p])
  /\ \A q \in PullSlot : JobKept(job[q])
  /\ \A s \in Source : FirstCommit[s] \in topic[s]
  /\ CalmMergeIsOwn

LEMMA EmptyJob ==
  NoPull \in Pull /\ NoJob \in PullJob /\ NoPull.sha = 0 /\ NoPull.number = 0 /\ NoJob.step = "idle"
  BY PullsAssumption DEF NoPull, NoJob, Pull, PullJob, Source

\* Only a request moves: it is at j next.
LEMMA JobMoves ==
  ASSUME PullsKept, NEW q \in PullSlot, NEW j \in PullJob, JobKept(j),
         job' = [job EXCEPT ![q] = j], asked' \in 0..MaxPullRequests,
         UNCHANGED <<pulls, inserted, forks, pullGit>>
  PROVE  PullsKept'
BY DEF PullsKept, pullGit, JobKept, RowKept, MergedAs, CalmMergeIsOwn

LEMMA JobEnds ==
  ASSUME PullsKept, NEW q \in PullSlot, Ends(q), asked' \in 0..MaxPullRequests,
         UNCHANGED <<pulls, inserted, forks, pullGit>>
  PROVE  PullsKept'
BY JobMoves, EmptyJob DEF Ends, JobKept

\* A request writes a row and ends.
LEMMA RowWritten ==
  ASSUME PullsKept, NEW q \in PullSlot, Ends(q), NEW p \in PullId, NEW row \in Pull,
         pulls' = [pulls EXCEPT ![p] = row], inserted' \in 0..MaxPulls, inserted <= inserted',
         row.number <= inserted', row.sha # 0 => MergedAs(p, row.sha),
         UNCHANGED <<asked, forks, pullGit>>
  PROVE  PullsKept'
<1>1. UNCHANGED <<main, topic, fetchHead, made, mergeOf, forks, asked>>
  BY DEF pullGit
<1>2. /\ pulls' \in [PullId -> Pull] /\ job' \in [PullSlot -> PullJob]
      /\ inserted \in Nat /\ inserted' \in Nat
  BY EmptyJob, PullsAssumption DEF PullsKept, Ends
<1>3. ASSUME NEW r \in PullId
      PROVE  RowKept(r, pulls[r])'
  <2>1. pulls[r].number <= inserted' /\ (pulls[r].sha # 0 => MergedAs(r, pulls[r].sha))
    BY <1>2 DEF PullsKept, RowKept, Pull
  <2> QED BY <1>1, <2>1 DEF PullsKept, RowKept, MergedAs
<1>4. ASSUME NEW r \in PullSlot
      PROVE  JobKept(job[r])'
  <2>1. CASE r = q
    BY <2>1, EmptyJob DEF Ends, JobKept, PullsKept
  <2>2. CASE r # q
    <3>1. job'[r] = job[r] /\ JobKept(job[r]) /\ job[r] \in PullJob
      BY <2>2 DEF Ends, PullsKept
    <3>2. job[r].seen.number \in Nat /\ job[r].pull \in Nat
      BY <3>1 DEF PullJob, Pull
    <3> QED BY <1>1, <1>2, <3>1, <3>2 DEF JobKept, MergedAs
  <2> QED BY <2>1, <2>2
<1> QED BY <1>1, <1>2, <1>3, <1>4 DEF PullsKept, CalmMergeIsOwn

-----------------------------------------------------------------------------
(* Steps *)

LEMMA NextNumberBound ==
  ASSUME PullsKept
  PROVE  NextNumber \in Nat /\ NextNumber <= inserted + 1
<1> DEFINE S == {0} \cup {pulls[p].number : p \in PullRows}
<1>1. PullRows \subseteq PullId /\ inserted \in Nat
  BY PullsAssumption DEF PullRows, PullsKept, PullId
<1>2. S \in SUBSET Nat /\ S # {} /\ \A s \in S : s <= inserted
  BY <1>1 DEF PullsKept, RowKept, Pull
<1>3. \E n \in S : \A s \in S : s <= n
  <2> HIDE DEF S
  <2> QED BY <1>1, <1>2, Largest
<1>4. \E n \in S : \A p \in PullRows : pulls[p].number <= n
  BY <1>3
<1> DEFINE m == CHOOSE n \in S : \A p \in PullRows : pulls[p].number <= n
<1>5. NextNumber = 1 + m
  BY DEF NextNumber
<1> HIDE DEF S
<1>6. m \in S
  BY <1>4
<1> HIDE DEF m
<1>7. m \in Nat /\ m <= inserted
  BY <1>2, <1>6
<1> QED BY <1>1, <1>5, <1>7

LEMMA CreateKept ==
  ASSUME PullsKept, NEW q \in PullSlot, NEW u \in Actor, NEW s \in Source, CreatePull(q, u, s)
  PROVE  PullsKept'
<1> DEFINE row == [NoPull EXCEPT !.source = s, !.author = u, !.state = "open"]
           j == [NoJob EXCEPT !.step = "checked", !.actor = u, !.seen = row]
<1>1. row \in Pull /\ row.sha = 0
  BY EmptyJob DEF NoPull, Pull, PullState
<1> HIDE DEF row
<1>2. j \in PullJob /\ j.step = "checked" /\ j.seen = row
  BY <1>1, EmptyJob DEF NoJob, PullJob
<1>3. job' = [job EXCEPT ![q] = j] /\ asked' \in 0..MaxPullRequests
  BY PullsAssumption DEF CreatePull, CheckDuplicate, Arrives, PullsKept, row
<1>4. UNCHANGED <<pulls, inserted, forks, pullGit>>
  BY DEF CreatePull
<1>5. JobKept(j)
  BY <1>1, <1>2 DEF JobKept
<1> QED BY <1>2, <1>3, <1>4, <1>5, JobMoves

LEMMA NumberKept ==
  ASSUME PullsKept, NEW q \in PullSlot, AssignNextNumber(q)
  PROVE  PullsKept'
<1> DEFINE n == NextNumber
           row == [job[q].seen EXCEPT !.number = n]
           j == [job[q] EXCEPT !.step = "numbered", !.seen = row]
<1>1. n \in Nat /\ n <= inserted + 1
  BY NextNumberBound
<1> HIDE DEF n
<1>2. job[q] \in PullJob /\ job[q].step = "checked" /\ JobKept(job[q]) /\ asked' \in 0..MaxPullRequests
  BY DEF AssignNextNumber, PullsKept
<1>3. row \in Pull /\ row.number = n /\ row.sha = 0
  BY <1>1, <1>2 DEF PullJob, Pull, JobKept
<1>4. j \in PullJob /\ j.step = "numbered" /\ j.seen = row
  BY <1>2, <1>3 DEF PullJob
<1>5. JobKept(j)
  BY <1>1, <1>3, <1>4 DEF JobKept
<1>6. UNCHANGED <<pulls, inserted, forks, pullGit>>
  BY DEF AssignNextNumber
<1>7. CASE job' = [job EXCEPT ![q].step = "numbered", ![q].seen.number = n]
  <2>1. job' = [job EXCEPT ![q] = j]
    BY <1>2, <1>7 DEF PullsKept, PullJob
  <2> QED BY <1>2, <1>4, <1>5, <1>6, <2>1, JobMoves
<1>8. CASE Ends(q)
  BY <1>2, <1>6, <1>8, JobEnds
<1> QED BY <1>7, <1>8 DEF AssignNextNumber, n

LEMMA InsertKept ==
  ASSUME PullsKept, NEW q \in PullSlot, InsertPull(q)
  PROVE  PullsKept'
<1>1. /\ job[q] \in PullJob /\ job[q].seen \in Pull /\ JobKept(job[q]) /\ job[q].step = "numbered"
      /\ inserted \in Nat /\ inserted < MaxPulls /\ asked \in 0..MaxPullRequests
  BY PullsAssumption DEF InsertPull, PullsKept, PullJob
<1>2. CASE inserted' = inserted + 1 /\ pulls' = [pulls EXCEPT ![inserted + 1] = job[q].seen]
  <2>1. /\ inserted + 1 \in PullId /\ inserted' \in 0..MaxPulls /\ inserted <= inserted'
        /\ job[q].seen.number <= inserted' /\ job[q].seen.sha = 0
    BY <1>1, <1>2, PullsAssumption DEF PullId, JobKept
  <2>2. Ends(q) /\ UNCHANGED <<asked, forks, pullGit>>
    BY DEF InsertPull
  <2> QED BY <1>1, <1>2, <2>1, <2>2, RowWritten
<1>3. CASE UNCHANGED <<pulls, inserted>>
  BY <1>1, <1>3, JobEnds DEF InsertPull
<1> QED BY <1>2, <1>3 DEF InsertPull

LEMMA EditKept ==
  ASSUME PullsKept, NEW q \in PullSlot, NEW state \in PullState, EditPull(q, state)
  PROVE  PullsKept'
<1> DEFINE p == job[q].pull
<1>1. Ends(q) /\ UNCHANGED <<inserted, forks, pullGit, asked>> /\ asked \in 0..MaxPullRequests
  BY DEF EditPull, PullsKept
<1>2. CASE UNCHANGED pulls
  BY <1>1, <1>2, JobEnds
<1>3. CASE Found(p) /\ pulls' = [pulls EXCEPT ![p].state = state,
                    ![p].closed = IF state = "closed" THEN TRUE
                                  ELSE IF job[q].seen.closed THEN FALSE ELSE @]
  <2> DEFINE closed == IF state = "closed" THEN TRUE
                       ELSE IF job[q].seen.closed THEN FALSE ELSE pulls[p].closed
             row == [pulls[p] EXCEPT !.state = state, !.closed = closed]
  <2>1. p \in PullId /\ pulls[p] \in Pull /\ RowKept(p, pulls[p]) /\ inserted \in 0..MaxPulls
    BY <1>3, PullsAssumption DEF PullsKept, Found, PullRows, PullId
  <2>2. closed \in BOOLEAN
    BY <2>1 DEF Pull
  <2>3. pulls' = [pulls EXCEPT ![p] = row]
    BY <1>3, <2>1 DEF PullsKept, Pull
  <2> HIDE DEF closed
  <2>4. row \in Pull /\ row.sha = pulls[p].sha /\ row.number = pulls[p].number
    BY <2>1, <2>2 DEF Pull
  <2> HIDE DEF row
  <2>5. row.number <= inserted' /\ (row.sha # 0 => MergedAs(p, row.sha)) /\ inserted' = inserted
    BY <1>1, <2>1, <2>4 DEF RowKept
  <2>6. inserted' \in 0..MaxPulls /\ inserted <= inserted'
    BY <2>1, <2>5, PullsAssumption
  <2> QED BY <1>1, <2>1, <2>3, <2>4, <2>5, <2>6, RowWritten
<1> QED BY <1>2, <1>3 DEF EditPull

\* A request that loads a row, to edit it or to merge it.
LEMMA LoadKept ==
  ASSUME PullsKept, NEW q \in PullSlot, NEW u \in Actor, NEW p \in PullId,
         LoadForEdit(q, u, p) \/ MergePull(q, u, p)
  PROVE  PullsKept'
<1> PICK stage \in {"editing", "opened"} :
      job' = [job EXCEPT ![q] = [NoJob EXCEPT !.step = stage, !.actor = u, !.pull = p, !.seen = pulls[p]]]
  BY DEF LoadForEdit, MergePull, LoadForMerge
<1> DEFINE j == [NoJob EXCEPT !.step = stage, !.actor = u, !.pull = p, !.seen = pulls[p]]
<1>1. p \in 1..inserted /\ p \in 0..MaxPulls
  BY PullsAssumption DEF LoadForEdit, MergePull, Found, PullRows, PullId
<1>2. pulls[p] \in Pull /\ asked' \in 0..MaxPullRequests
  BY PullsAssumption DEF PullsKept, LoadForEdit, MergePull, Arrives
<1>3. j \in PullJob /\ j.step = stage /\ j.pull = p
  BY <1>1, <1>2, EmptyJob DEF NoJob, PullJob
<1>4. UNCHANGED <<pulls, inserted, forks, pullGit>>
  BY DEF LoadForEdit, MergePull
<1> HIDE DEF j
<1>5. JobKept(j)
  BY <1>1, <1>3 DEF JobKept
<1> QED BY <1>2, <1>3, <1>4, <1>5, JobMoves DEF j

\* The steps of a merge before it writes.
LEMMA ReadsKept ==
  ASSUME PullsKept, NEW q \in PullSlot, StartMerge(q) \/ ReadFetchHead(q)
  PROVE  PullsKept'
<1> DEFINE own == job[q].seen.source = Base
           started == [job[q] EXCEPT !.target = main, !.step = IF own THEN "merging" ELSE "started",
                                     !.incoming = IF own THEN topic[Base] ELSE {}]
           read == [job[q] EXCEPT !.step = "merging", !.incoming = fetchHead]
<1>1. /\ job[q] \in PullJob /\ JobKept(job[q]) /\ asked' \in 0..MaxPullRequests
      /\ UNCHANGED <<pulls, inserted, forks, pullGit>>
  BY DEF StartMerge, ReadFetchHead, PullsKept
<1>2. main \in SUBSET PullCommit /\ topic[Base] \in SUBSET PullCommit /\ fetchHead \in SUBSET PullCommit
      /\ FirstCommit[Base] \in topic[Base]
  BY DEF PullsKept, Source
<1>3. CASE StartMerge(q)
  <2>1. started \in PullJob /\ JobKept(started)
    BY <1>1, <1>2, <1>3 DEF PullJob, JobKept, StartMerge
  <2>2. job' = [job EXCEPT ![q] = started]
    BY <1>3 DEF StartMerge, PullsKept
  <2> HIDE DEF started
  <2> QED BY <1>1, <2>1, <2>2, JobMoves
<1>4. CASE ReadFetchHead(q)
  <2>1. read \in PullJob /\ JobKept(read)
    BY <1>1, <1>2, <1>4 DEF PullJob, JobKept, ReadFetchHead
  <2>2. job' = [job EXCEPT ![q] = read]
    BY <1>4 DEF ReadFetchHead, PullsKept
  <2> HIDE DEF read
  <2> QED BY <1>1, <2>1, <2>2, JobMoves
<1> QED BY <1>3, <1>4

\* A fetch for the branch of s: whoever waits to read FETCH_HEAD is not alone.
LEMMA FetchKept ==
  ASSUME PullsKept, NEW s \in Source, fetchHead' = topic[s], asked' \in 0..MaxPullRequests,
         UNCHANGED <<pulls, inserted, main, topic, forks, made, mergeOf>>,
         job' \in [PullSlot -> PullJob],
         \A r \in PullSlot :
            \/ job'[r] = [job[r] EXCEPT !.alone = @ /\ job[r].step # "fetched"]
            \/ /\ job'[r] = [job[r] EXCEPT !.step = "fetched"]
               /\ job[r].seen.source = s /\ job[r].step = "started"
  PROVE  PullsKept'
<1>1. fetchHead' \subseteq PullCommit /\ FirstCommit[s] \in fetchHead'
  BY DEF PullsKept
<1>2. ASSUME NEW r \in PullSlot
      PROVE  JobKept(job[r])'
  <2>1. job[r] \in PullJob /\ JobKept(job[r]) /\ job[r].alone \in BOOLEAN
    BY DEF PullsKept, PullJob
  <2>2. CASE job'[r] = [job[r] EXCEPT !.alone = @ /\ job[r].step # "fetched"]
    BY <2>1, <2>2 DEF JobKept, MergedAs, PullJob
  <2>3. CASE /\ job'[r] = [job[r] EXCEPT !.step = "fetched"]
             /\ job[r].seen.source = s /\ job[r].step = "started"
    BY <1>1, <2>1, <2>3 DEF JobKept, MergedAs, PullJob
  <2> QED BY <2>2, <2>3
<1>3. \A p \in PullId : RowKept(p, pulls[p])'
  BY DEF PullsKept, RowKept, MergedAs
<1> QED BY <1>1, <1>2, <1>3 DEF PullsKept, CalmMergeIsOwn

LEMMA FetchForMergeKept ==
  ASSUME PullsKept, NEW q \in PullSlot, FetchFromFork(q)
  PROVE  PullsKept'
<1>1. /\ job[q] \in PullJob /\ job[q].seen.source \in Source /\ job[q].step = "started"
      /\ asked \in 0..MaxPullRequests /\ job \in [PullSlot -> PullJob]
  BY DEF FetchFromFork, PullsKept, PullJob, Pull
<1>2. CASE Fetch(q)
  <2>1. job' \in [PullSlot -> PullJob]
    BY <1>1, <1>2 DEF Fetch, PullJob
  <2>2. \A r \in PullSlot :
            \/ job'[r] = [job[r] EXCEPT !.alone = @ /\ job[r].step # "fetched"]
            \/ job'[r] = [job[r] EXCEPT !.step = "fetched"] /\ r = q
    BY <1>2 DEF Fetch
  <2> QED BY <1>1, <1>2, <2>1, <2>2, FetchKept DEF Fetch
<1>3. CASE Ends(q) /\ UNCHANGED <<pulls, inserted, forks, pullGit, asked>>
  BY <1>1, <1>3, JobEnds
<1> QED BY <1>2, <1>3 DEF FetchFromFork

LEMMA DiffKept ==
  ASSUME PullsKept, NEW u \in Actor, NEW p \in PullId, DiffPull(u, p)
  PROVE  PullsKept'
<1>1. pulls[p].source \in Source /\ asked' \in 0..MaxPullRequests
  BY PullsAssumption DEF PullsKept, DiffPull, Pull
<1>2. /\ fetchHead' = topic[pulls[p].source]
      /\ UNCHANGED <<pulls, inserted, main, topic, forks, made, mergeOf>>
      /\ job' = [r \in PullSlot |-> [job[r] EXCEPT !.alone = @ /\ job[r].step # "fetched"]]
  BY DEF DiffPull
<1>3. job' \in [PullSlot -> PullJob]
  <2>1. ASSUME NEW r \in PullSlot
        PROVE  [job[r] EXCEPT !.alone = @ /\ job[r].step # "fetched"] \in PullJob
    <3>1. job[r] \in PullJob
      BY DEF PullsKept
    <3>2. (job[r].alone /\ job[r].step # "fetched") \in BOOLEAN
      OBVIOUS
    <3> QED BY <3>1, <3>2 DEF PullJob
  <2> QED BY <1>2, <2>1
<1>4. \A r \in PullSlot : job'[r] = [job[r] EXCEPT !.alone = @ /\ job[r].step # "fetched"]
  BY <1>2
<1> QED BY <1>1, <1>2, <1>3, <1>4, FetchKept

\* Histories grow, and what they hold is kept.
LEMMA PullsGrow ==
  ASSUME PullsKept, main \subseteq main', main' \subseteq PullCommit,
         topic' \in [Source -> SUBSET PullCommit], \A s \in Source : topic[s] \subseteq topic'[s],
         mergeOf \subseteq mergeOf', mergeOf' \subseteq MergeRecord,
         \A m \in mergeOf' : m.alone => m.own,
         made' \in 0..MaxCommits, job' \in [PullSlot -> PullJob],
         \A q \in PullSlot : job'[q] # job[q] => JobKept(job[q])',
         UNCHANGED <<pulls, inserted, forks, fetchHead, asked>>
  PROVE  PullsKept'
<1>1. \A p, c : MergedAs(p, c) => MergedAs(p, c)'
  BY DEF MergedAs
<1>2. \A p \in PullId : RowKept(p, pulls[p])'
  BY <1>1 DEF PullsKept, RowKept
<1>3. ASSUME NEW q \in PullSlot, job'[q] = job[q]
      PROVE  JobKept(job[q])'
  BY <1>1, <1>3 DEF PullsKept, JobKept
<1> QED BY <1>2, <1>3 DEF PullsKept, CalmMergeIsOwn

LEMMA WriteKept ==
  ASSUME PullsKept, NEW q \in PullSlot, WriteMerge(q)
  PROVE  PullsKept'
<1>1. /\ job[q] \in PullJob /\ JobKept(job[q]) /\ job[q].step = "merging" /\ made < MaxCommits
      /\ job[q].seen \in Pull /\ asked \in 0..MaxPullRequests
  BY DEF WriteMerge, PullsKept, PullJob
<1>2. made + 1 \in PullCommit /\ made + 1 \in 0..MaxCommits /\ made + 1 # 0
  BY <1>1, PullsAssumption DEF PullsKept, PullCommit
<1>3. CASE main # job[q].target
  BY <1>1, <1>3, JobEnds DEF WriteMerge
<1>4. CASE main = job[q].target
  <2> DEFINE m == [commit |-> made + 1, pull |-> job[q].pull,
                   own |-> FirstCommit[job[q].seen.source] \in job[q].incoming,
                   alone |-> job[q].alone]
             j == [job[q] EXCEPT !.step = "written", !.sha = made + 1]
  <2>1. /\ made' = made + 1 /\ main' = main \cup job[q].incoming \cup {made + 1}
        /\ mergeOf' = mergeOf \cup {m} /\ job' = [job EXCEPT ![q] = j]
        /\ UNCHANGED <<pulls, inserted, topic, forks, fetchHead, asked>>
    BY <1>4 DEF WriteMerge
  <2>2. job[q].pull \in PullId /\ job[q].pull \in 1..inserted
    BY <1>1, PullsAssumption DEF JobKept, PullsKept, PullId
  <2>3. m \in MergeRecord /\ m.commit = made + 1 /\ m.pull = job[q].pull /\ (m.alone => m.own)
    BY <1>1, <1>2, <2>2 DEF MergeRecord, JobKept, PullJob
  <2>4. j \in PullJob /\ j.step = "written" /\ j.sha = made + 1 /\ j.pull = job[q].pull
    BY <1>1, <1>2 DEF PullJob
  <2> HIDE DEF m, j
  <2>5. job' \in [PullSlot -> PullJob] /\ job'[q] = j /\ \A r \in PullSlot : r # q => job'[r] = job[r]
    BY <2>1, <2>4 DEF PullsKept
  <2>6. JobKept(job[q])'
    <3>1. made + 1 \in main' /\ m \in mergeOf' /\ job'[q].pull \in 1..inserted'
      BY <2>1, <2>2, <2>4, <2>5
    <3> QED BY <1>2, <2>3, <2>4, <2>5, <3>1 DEF JobKept, MergedAs
  <2>7. job[q].incoming \subseteq PullCommit
    BY <1>1 DEF PullJob
  <2>8. \A x \in mergeOf' : x.alone => x.own
    BY <2>1, <2>3 DEF PullsKept, CalmMergeIsOwn
  <2>9. /\ main \subseteq main' /\ main' \subseteq PullCommit
        /\ mergeOf \subseteq mergeOf' /\ mergeOf' \subseteq MergeRecord
        /\ topic' \in [Source -> SUBSET PullCommit] /\ \A s \in Source : topic[s] \subseteq topic'[s]
    BY <1>2, <2>1, <2>3, <2>7 DEF PullsKept
  <2> QED BY <1>2, <2>1, <2>5, <2>6, <2>8, <2>9, PullsGrow
<1> QED BY <1>3, <1>4

LEMMA CommitKept ==
  ASSUME PullsKept, NEW q \in PullSlot, CommitMerge(q)
  PROVE  PullsKept'
<1> DEFINE p == job[q].pull
           row == [pulls[p] EXCEPT !.state = "merged", !.sha = job[q].sha]
<1>1. /\ Ends(q) /\ UNCHANGED <<inserted, forks, pullGit, asked>> /\ asked \in 0..MaxPullRequests
      /\ job[q] \in PullJob /\ JobKept(job[q]) /\ job[q].step = "written"
      /\ inserted \in 0..MaxPulls
  BY DEF CommitMerge, PullsKept
<1>2. CASE UNCHANGED pulls
  BY <1>1, <1>2, JobEnds
<1>3. CASE Found(p) /\ pulls' = [pulls EXCEPT ![p].state = "merged", ![p].sha = job[q].sha]
  <2>1. p \in PullId /\ pulls[p] \in Pull /\ RowKept(p, pulls[p])
    BY <1>1, <1>3, PullsAssumption DEF PullsKept, Found, PullRows, PullId
  <2>2. pulls' = [pulls EXCEPT ![p] = row]
    BY <1>3, <2>1 DEF PullsKept, Pull
  <2>3. row \in Pull /\ row.sha = job[q].sha /\ row.number = pulls[p].number
    BY <1>1, <2>1 DEF Pull, PullState, PullJob
  <2> HIDE DEF row
  <2>4. /\ row.number <= inserted' /\ (row.sha # 0 => MergedAs(p, row.sha))
        /\ inserted' \in 0..MaxPulls /\ inserted <= inserted'
    BY <1>1, <2>1, <2>3, PullsAssumption DEF RowKept, JobKept
  <2> QED BY <1>1, <2>1, <2>2, <2>3, <2>4, RowWritten
<1> QED BY <1>2, <1>3 DEF CommitMerge

LEMMA AroundKept ==
  ASSUME PullsKept,
         \/ PushMain \/ RestartPulls
         \/ \E s \in Source : PushTopic(s)
         \/ \E f \in Fork : DeleteFork(f)
  PROVE  PullsKept'
<1>1. made < MaxCommits => made + 1 \in PullCommit /\ made + 1 \in 0..MaxCommits
  BY PullsAssumption DEF PullsKept, PullCommit
<1>2. CASE PushMain
  <2>1. /\ made < MaxCommits /\ made' = made + 1 /\ main' = main \cup {made + 1}
        /\ UNCHANGED <<pulls, inserted, topic, forks, fetchHead, mergeOf, job, asked>>
    BY <1>2 DEF PushMain
  <2> QED BY <1>1, <2>1, PullsGrow DEF PullsKept, CalmMergeIsOwn
<1>3. ASSUME NEW s \in Source, PushTopic(s)
      PROVE  PullsKept'
  <2>1. /\ made < MaxCommits /\ made' = made + 1 /\ topic' = [topic EXCEPT ![s] = @ \cup {made + 1}]
        /\ UNCHANGED <<pulls, inserted, main, forks, fetchHead, mergeOf, job, asked>>
    BY <1>3 DEF PushTopic
  <2>2. topic' \in [Source -> SUBSET PullCommit] /\ \A r \in Source : topic[r] \subseteq topic'[r]
    BY <1>1, <2>1 DEF PullsKept
  <2> QED BY <1>1, <2>1, <2>2, PullsGrow DEF PullsKept, CalmMergeIsOwn
<1>4. ASSUME NEW f \in Fork, DeleteFork(f)
      PROVE  PullsKept'
  <2>1. /\ forks' = forks \ {f} /\ UNCHANGED <<inserted, main, topic, fetchHead, made, mergeOf, job, asked>>
        /\ pulls' = [p \in PullId |-> IF pulls[p].source = f THEN NoPull ELSE pulls[p]]
    BY <1>4 DEF DeleteFork, pullGit
  <2>2. pulls' \in [PullId -> Pull] /\ \A p \in PullId : RowKept(p, pulls[p])'
    BY <2>1, EmptyJob, PullsAssumption DEF PullsKept, RowKept, MergedAs
  <2> QED BY <2>1, <2>2 DEF PullsKept, JobKept, MergedAs, CalmMergeIsOwn
<1>5. CASE RestartPulls
  <2>1. UNCHANGED <<pulls, inserted, forks, main, topic, fetchHead, made, mergeOf, asked>>
        /\ job' = [q \in PullSlot |-> NoJob]
    BY <1>5 DEF RestartPulls, pullGit
  <2> QED BY <2>1, EmptyJob DEF PullsKept, JobKept, RowKept, MergedAs, CalmMergeIsOwn
<1> QED BY <1>2, <1>3, <1>4, <1>5

-----------------------------------------------------------------------------
(* Theorems *)

LEMMA PullsStart ==
  ASSUME PullsInit
  PROVE  PullsKept
<1> DEFINE F == {FirstCommit[s] : s \in Source}
           Row(p) == [NoPull EXCEPT !.number = p, !.source = FirstPulls[p], !.state = "open"]
<1>0. /\ inserted = Len(FirstPulls)
      /\ pulls = [p \in PullId |-> IF p > Len(FirstPulls) THEN NoPull ELSE Row(p)]
      /\ made = Cardinality(F) /\ asked = 0 /\ mergeOf = {}
      /\ job = [q \in PullSlot |-> NoJob]
  BY DEF PullsInit
<1>1. inserted = Len(FirstPulls) /\ inserted \in 0..MaxPulls
  <2>1. Len(FirstPulls) \in Nat /\ Len(FirstPulls) <= MaxPulls
    BY PullsAssumption
  <2>2. inserted = Len(FirstPulls)
    BY <1>0
  <2>3. MaxPulls \in Nat
    BY PullsAssumption
  <2> QED BY <2>1, <2>2, <2>3
<1>2. \A p \in PullId : p <= inserted => FirstPulls[p] \in Source
  BY <1>1, PullsAssumption DEF PullId
<1>3. ASSUME NEW p \in PullId
      PROVE  pulls[p] \in Pull /\ RowKept(p, pulls[p])
  <2>0. p \in Nat /\ inserted \in Nat
    BY <1>1 DEF PullId
  <2> HIDE DEF Row
  <2>1. CASE p > inserted
    <3>1. pulls[p] = NoPull
      BY <1>0, <2>1
    <3> QED BY <1>1, <2>0, <3>1, EmptyJob DEF RowKept
  <2>2. CASE p <= inserted
    <3>1. pulls[p] = Row(p)
      BY <1>0, <2>0, <2>2
    <3>2. FirstPulls[p] \in Source
      BY <1>2, <2>2
    <3>3. Row(p) \in Pull /\ Row(p).number = p /\ Row(p).sha = 0
      BY <2>0, <3>2, EmptyJob DEF NoPull, Pull, PullState, Row
    <3> QED BY <2>2, <3>1, <3>3 DEF RowKept
  <2> QED BY <2>0, <2>1, <2>2
<1>4. pulls \in [PullId -> Pull]
  BY <1>0, <1>3
<1>5. made \in 0..MaxCommits
  <2>1. F \subseteq 1..MaxCommits
    BY PullsAssumption DEF PullCommit
  <2>2. IsFiniteSet(1..MaxCommits) /\ Cardinality(1..MaxCommits) = MaxCommits
    BY PullsAssumption, FS_Interval
  <2> HIDE DEF F
  <2>3. IsFiniteSet(F) /\ Cardinality(F) <= MaxCommits
    BY <2>1, <2>2, FS_Subset
  <2>4. Cardinality(F) \in Nat
    BY <2>3, FS_CardinalityType
  <2> DEFINE n == Cardinality(F)
  <2>5. n \in Nat /\ n <= MaxCommits /\ made = n
    BY <1>0, <2>3, <2>4
  <2> HIDE DEF n
  <2> QED BY <2>5, PullsAssumption
<1>6. \A q \in PullSlot : job[q] = NoJob
  BY DEF PullsInit
<1>7. \A q \in PullSlot : JobKept(job[q])
  BY <1>6, EmptyJob DEF JobKept
<1>8. job \in [PullSlot -> PullJob] /\ asked \in 0..MaxPullRequests
  <2>1. job \in [PullSlot -> PullJob]
    BY <1>0, EmptyJob
  <2>2. asked = 0 /\ MaxPullRequests \in Nat
    BY <1>0, PullsAssumption
  <2> QED BY <2>1, <2>2
<1>9. /\ main \subseteq PullCommit /\ topic \in [Source -> SUBSET PullCommit]
      /\ forks \subseteq Fork /\ fetchHead \subseteq PullCommit /\ mergeOf \subseteq MergeRecord
      /\ \A s \in Source : FirstCommit[s] \in topic[s]
  BY PullsAssumption DEF PullsInit
<1> QED BY <1>1, <1>3, <1>4, <1>5, <1>7, <1>8, <1>9 DEF PullsKept, CalmMergeIsOwn, PullsInit

LEMMA PullsStep ==
  ASSUME PullsKept, [PullsNext]_pullVars
  PROVE  PullsKept'
<1>1. ASSUME NEW q \in PullSlot, NEW u \in Actor, NEW s \in Source, CreatePull(q, u, s)
      PROVE  PullsKept'
  BY <1>1, CreateKept
<1>2. ASSUME NEW q \in PullSlot, NEW u \in Actor, NEW p \in PullId, LoadForEdit(q, u, p) \/ MergePull(q, u, p)
      PROVE  PullsKept'
  BY <1>2, LoadKept
<1>3. ASSUME NEW q \in PullSlot, NEW state \in PullState, EditPull(q, state)
      PROVE  PullsKept'
  BY <1>3, EditKept
<1>4. ASSUME NEW q \in PullSlot, AssignNextNumber(q) \/ InsertPull(q)
      PROVE  PullsKept'
  BY <1>4, NumberKept, InsertKept
<1>5. ASSUME NEW q \in PullSlot, StartMerge(q) \/ FetchFromFork(q) \/ ReadFetchHead(q)
      PROVE  PullsKept'
  BY <1>5, ReadsKept, FetchForMergeKept
<1>6. ASSUME NEW q \in PullSlot, Conflicts(q)
      PROVE  PullsKept'
  <2>1. Ends(q) /\ asked' \in 0..MaxPullRequests /\ UNCHANGED <<pulls, inserted, forks, pullGit>>
    BY <1>6 DEF Conflicts, PullsKept
  <2> QED BY <2>1, JobEnds
<1>7. ASSUME NEW q \in PullSlot, WriteMerge(q) \/ CommitMerge(q)
      PROVE  PullsKept'
  BY <1>7, WriteKept, CommitKept
<1>8. ASSUME NEW u \in Actor, NEW p \in PullId, DiffPull(u, p)
      PROVE  PullsKept'
  BY <1>8, DiffKept
<1>9. CASE UNCHANGED pullVars
  BY <1>9 DEF pullVars, PullsKept, JobKept, RowKept, MergedAs, CalmMergeIsOwn
<1> QED BY <1>1, <1>2, <1>3, <1>4, <1>5, <1>6, <1>7, <1>8, <1>9, AroundKept DEF PullsNext

LEMMA PullsAlways == PullsSpec => []PullsKept
BY PullsStart, PullsStep, PTL DEF PullsSpec

\* PullsTypeOK: the rows, the branches and the requests have their types, a request
\* works on a row that exists, and a recorded commit was made by a merge.
THEOREM PullsTyped == PullsSpec => []PullsTypeOK
<1>1. PullsKept => PullsTypeOK
  BY DEF PullsKept, JobKept, RowKept, MergedAs, PullsTypeOK
<1> QED BY <1>1, PullsAlways, PTL

\* RecordedMergeInTarget: the commit a row records as its merge was made for
\* that row and the target branch reaches it, although pushes, other merges and
\* a second merge of the same row come between a merge's commit and its row.
THEOREM RecordedMergesStand == PullsSpec => []RecordedMergeInTarget
<1>1. PullsKept => RecordedMergeInTarget
  BY PullsAssumption DEF PullsKept, RowKept, MergedAs, RecordedMergeInTarget, PullRows, PullId
<1> QED BY <1>1, PullsAlways, PTL

\* CalmMergeIsOwn: a merge merges the pull request's own branch unless another
\* request fetched between its fetch and its look at FETCH_HEAD.
THEOREM CalmMergesAreOwn == PullsSpec => []CalmMergeIsOwn
<1>1. PullsKept => CalmMergeIsOwn
  BY DEF PullsKept
<1> QED BY <1>1, PullsAlways, PTL

\* TargetKeepsCommits: a step of no request takes a commit away from the target
\* branch, since libgit2 refuses a merge made on an older tip.
THEOREM TargetOnlyGrows == PullsSpec => TargetKeepsCommits
<1>1. ASSUME [PullsNext]_pullVars
      PROVE  [main \subseteq main']_pullVars
  <2>1. main \subseteq main'
    <3>1. ASSUME NEW q \in PullSlot, NEW u \in Actor, NEW s \in Source, CreatePull(q, u, s)
          PROVE  main \subseteq main'
      BY <3>1 DEF CreatePull, pullGit
    <3>2. ASSUME NEW q \in PullSlot, NEW u \in Actor, NEW p \in PullId,
                 LoadForEdit(q, u, p) \/ MergePull(q, u, p)
          PROVE  main \subseteq main'
      BY <3>2 DEF LoadForEdit, MergePull, pullGit
    <3>3. ASSUME NEW q \in PullSlot, NEW state \in PullState, EditPull(q, state)
          PROVE  main \subseteq main'
      BY <3>3 DEF EditPull, pullGit
    <3>4. ASSUME NEW q \in PullSlot, AssignNextNumber(q) \/ InsertPull(q) \/ CommitMerge(q) \/ Conflicts(q)
          PROVE  main \subseteq main'
      BY <3>4 DEF AssignNextNumber, InsertPull, CommitMerge, Conflicts, pullGit
    <3>5. ASSUME NEW q \in PullSlot, StartMerge(q) \/ FetchFromFork(q) \/ ReadFetchHead(q)
          PROVE  main \subseteq main'
      BY <3>5 DEF StartMerge, FetchFromFork, Fetch, ReadFetchHead, pullGit
    <3>6. ASSUME NEW q \in PullSlot, WriteMerge(q)
          PROVE  main \subseteq main'
      BY <3>6 DEF WriteMerge, pullGit
    <3>7. ASSUME NEW u \in Actor, NEW p \in PullId, DiffPull(u, p)
          PROVE  main \subseteq main'
      BY <3>7 DEF DiffPull
    <3>8. ASSUME \/ PushMain \/ RestartPulls
                 \/ \E s \in Source : PushTopic(s)
                 \/ \E f \in Fork : DeleteFork(f)
          PROVE  main \subseteq main'
      BY <3>8 DEF PushMain, RestartPulls, PushTopic, DeleteFork, pullGit
    <3>9. CASE UNCHANGED pullVars
      BY <3>9 DEF pullVars
    <3> QED BY <1>1, <3>1, <3>2, <3>3, <3>4, <3>5, <3>6, <3>7, <3>8, <3>9 DEF PullsNext
  <2> QED BY <2>1
<1> QED BY <1>1, PTL DEF PullsSpec, TargetKeepsCommits

-----------------------------------------------------------------------------
(***************************************************************************)
(* Issues                                                                  *)
(***************************************************************************)

(* Issues: the invariant *)

\* closed_at goes with the state; a number is at most the count of the rows.
IssueKept(row) ==
  /\ row.number <= opened
  /\ row.closedAt <=> row.state = "closed"
  /\ row.labels \subseteq labels

\* What a request has read and still holds.  A label it found valid was drawn
\* and is never drawn again; while nobody else commits an edit of its issue, the
\* labels there are among those its DELETE saw, then those it added.
WorkKept(w) ==
  /\ w.step = "numbered" =>
        w.seen.number <= opened + 1 /\ w.seen.state = "open" /\ ~w.seen.closedAt
  /\ w.step \notin {"idle", "numbered"} => w.issue \in 1..opened
  /\ w.step = "loaded" => w.valid = {}
  /\ w.valid \cap unused = {}
  /\ w.step \in {"replaced", "answering"} => w.valid \subseteq w.asked
  /\ w.step = "replaced" /\ w.calm => issues[w.issue].labels \subseteq w.dropped
  /\ w.step = "answering" /\ w.calm /\ w.asked # {} =>
        issues[w.issue].state = "gone" \/ issues[w.issue].labels = w.valid \cap labels

IssuesKept ==
  /\ IssuesTypeOK
  /\ \A i \in IssueId : IssueKept(issues[i])
  /\ \A q \in IssueSlot : WorkKept(work[q])

LEMMA EmptyWork ==
  /\ NoIssue \in Issue /\ NoIssue.number = 0 /\ NoIssue.labels = {} /\ NoIssue.state = "gone"
  /\ NoIssue.closedAt = FALSE
  /\ NoWork \in IssueWork /\ NoWork.step = "idle" /\ NoWork.valid = {}
BY IssuesAssumption DEF NoIssue, NoWork, Issue, IssueWork

LEMMA IssuesStart == IssuesInit => IssuesKept
<1> SUFFICES ASSUME IssuesInit PROVE IssuesKept
  OBVIOUS
<1>1. \A i \in IssueId : issues[i] \in Issue /\ IssueKept(issues[i])
  <2> TAKE i \in IssueId
  <2>1. CASE i > 1
    BY <2>1, EmptyWork DEF IssuesInit, IssueKept
  <2>2. CASE ~(i > 1)
    <3>1. issues[i] = [NoIssue EXCEPT !.number = 1, !.state = "open", !.author = {FirstAuthor}]
      BY <2>2 DEF IssuesInit
    <3>2. 1 \in 0..MaxIssues /\ FirstAuthor \in Actor /\ opened = 1
      BY IssuesAssumption DEF IssuesInit
    <3>3. issues[i] \in Issue
      <4>1. issues[i] = [number |-> 1, state |-> "open", author |-> {FirstAuthor}, closedAt |-> FALSE,
                         locked |-> FALSE, milestone |-> {}, labels |-> {}]
        BY <3>1 DEF NoIssue
      <4> QED BY <3>2, <4>1 DEF Issue
    <3>4. issues[i].number = 1 /\ issues[i].state = "open" /\ issues[i].closedAt = FALSE /\ issues[i].labels = {}
      BY <3>1 DEF NoIssue
    <3> QED BY <3>2, <3>3, <3>4 DEF IssueKept
  <2> QED BY <2>1, <2>2
<1>2. issues \in [IssueId -> Issue]
  BY <1>1 DEF IssuesInit
<1>3. IssuesTypeOK
  BY <1>2, EmptyWork, IssuesAssumption DEF IssuesInit, IssuesTypeOK
<1>4. \A q \in IssueSlot : WorkKept(work[q])
  BY EmptyWork DEF IssuesInit, WorkKept
<1> QED BY <1>1, <1>3, <1>4 DEF IssuesKept

-----------------------------------------------------------------------------
(* Issues: steps *)

\* Only a request moves: it is at w next.
LEMMA WorkMoves ==
  ASSUME IssuesKept, NEW q \in IssueSlot, NEW w \in IssueWork, WorkKept(w),
         work' = [work EXCEPT ![q] = w], calls' \in 0..MaxIssueRequests,
         UNCHANGED <<issues, opened, issueTables>>
  PROVE  IssuesKept'
BY DEF IssuesKept, IssuesTypeOK, issueTables, IssueKept, WorkKept

LEMMA MaxIssueNumberBound ==
  ASSUME IssuesKept
  PROVE  MaxIssueNumber \in Nat /\ MaxIssueNumber <= opened
<1> DEFINE S == {0} \cup {issues[i].number : i \in IssueRows}
           P(n) == /\ \A i \in IssueRows : issues[i].number <= n
                   /\ n = 0 \/ \E i \in IssueRows : issues[i].number = n
<1>1. IssueRows \subseteq IssueId /\ opened \in Nat /\ opened <= MaxIssues /\ MaxIssues \in Nat
  BY IssuesAssumption DEF IssueRows, IssuesKept, IssuesTypeOK, IssueId
<1>2. S \in SUBSET Nat /\ S # {} /\ \A s \in S : s <= opened
  BY <1>1 DEF IssuesKept, IssuesTypeOK, IssueKept, Issue
<1>3. PICK n \in S : \A s \in S : s <= n
  <2> HIDE DEF S
  <2> QED BY <1>1, <1>2, Largest
<1>4. n \in 0..MaxIssues /\ P(n)
  <2>1. n \in Nat /\ n <= MaxIssues
    BY <1>1, <1>2, <1>3
  <2>2. \A i \in IssueRows : issues[i].number <= n
    BY <1>3
  <2>3. n = 0 \/ \E i \in IssueRows : issues[i].number = n
    BY <1>3
  <2> QED BY <2>1, <2>2, <2>3, <1>1
<1> DEFINE m == CHOOSE k \in 0..MaxIssues : P(k)
<1>5. MaxIssueNumber = m
  BY DEF MaxIssueNumber
<1>6. m \in 0..MaxIssues /\ P(m)
  <2> HIDE DEF P
  <2> QED BY <1>4
<1> HIDE DEF m
<1>7. m \in S
  BY <1>6
<1> QED BY <1>1, <1>2, <1>5, <1>6, <1>7

LEMMA NumberIssueKept ==
  ASSUME IssuesKept, NEW q \in IssueSlot, NEW u \in Actor, NEW ids \in Payload,
         NEW ms \in {{}} \cup {{m} : m \in Milestone}, NumberIssue(q, u, ids, ms)
  PROVE  IssuesKept'
<1> DEFINE n == MaxIssueNumber + 1
           row == [NoIssue EXCEPT !.number = n, !.state = "open", !.author = {u}, !.milestone = ms]
           w == [NoWork EXCEPT !.step = "numbered", !.actor = {u}, !.valid = ids \cap labels, !.seen = row]
<1>1. n \in 0..MaxIssues /\ n <= opened + 1
  BY MaxIssueNumberBound, IssuesAssumption DEF NumberIssue, IssuesKept, IssuesTypeOK
<1> HIDE DEF n
<1>2. row \in Issue /\ row.number = n /\ row.state = "open" /\ ~row.closedAt
  BY <1>1 DEF NoIssue, Issue
<1> HIDE DEF row
<1>3. ids \cap labels \subseteq Label /\ (ids \cap labels) \cap unused = {}
  BY DEF IssuesKept, IssuesTypeOK
<1>4. w \in IssueWork /\ w.step = "numbered" /\ w.seen = row /\ w.valid = ids \cap labels
  BY <1>2, <1>3, EmptyWork DEF NoWork, IssueWork
<1>5. work' = [work EXCEPT ![q] = w] /\ calls' \in 0..MaxIssueRequests
  BY IssuesAssumption DEF NumberIssue, Called, IssuesKept, IssuesTypeOK, row, n
<1>6. UNCHANGED <<issues, opened, issueTables>>
  BY DEF NumberIssue
<1> HIDE DEF w
<1>7. WorkKept(w)
  BY <1>1, <1>2, <1>3, <1>4 DEF WorkKept
<1> QED BY <1>4, <1>5, <1>6, <1>7, WorkMoves

LEMMA InsertIssueKept ==
  ASSUME IssuesKept, NEW q \in IssueSlot, InsertIssue(q)
  PROVE  IssuesKept'
<1> DEFINE row == [work[q].seen EXCEPT !.labels = work[q].valid]
<1>1. CASE UNCHANGED <<issues, opened>>
  BY <1>1, EmptyWork, WorkMoves DEF InsertIssue, Done, WorkKept, IssuesKept, IssuesTypeOK
<1>2. CASE /\ row.labels \subseteq labels /\ opened' = opened + 1
           /\ issues' = [issues EXCEPT ![opened + 1] = row]
  <2>1. work[q] \in IssueWork /\ work[q].step = "numbered" /\ WorkKept(work[q]) /\ opened < MaxIssues
    BY DEF InsertIssue, IssuesKept, IssuesTypeOK
  <2>2. /\ row \in Issue /\ row.number <= opened + 1 /\ row.state = "open" /\ row.closedAt = FALSE
        /\ row.number \in Nat
    BY <2>1 DEF IssueWork, Issue, WorkKept
  <2> HIDE DEF row
  <2>3. opened \in Nat /\ opened + 1 \in IssueId /\ MaxIssues \in Nat
    BY <2>1, IssuesAssumption DEF IssuesKept, IssuesTypeOK, IssueId
  <2>4. issues \in [IssueId -> Issue] /\ work \in [IssueSlot -> IssueWork]
    BY DEF IssuesKept, IssuesTypeOK
  <2>5. UNCHANGED <<issueTables, calls>> /\ work' = [work EXCEPT ![q] = NoWork]
    BY DEF InsertIssue, Done
  <2>6. IssuesTypeOK'
    BY <1>2, <2>1, <2>2, <2>3, <2>5, EmptyWork DEF IssuesKept, IssuesTypeOK, issueTables
  <2>7. ASSUME NEW i \in IssueId PROVE IssueKept(issues[i])'
    <3>1. issues[i].number \in Nat /\ IssueKept(issues[i])
      BY <2>4 DEF Issue, IssuesKept
    <3> QED BY <1>2, <2>2, <2>3, <2>4, <2>5, <3>1 DEF IssueKept, issueTables
  <2>8. ASSUME NEW r \in IssueSlot PROVE WorkKept(work[r])'
    <3>1. CASE r = q
      BY <2>5, <3>1, <2>4, EmptyWork DEF WorkKept
    <3>2. CASE r # q
      <4>1. work'[r] = work[r] /\ WorkKept(work[r]) /\ work[r] \in IssueWork
        BY <2>4, <2>5, <3>2 DEF IssuesKept
      <4>2. work[r].seen.number \in Nat /\ work[r].issue \in Nat
        BY <4>1 DEF IssueWork, Issue
      <4>3. work[r].issue \in 1..opened => issues'[work[r].issue] = issues[work[r].issue]
        BY <1>2, <2>3, <2>4, IssuesAssumption DEF IssueId
      <4> QED BY <1>2, <2>3, <2>5, <4>1, <4>2, <4>3 DEF WorkKept, issueTables
    <3> QED BY <3>1, <3>2
  <2> QED BY <2>6, <2>7, <2>8 DEF IssuesKept
<1> QED BY <1>1, <1>2 DEF InsertIssue

LEMMA LoadIssueKept ==
  ASSUME IssuesKept, NEW q \in IssueSlot, NEW u \in Actor, NEW ids \in Payload, NEW i \in IssueId,
         LoadIssue(q, u, i, ids)
  PROVE  IssuesKept'
<1> DEFINE w == [NoWork EXCEPT !.step = "loaded", !.actor = {u}, !.issue = i, !.seen = issues[i], !.asked = ids]
<1>1. issues[i] \in Issue /\ i \in 1..opened /\ i \in 0..MaxIssues
  BY IssuesAssumption DEF IssuesKept, IssuesTypeOK, LoadIssue, IssueRows, IssueId
<1>2. ids \subseteq Label \cup {OtherLabel}
  BY IssuesAssumption
<1>3. w \in IssueWork /\ w.step = "loaded" /\ w.issue = i /\ w.valid = {}
  BY <1>1, <1>2, EmptyWork DEF NoWork, IssueWork
<1>4. work' = [work EXCEPT ![q] = w] /\ calls' \in 0..MaxIssueRequests
  BY IssuesAssumption DEF LoadIssue, Called, IssuesKept, IssuesTypeOK
<1>5. UNCHANGED <<issues, opened, issueTables>>
  BY DEF LoadIssue
<1> HIDE DEF w
<1>6. WorkKept(w)
  BY <1>1, <1>3 DEF WorkKept
<1> QED BY <1>3, <1>4, <1>5, <1>6, WorkMoves

LEMMA ReplaceLabelsKept ==
  ASSUME IssuesKept, NEW q \in IssueSlot, ReplaceLabels(q)
  PROVE  IssuesKept'
<1> DEFINE v == work[q].asked \cap labels
           d == issues[work[q].issue].labels
           w == [work[q] EXCEPT !.step = "replaced", !.dropped = d, !.valid = v]
<1>1. /\ work[q] \in IssueWork /\ WorkKept(work[q]) /\ work[q].step = "loaded"
      /\ work \in [IssueSlot -> IssueWork]
  BY DEF IssuesKept, IssuesTypeOK, ReplaceLabels
<1>2. work[q].issue \in 1..opened /\ work[q].issue \in IssueId
  BY <1>1, IssuesAssumption DEF WorkKept, IssuesKept, IssuesTypeOK, IssueId
<1>3. d \subseteq Label /\ v \subseteq Label /\ v \cap unused = {} /\ v \subseteq work[q].asked
  BY <1>1, <1>2 DEF IssuesKept, IssuesTypeOK, Issue
<1>4. /\ w \in IssueWork /\ w.step = "replaced" /\ w.issue = work[q].issue /\ w.valid = v
      /\ w.dropped = d /\ w.asked = work[q].asked
  BY <1>1, <1>3 DEF IssueWork
<1>5. work' = [work EXCEPT ![q] = w] /\ calls' \in 0..MaxIssueRequests
  BY <1>1 DEF ReplaceLabels, IssuesKept, IssuesTypeOK
<1>6. UNCHANGED <<issues, opened, issueTables>>
  BY DEF ReplaceLabels
<1> HIDE DEF w
<1>7. WorkKept(w)
  BY <1>2, <1>3, <1>4 DEF WorkKept
<1> QED BY <1>4, <1>5, <1>6, <1>7, WorkMoves

LEMMA CommitEditKept ==
  ASSUME IssuesKept, NEW q \in IssueSlot, NEW state \in {"open", "closed"}, NEW lock \in BOOLEAN,
         CommitEdit(q, state, lock)
  PROVE  IssuesKept'
<1> DEFINE w == work[q]
           row == issues[w.issue]
           new == Columns(Relabel(row, w.dropped, w.valid), w.seen, state, lock)
<1>1. /\ work \in [IssueSlot -> IssueWork] /\ w \in IssueWork /\ WorkKept(w)
      /\ w.step \in {"loaded", "replaced"} /\ w.step = IF w.asked = {} THEN "loaded" ELSE "replaced"
      /\ issues \in [IssueId -> Issue]
  BY DEF IssuesKept, IssuesTypeOK, CommitEdit
<1>2. w.issue \in 1..opened /\ w.issue \in IssueId
  BY <1>1, IssuesAssumption DEF WorkKept, IssuesKept, IssuesTypeOK, IssueId
<1>3. UNCHANGED <<opened, issueTables, calls>>
  BY DEF CommitEdit
<1>4. CASE UNCHANGED issues /\ Done(q)
  BY <1>3, <1>4, EmptyWork, WorkMoves DEF Done, WorkKept, IssuesKept, IssuesTypeOK
<1>5. CASE /\ w.valid \subseteq labels /\ w.valid \cap (row.labels \ w.dropped) = {}
           /\ issues' = [issues EXCEPT ![w.issue] = new]
           /\ work' = [r \in IssueSlot |->
                 IF r = q THEN [w EXCEPT !.step = "answering"]
                 ELSE [work[r] EXCEPT !.calm = @ /\ work[r].issue # w.issue]]
  <2>1. row \in Issue /\ IssueKept(row)
    BY <1>1, <1>2 DEF IssuesKept
  <2>2. /\ new \in Issue /\ new.number = row.number /\ new.labels = (row.labels \ w.dropped) \cup w.valid
        /\ (new.closedAt <=> new.state = "closed")
    BY <1>1, <2>1 DEF Columns, Relabel, Issue, IssueWork, IssueKept
  <2> HIDE DEF new
  <2>3. issues' \in [IssueId -> Issue] /\ \A i \in IssueId \ {w.issue} : issues'[i] = issues[i]
    BY <1>1, <1>2, <1>5, <2>2
  <2>4. issues'[w.issue] = new
    BY <1>1, <1>2, <1>5
  <2>5. work' \in [IssueSlot -> IssueWork]
    BY <1>1, <1>5 DEF IssueWork
  <2>6. IssuesTypeOK'
    BY <1>3, <2>3, <2>5 DEF IssuesKept, IssuesTypeOK, issueTables
  <2>7. ASSUME NEW i \in IssueId PROVE IssueKept(issues[i])'
    BY <1>3, <1>5, <2>1, <2>2, <2>3, <2>4 DEF IssueKept, IssuesKept, issueTables
  <2>8. ASSUME NEW r \in IssueSlot PROVE WorkKept(work[r])'
    <3>1. CASE r = q
      <4>1. work'[r] = [w EXCEPT !.step = "answering"]
        BY <1>5, <3>1
      <4>2. /\ work'[r].step = "answering" /\ work'[r].issue = w.issue /\ work'[r].valid = w.valid
            /\ work'[r].asked = w.asked /\ work'[r].calm = w.calm
        BY <1>1, <4>1 DEF IssueWork
      <4>3. w.valid \subseteq w.asked /\ w.valid \cap unused = {}
        BY <1>1 DEF WorkKept
      <4>4. w.calm /\ w.asked # {} => new.labels = w.valid
        BY <1>1, <2>2 DEF WorkKept
      <4> QED BY <1>2, <1>3, <1>5, <2>4, <4>2, <4>3, <4>4 DEF WorkKept, issueTables
    <3>2. CASE r # q
      <4>1. WorkKept(work[r]) /\ work[r] \in IssueWork
        BY <1>1 DEF IssuesKept
      <4>2. /\ work'[r].step = work[r].step /\ work'[r].issue = work[r].issue /\ work'[r].valid = work[r].valid
            /\ work'[r].asked = work[r].asked /\ work'[r].seen = work[r].seen /\ work'[r].dropped = work[r].dropped
            /\ work'[r].calm => work[r].calm /\ work[r].issue # w.issue
        BY <1>5, <3>2, <4>1 DEF IssueWork
      <4>3. /\ opened' = opened /\ unused' = unused /\ labels' = labels /\ opened \in Nat /\ opened <= MaxIssues
            /\ MaxIssues \in Nat
        BY <1>3, IssuesAssumption DEF issueTables, IssuesKept, IssuesTypeOK
      <4>4. work'[r].calm /\ work[r].issue \in 1..opened => issues'[work[r].issue] = issues[work[r].issue]
        BY <2>3, <4>2, <4>3 DEF IssueId
      <4> QED BY <4>1, <4>2, <4>3, <4>4 DEF WorkKept
    <3> QED BY <3>1, <3>2
  <2> QED BY <2>6, <2>7, <2>8 DEF IssuesKept
<1> QED BY <1>4, <1>5 DEF CommitEdit

\* Rows change in place: what requests have read of labels shrinks with the
\* labels, and no id is drawn twice.
LEMMA RowsChange ==
  ASSUME IssuesKept, UNCHANGED <<opened, work>>, IssuesTypeOK',
         unused' \subseteq unused, labels' \subseteq labels \cup unused,
         \A i \in IssueId : IssueKept(issues[i])',
         \A i \in IssueId : \/ issues'[i].state = "gone" /\ issues'[i].labels = {}
                            \/ /\ issues'[i].state = issues[i].state
                               /\ issues'[i].labels = issues[i].labels \cap labels'
  PROVE  IssuesKept'
<1> SUFFICES ASSUME NEW q \in IssueSlot PROVE WorkKept(work[q])'
  BY DEF IssuesKept
<1> DEFINE w == work[q]
<1>1. w \in IssueWork /\ WorkKept(w) /\ work'[q] = w
  BY DEF IssuesKept, IssuesTypeOK
<1>2. opened' = opened /\ (w.issue \in 1..opened => w.issue \in IssueId)
  BY IssuesAssumption DEF IssuesKept, IssuesTypeOK, IssueId
<1>3. w.valid \cap unused' = {} 
  BY <1>1 DEF WorkKept
<1>4. w.step = "replaced" /\ w.calm => issues'[w.issue].labels \subseteq w.dropped
  BY <1>1, <1>2 DEF WorkKept
<1>5. w.step = "answering" /\ w.calm /\ w.asked # {} =>
        issues'[w.issue].state = "gone" \/ issues'[w.issue].labels = w.valid \cap labels'
  BY <1>1, <1>2 DEF WorkKept, IssuesKept, IssueKept
<1> QED BY <1>1, <1>2, <1>3, <1>4, <1>5 DEF WorkKept

LEMMA SetMilestoneKept ==
  ASSUME IssuesKept, NEW u \in Actor, NEW i \in IssueId, NEW m \in Milestone, SetMilestone(u, i, {m})
  PROVE  IssuesKept'
<1> DEFINE row == [issues[i] EXCEPT !.milestone = {m}]
<1>1. UNCHANGED <<opened, work, issueTables>> /\ calls' \in 0..MaxIssueRequests
  BY IssuesAssumption DEF SetMilestone, AtOnce, IssuesKept, IssuesTypeOK
<1>2. issues \in [IssueId -> Issue] /\ issues' = [issues EXCEPT ![i] = row]
  BY DEF SetMilestone, IssuesKept, IssuesTypeOK
<1>3. /\ row \in Issue /\ row.number = issues[i].number /\ row.state = issues[i].state
      /\ row.closedAt = issues[i].closedAt /\ row.labels = issues[i].labels
  BY <1>2 DEF Issue
<1> HIDE DEF row
<1>4. \A k \in IssueId : IssueKept(issues[k]) /\ issues[k].labels \subseteq labels
  BY DEF IssuesKept, IssueKept
<1>5. IssuesTypeOK'
  BY <1>1, <1>2, <1>3 DEF IssuesKept, IssuesTypeOK, issueTables
<1>6. \A k \in IssueId : IssueKept(issues[k])'
  BY <1>1, <1>2, <1>3, <1>4 DEF IssueKept, issueTables
<1>7. \A k \in IssueId : issues'[k].state = issues[k].state /\ issues'[k].labels = issues[k].labels \cap labels'
  BY <1>1, <1>2, <1>3, <1>4 DEF issueTables
<1> QED BY <1>1, <1>5, <1>6, <1>7, RowsChange DEF issueTables

LEMMA DeleteIssueKept ==
  ASSUME IssuesKept, NEW u \in Actor, NEW i \in IssueId, DeleteIssue(u, i)
  PROVE  IssuesKept'
<1>1. /\ UNCHANGED <<opened, work, labels, milestones, unused, commented>> /\ calls' \in 0..MaxIssueRequests
      /\ comments' \subseteq comments
  BY IssuesAssumption DEF DeleteIssue, AtOnce, IssuesKept, IssuesTypeOK
<1>2. issues \in [IssueId -> Issue] /\ issues' = [issues EXCEPT ![i] = NoIssue]
  BY DEF DeleteIssue, IssuesKept, IssuesTypeOK
<1>3. opened \in Nat
  BY DEF IssuesKept, IssuesTypeOK
<1>4. \A k \in IssueId : IssueKept(issues[k]) /\ issues[k].labels \subseteq labels
  BY DEF IssuesKept, IssueKept
<1>5. IssuesTypeOK'
  BY <1>1, <1>2, EmptyWork DEF IssuesKept, IssuesTypeOK
<1>6. \A k \in IssueId : IssueKept(issues[k])'
  BY <1>1, <1>2, <1>3, <1>4, EmptyWork DEF IssueKept
<1>7. \A k \in IssueId :
        \/ issues'[k].state = "gone" /\ issues'[k].labels = {}
        \/ issues'[k].state = issues[k].state /\ issues'[k].labels = issues[k].labels \cap labels'
  <2> TAKE k \in IssueId
  <2>1. CASE k = i
    <3>1. issues'[k] = NoIssue
      BY <1>2, <2>1
    <3> QED BY <3>1, EmptyWork
  <2>2. CASE k # i
    BY <1>1, <1>2, <1>4, <2>2
  <2> QED BY <2>1, <2>2
<1> QED BY <1>1, <1>5, <1>6, <1>7, RowsChange

\* Labels and milestones that come leave every row as it is.
LEMMA PlanningGrows ==
  ASSUME IssuesKept, UNCHANGED <<opened, work, issues>>, IssuesTypeOK', unused' \subseteq unused,
         labels \subseteq labels', labels' \subseteq labels \cup unused
  PROVE  IssuesKept'
<1>1. \A k \in IssueId : IssueKept(issues[k]) /\ issues[k].labels \subseteq labels
  BY DEF IssuesKept, IssueKept
<1>2. \A k \in IssueId : IssueKept(issues[k])'
  BY <1>1 DEF IssueKept
<1>3. \A k \in IssueId : issues'[k].state = issues[k].state /\ issues'[k].labels = issues[k].labels \cap labels'
  BY <1>1
<1> QED BY <1>2, <1>3, RowsChange

LEMMA CreateLabelKept ==
  ASSUME IssuesKept, NEW u \in Actor, NEW l \in Label, CreateLabel(u, l)
  PROVE  IssuesKept'
<1>1. /\ UNCHANGED <<opened, work, issues, milestones, comments, commented>>
      /\ calls' \in 0..MaxIssueRequests
      /\ labels' = labels \cup {l} /\ unused' = unused \ {l} /\ l \in unused
  BY IssuesAssumption DEF CreateLabel, AtOnce, IssuesKept, IssuesTypeOK
<1>2. IssuesTypeOK'
  BY <1>1, IssuesAssumption DEF IssuesKept, IssuesTypeOK
<1> QED BY <1>1, <1>2, PlanningGrows

LEMMA CreateMilestoneKept ==
  ASSUME IssuesKept, NEW u \in Actor, NEW m \in Milestone, CreateMilestone(u, m)
  PROVE  IssuesKept'
<1>1. /\ UNCHANGED <<opened, work, issues, labels, comments, commented>>
      /\ calls' \in 0..MaxIssueRequests
      /\ milestones' = milestones \cup {m} /\ unused' = unused \ {m} /\ m \in unused
  BY IssuesAssumption DEF CreateMilestone, AtOnce, IssuesKept, IssuesTypeOK
<1>2. IssuesTypeOK'
  BY <1>1, IssuesAssumption DEF IssuesKept, IssuesTypeOK
<1> QED BY <1>1, <1>2, PlanningGrows

LEMMA DeleteLabelKept ==
  ASSUME IssuesKept, NEW u \in Actor, NEW l \in Label, DeleteLabel(u, l)
  PROVE  IssuesKept'
<1>1. /\ UNCHANGED <<opened, work, milestones, unused, comments, commented>>
      /\ calls' \in 0..MaxIssueRequests /\ labels' = labels \ {l}
      /\ issues \in [IssueId -> Issue]
      /\ issues' = [i \in IssueId |-> [issues[i] EXCEPT !.labels = @ \ {l}]]
  BY IssuesAssumption DEF DeleteLabel, AtOnce, IssuesKept, IssuesTypeOK
<1>2. ASSUME NEW k \in IssueId
      PROVE  /\ issues'[k] \in Issue /\ issues'[k].number = issues[k].number
             /\ issues'[k].state = issues[k].state /\ issues'[k].closedAt = issues[k].closedAt
             /\ issues'[k].labels = issues[k].labels \ {l}
  <2>1. issues[k] \in Issue /\ issues'[k] = [issues[k] EXCEPT !.labels = @ \ {l}]
    BY <1>1
  <2> QED BY <2>1 DEF Issue
<1>3. \A k \in IssueId : IssueKept(issues[k]) /\ issues[k].labels \subseteq labels
  BY DEF IssuesKept, IssueKept
<1>4. issues' \in [IssueId -> Issue]
  BY <1>1, <1>2
<1>5. IssuesTypeOK'
  BY <1>1, <1>4 DEF IssuesKept, IssuesTypeOK
<1>6. \A k \in IssueId : IssueKept(issues[k])'
  BY <1>1, <1>2, <1>3 DEF IssueKept
<1>7. \A k \in IssueId : issues'[k].labels = issues[k].labels \cap labels'
  BY <1>1, <1>2, <1>3
<1> QED BY <1>1, <1>2, <1>5, <1>6, <1>7, RowsChange

LEMMA DeleteMilestoneKept ==
  ASSUME IssuesKept, NEW u \in Actor, NEW m \in Milestone, DeleteMilestone(u, m)
  PROVE  IssuesKept'
<1>1. /\ UNCHANGED <<opened, work, labels, unused, comments, commented>>
      /\ calls' \in 0..MaxIssueRequests /\ milestones' = milestones \ {m}
      /\ issues \in [IssueId -> Issue]
      /\ issues' = [i \in IssueId |-> [issues[i] EXCEPT !.milestone = @ \ {m}]]
  BY IssuesAssumption DEF DeleteMilestone, AtOnce, IssuesKept, IssuesTypeOK
<1>2. ASSUME NEW k \in IssueId
      PROVE  /\ issues'[k] \in Issue /\ issues'[k].number = issues[k].number
             /\ issues'[k].state = issues[k].state /\ issues'[k].closedAt = issues[k].closedAt
             /\ issues'[k].labels = issues[k].labels
  <2>1. issues[k] \in Issue /\ issues'[k] = [issues[k] EXCEPT !.milestone = @ \ {m}]
    BY <1>1
  <2> QED BY <2>1 DEF Issue
<1>3. \A k \in IssueId : IssueKept(issues[k]) /\ issues[k].labels \subseteq labels
  BY DEF IssuesKept, IssueKept
<1>4. issues' \in [IssueId -> Issue]
  BY <1>1, <1>2
<1>5. IssuesTypeOK'
  BY <1>1, <1>4 DEF IssuesKept, IssuesTypeOK
<1>6. \A k \in IssueId : IssueKept(issues[k])'
  BY <1>1, <1>2, <1>3 DEF IssueKept
<1>7. \A k \in IssueId : issues'[k].labels = issues[k].labels \cap labels'
  BY <1>1, <1>2, <1>3
<1> QED BY <1>1, <1>2, <1>5, <1>6, <1>7, RowsChange

LEMMA StartCommentKept ==
  ASSUME IssuesKept, NEW q \in IssueSlot, NEW u \in Actor, NEW i \in IssueId, StartComment(q, u, i)
  PROVE  IssuesKept'
<1> DEFINE w == [NoWork EXCEPT !.step = "commenting", !.actor = {u}, !.issue = i]
<1>1. i \in 1..opened /\ i \in 0..MaxIssues
  BY IssuesAssumption DEF IssuesKept, IssuesTypeOK, StartComment, IssueRows, IssueId
<1>2. w \in IssueWork /\ w.step = "commenting" /\ w.issue = i /\ w.valid = {}
  BY <1>1, EmptyWork DEF NoWork, IssueWork
<1>3. work' = [work EXCEPT ![q] = w] /\ calls' \in 0..MaxIssueRequests
  BY IssuesAssumption DEF StartComment, Called, IssuesKept, IssuesTypeOK
<1>4. UNCHANGED <<issues, opened, issueTables>>
  BY DEF StartComment
<1> HIDE DEF w
<1>5. WorkKept(w)
  BY <1>1, <1>2 DEF WorkKept
<1> QED BY <1>2, <1>3, <1>4, <1>5, WorkMoves

\* Comments come and go, and a request may end with it.
LEMMA CommentsChange ==
  ASSUME IssuesKept, comments' \subseteq Comment, commented' \in 0..MaxComments,
         UNCHANGED <<issues, opened, labels, milestones, unused>>, calls' \in 0..MaxIssueRequests,
         UNCHANGED work \/ \E q \in IssueSlot : Done(q)
  PROVE  IssuesKept'
<1>1. work' \in [IssueSlot -> IssueWork] /\ \A q \in IssueSlot : work'[q] \in {work[q], NoWork}
  BY EmptyWork DEF IssuesKept, IssuesTypeOK, Done
<1>2. IssuesTypeOK'
  BY <1>1 DEF IssuesKept, IssuesTypeOK
<1>3. \A i \in IssueId : IssueKept(issues[i])'
  BY DEF IssuesKept, IssueKept
<1>4. ASSUME NEW q \in IssueSlot PROVE WorkKept(work[q])'
  <2>1. CASE work'[q] = work[q]
    BY <2>1 DEF IssuesKept, WorkKept
  <2>2. CASE work'[q] = NoWork
    BY <2>2, EmptyWork DEF WorkKept
  <2> QED BY <1>1, <2>1, <2>2
<1> QED BY <1>2, <1>3, <1>4 DEF IssuesKept

LEMMA InsertCommentKept ==
  ASSUME IssuesKept, NEW q \in IssueSlot, InsertComment(q)
  PROVE  IssuesKept'
<1>1. UNCHANGED <<issues, opened, labels, milestones, unused, calls>> /\ Done(q)
  BY DEF InsertComment
<1>2. commented \in Nat /\ commented < MaxComments /\ MaxComments \in Nat /\ comments \subseteq Comment
      /\ calls \in 0..MaxIssueRequests /\ commented \in 0..MaxComments
  BY IssuesAssumption DEF InsertComment, IssuesKept, IssuesTypeOK
<1>3. CASE UNCHANGED <<comments, commented>>
  BY <1>1, <1>2, <1>3, CommentsChange
<1>4. CASE /\ work[q].issue \in IssueRows /\ commented' = commented + 1
           /\ \E u \in work[q].actor :
                comments' = comments \cup {[id |-> commented + 1, issue |-> work[q].issue, author |-> u]}
  <2>1. work[q].issue \in IssueId /\ work[q].actor \subseteq Actor
    BY <1>4, IssuesAssumption DEF IssueRows, IssuesKept, IssuesTypeOK, IssueId, IssueWork
  <2>2. comments' \subseteq Comment /\ commented' \in 0..MaxComments
    BY <1>2, <1>4, <2>1 DEF Comment
  <2> QED BY <1>1, <1>2, <2>2, CommentsChange
<1> QED BY <1>3, <1>4 DEF InsertComment

LEMMA RestartIssuesKept == IssuesKept /\ RestartIssues => IssuesKept'
BY EmptyWork DEF RestartIssues, IssuesKept, IssuesTypeOK, issueTables, IssueKept, WorkKept

LEMMA IssuesStep == IssuesKept /\ [IssuesNext]_issueVars => IssuesKept'
<1> SUFFICES ASSUME IssuesKept, [IssuesNext]_issueVars PROVE IssuesKept'
  OBVIOUS
<1>1. ASSUME NEW q \in IssueSlot, AnswerEdit(q) PROVE IssuesKept'
  BY <1>1, EmptyWork, WorkMoves DEF AnswerEdit, Done, WorkKept, IssuesKept, IssuesTypeOK
<1>2. ASSUME NEW u \in Actor, NEW c \in comments, DeleteComment(u, c) PROVE IssuesKept'
  BY <1>2, CommentsChange, IssuesAssumption DEF DeleteComment, AtOnce, IssuesKept, IssuesTypeOK
<1>3. CASE UNCHANGED issueVars
  BY <1>3 DEF issueVars, IssuesKept, IssuesTypeOK, IssueKept, WorkKept
<1> QED
  BY <1>1, <1>2, <1>3, NumberIssueKept, InsertIssueKept, LoadIssueKept, ReplaceLabelsKept, CommitEditKept,
     SetMilestoneKept, DeleteIssueKept, CreateLabelKept, DeleteLabelKept, CreateMilestoneKept,
     DeleteMilestoneKept, StartCommentKept, InsertCommentKept, RestartIssuesKept DEF IssuesNext

LEMMA IssuesAlways == IssuesSpec => []IssuesKept
BY IssuesStart, IssuesStep, PTL DEF IssuesSpec

\* IssuesTypeOK: the rows, identifiers and requests have their types, and no new
\* label takes the identifier of one that is there.
THEOREM IssuesTyped == IssuesSpec => []IssuesTypeOK
<1>1. IssuesKept => IssuesTypeOK
  BY DEF IssuesKept
<1> QED BY <1>1, IssuesAlways, PTL

\* ClosedExactlyTimed: the closing time of an issue is there exactly while it is
\* closed, although closes and reopens write what they computed from older copies.
THEOREM ClosingTimesMatch == IssuesSpec => []ClosedExactlyTimed
<1>1. IssuesKept => ClosedExactlyTimed
  BY IssuesAssumption DEF IssuesKept, IssuesTypeOK, IssueKept, ClosedExactlyTimed, IssueRows, IssueId
<1> QED BY <1>1, IssuesAlways, PTL

\* CalmReplaceExact: an edit that replaces the labels of an issue, and that no
\* other edit of the issue commits over, leaves exactly the labels it named, but
\* for those deleted meanwhile.
THEOREM CalmReplacesAreExact == IssuesSpec => []CalmReplaceExact
<1>1. IssuesKept => CalmReplaceExact
  <2> SUFFICES ASSUME IssuesKept, NEW q \in IssueSlot, work[q].step = "answering", work[q].calm,
                      work[q].asked # {}, work[q].issue \in IssueRows
               PROVE  issues[work[q].issue].labels = work[q].asked \cap work[q].valid \cap labels
    BY DEF CalmReplaceExact
  <2>1. WorkKept(work[q]) /\ issues[work[q].issue].state # "gone"
    BY DEF IssuesKept, IssueRows
  <2> QED BY <2>1 DEF WorkKept
<1> QED BY <1>1, IssuesAlways, PTL

-----------------------------------------------------------------------------
(***************************************************************************)
(* AI reviews and their index                                              *)
(***************************************************************************)

(* The parts of the inductive invariant *)

Writing(w) == reviewer[w].phase = "writing"
Dispatching(w) == reviewer[w].phase = "dispatching"
Embedding(w) == indexer[w].phase = "embedding"

Job == [phase : {"free", "routing", "writing", "dispatching"},
        diff : 0..MaxHeads, seen : SUBSET (1..MaxReviews)]

\* ReviewsTypeOK, without the bounds of the queues; a repository that is gone has
\* no reviews.
ReviewsShape ==
  /\ head \in 1..MaxHeads /\ reviews \subseteq Review /\ written \in 0..MaxReviews
  /\ triggered \in 0..MaxTriggers /\ requests \in Nat
  /\ reviewer \in [Reviewer -> Job]
  /\ raced \in BOOLEAN /\ shuffled \in BOOLEAN
  /\ indexing \in Nat /\ merged \in BOOLEAN
  /\ indexer \in [Indexer -> [phase : {"free", "embedding"}, diff : 0..MaxHeads, id : 0..MaxReviews]]
  /\ points \in [1..MaxHeads -> 0..MaxReviews]
  /\ lost \in 0..MaxLost /\ rebuilding \subseteq Selected
  /\ gone \in BOOLEAN /\ (gone => reviews = {})

\* Every message was sent for something: a request, a lost worker, a review
\* that was written or the merge.
Waiting == {w \in Reviewer : Dispatching(w)}
MessagesCounted ==
  /\ requests <= triggered + lost
  /\ indexing + Cardinality(Waiting) <= written + lost + (IF merged THEN 1 ELSE 0)

AtMostOne(S) == \A r, s \in S : r = s

\* Until two tasks wrote from overlapping reads there is one writer at most,
\* and it has seen every row there is.
OneReview ==
  ~raced => /\ AtMostOne(reviews)
            /\ \A v, w \in Reviewer : Writing(v) /\ Writing(w) => v = w
            /\ \A w \in Reviewer : Writing(w) =>
                  \A r \in reviews : r.id \in reviewer[w].seen

\* The review with a diff is on its way into the store, or there already and
\* nothing on its way can put another review over it: neither an index task nor
\* a copy that a rebuild holds.
OnItsWay(r) ==
  \/ \E w \in Reviewer : Dispatching(w)
  \/ indexing > 0
  \/ \E w \in Indexer : Embedding(w) /\ indexer[w].diff = r.diff /\ indexer[w].id = r.id

Stored(r) ==
  /\ points[r.diff] = r.id
  /\ \A w \in Indexer : Embedding(w) => indexer[w].diff # r.diff \/ indexer[w].id = r.id

\* What a rebuild holds for a diff is what is stored for it.
Fresh(b) == \A r \in reviews : r.diff = b.diff => r.id = b.id

IndexFollows ==
  ~raced /\ ~shuffled =>
     /\ \A v, w \in Indexer : Embedding(v) /\ Embedding(w) => v = w
     /\ \A r \in reviews : r.diff # 0 /\ r.text => OnItsWay(r) \/ Stored(r)
     /\ \A b \in rebuilding : Fresh(b)

ReviewsKept == ReviewsShape /\ MessagesCounted /\ OneReview /\ IndexFollows

Parts == ReviewsShape' /\ OneReview' /\ IndexFollows'

-----------------------------------------------------------------------------
(* Counting *)

LEMMA AtMostOneCount ==
  ASSUME NEW S, AtMostOne(S)
  PROVE  Cardinality(S) \in {0, 1}
<1>1. CASE S = {}
  BY <1>1, FS_EmptySet
<1>2. CASE S # {}
  <2>1. PICK x \in S : TRUE
    BY <1>2
  <2>2. S = {x}
    BY <2>1 DEF AtMostOne
  <2>3. Cardinality({x}) = 1
    BY FS_Singleton
  <2> QED BY <2>2, <2>3
<1> QED BY <1>1, <1>2

LEMMA WaitingFinite == IsFiniteSet(Waiting) /\ Cardinality(Waiting) \in Nat
<1>1. Waiting \subseteq Reviewer
  BY DEF Waiting
<1> QED BY <1>1, ReviewsAssumption, FS_Subset, FS_CardinalityType

LEMMA FreeJob == Free \in Job /\ Free.phase = "free"
BY ReviewsAssumption DEF Free, Job

\* One worker changes what it does.
OnlyMoves(w) == \A v \in Reviewer \ {w} : reviewer'[v] = reviewer[v]

LEMMA WaitingCounted ==
  ASSUME NEW w \in Reviewer, OnlyMoves(w)
  PROVE  /\ Dispatching(w) /\ Dispatching(w)' => Cardinality(Waiting') = Cardinality(Waiting)
         /\ ~Dispatching(w) /\ ~Dispatching(w)' => Cardinality(Waiting') = Cardinality(Waiting)
         /\ Dispatching(w) /\ ~Dispatching(w)' => Cardinality(Waiting') = Cardinality(Waiting) - 1
         /\ ~Dispatching(w) /\ Dispatching(w)' => Cardinality(Waiting') = Cardinality(Waiting) + 1
         /\ Cardinality(Waiting) \in Nat /\ Cardinality(Waiting') \in Nat
<1>1. Waiting' = IF Dispatching(w)' THEN Waiting \cup {w} ELSE Waiting \ {w}
  BY DEF Waiting, Dispatching, OnlyMoves
<1>2. w \in Waiting <=> Dispatching(w)
  BY DEF Waiting
<1>3. Cardinality(Waiting \cup {w}) = IF w \in Waiting THEN Cardinality(Waiting)
                                                       ELSE Cardinality(Waiting) + 1
  BY WaitingFinite, FS_AddElement
<1>4. Cardinality(Waiting \ {w}) = IF w \in Waiting THEN Cardinality(Waiting) - 1
                                                    ELSE Cardinality(Waiting)
  BY WaitingFinite, FS_RemoveElement
<1>5. Cardinality(Waiting') \in Nat
  <2>1. IsFiniteSet(Waiting')
    BY <1>1, WaitingFinite, FS_AddElement, FS_RemoveElement
  <2> QED BY <2>1, FS_CardinalityType
<1> QED BY <1>1, <1>2, <1>3, <1>4, <1>5, WaitingFinite

LEMMA JobGiven ==
  ASSUME ReviewsKept, NEW w \in Reviewer, NEW task \in Job,
         reviewer' = [reviewer EXCEPT ![w] = task]
  PROVE  OnlyMoves(w) /\ reviewer'[w] = task /\ reviewer' \in [Reviewer -> Job]
BY DEF ReviewsKept, ReviewsShape, OnlyMoves

-----------------------------------------------------------------------------
(* The requests *)

LEMMA ChangeDiffKeeps == ReviewsKept /\ ChangeDiff => ReviewsKept'
<1> SUFFICES ASSUME ReviewsKept, ChangeDiff PROVE ReviewsKept'
  OBVIOUS
<1>1. ReviewsShape'
  BY ReviewsAssumption DEF ReviewsKept, ReviewsShape, ChangeDiff, index
<1>2. MessagesCounted'
  BY DEF ReviewsKept, MessagesCounted, ChangeDiff, index, Waiting, Dispatching
<1>3. OneReview' /\ IndexFollows'
  BY DEF ReviewsKept, ChangeDiff, index, OneReview, IndexFollows, OnItsWay, Stored, Fresh,
         Writing, Dispatching, Embedding
<1> QED BY <1>1, <1>2, <1>3 DEF ReviewsKept

\* Nothing is reviewed any more.
LEMMA DropRepositoryKeeps == ReviewsKept /\ DropRepository => ReviewsKept'
<1> SUFFICES ASSUME ReviewsKept, DropRepository PROVE ReviewsKept'
  OBVIOUS
<1>1. ReviewsShape'
  BY DEF ReviewsKept, ReviewsShape, DropRepository, index
<1>2. MessagesCounted'
  BY DEF ReviewsKept, MessagesCounted, DropRepository, index, Waiting, Dispatching
<1>3. OneReview' /\ IndexFollows'
  BY DEF ReviewsKept, DropRepository, index, OneReview, AtMostOne, IndexFollows, Fresh, Writing,
         Embedding
<1> QED BY <1>1, <1>2, <1>3 DEF ReviewsKept

LEMMA TriggerReviewKeeps == ReviewsKept /\ TriggerReview => ReviewsKept'
<1> SUFFICES ASSUME ReviewsKept, TriggerReview PROVE ReviewsKept'
  OBVIOUS
<1>1. ReviewsShape'
  BY ReviewsAssumption DEF ReviewsKept, ReviewsShape, TriggerReview, index
<1>2. MessagesCounted'
  <2>1. Waiting' = Waiting
    BY DEF TriggerReview, Waiting, Dispatching
  <2> QED BY <2>1, ReviewsAssumption, WaitingFinite
          DEF ReviewsKept, ReviewsShape, MessagesCounted, TriggerReview, index
<1>3. OneReview' /\ IndexFollows'
  BY DEF ReviewsKept, TriggerReview, index, OneReview, IndexFollows, OnItsWay, Stored, Fresh,
         Writing, Dispatching, Embedding
<1> QED BY <1>1, <1>2, <1>3 DEF ReviewsKept

LEMMA MergeIndexesKeeps == ASSUME NEW sent \in BOOLEAN, ReviewsKept, MergeIndexes(sent) PROVE ReviewsKept'
<1>1. ReviewsShape'
  BY DEF ReviewsKept, ReviewsShape, MergeIndexes
<1>2. MessagesCounted'
  <2>1. Waiting' = Waiting
    BY DEF MergeIndexes, Waiting, Dispatching
  <2> QED BY <2>1, ReviewsAssumption, WaitingFinite
          DEF ReviewsKept, ReviewsShape, MessagesCounted, MergeIndexes
<1>3. OneReview' /\ IndexFollows'
  BY DEF ReviewsKept, ReviewsShape, MergeIndexes, OneReview, IndexFollows, OnItsWay, Stored, Fresh,
         Writing, Dispatching, Embedding
<1> QED BY <1>1, <1>2, <1>3 DEF ReviewsKept

-----------------------------------------------------------------------------
(* The review task *)

LEMMA TakeReviewKeeps == ASSUME NEW w \in Reviewer, ReviewsKept, TakeReview(w) PROVE ReviewsKept'
<1> DEFINE task == [phase |-> "routing", diff |-> head, seen |-> {}]
<1>1. task \in Job /\ task.phase = "routing"
  <2>1. head \in 0..MaxHeads
    BY ReviewsAssumption DEF ReviewsKept, ReviewsShape
  <2> QED BY <2>1 DEF Job
<1>2. /\ reviewer' = IF gone THEN reviewer ELSE [reviewer EXCEPT ![w] = task]
      /\ reviewer[w].phase = "free"
  BY DEF TakeReview, FirstFree
<1> HIDE DEF task
<1>3. /\ OnlyMoves(w) /\ reviewer' \in [Reviewer -> Job]
      /\ ~Dispatching(w) /\ ~Dispatching(w)' /\ ~Writing(w)'
  <2>1. CASE gone
    BY <1>2, <2>1 DEF OnlyMoves, Dispatching, Writing, ReviewsKept, ReviewsShape
  <2>2. CASE ~gone
    BY <1>1, <1>2, <2>2, JobGiven DEF Dispatching, Writing
  <2> QED BY <2>1, <2>2
<1>4. requests' \in Nat /\ requests' <= requests
  BY DEF TakeReview, ReviewsKept, ReviewsShape
<1>5. ReviewsShape'
  BY <1>3, <1>4 DEF ReviewsKept, ReviewsShape, TakeReview, index
<1>6. MessagesCounted'
  <2>1. Cardinality(Waiting') = Cardinality(Waiting)
    BY <1>3, WaitingCounted
  <2>2. requests \in Nat /\ triggered \in Nat /\ lost \in Nat
        /\ UNCHANGED <<triggered, lost, indexing, written, merged>>
    BY ReviewsAssumption DEF TakeReview, index, ReviewsKept, ReviewsShape
  <2> QED BY <1>4, <2>1, <2>2 DEF ReviewsKept, MessagesCounted
<1>7. OneReview' /\ IndexFollows'
  BY <1>3 DEF ReviewsKept, TakeReview, index, OneReview, IndexFollows, OnItsWay, Stored, Fresh,
              Embedding, OnlyMoves, Dispatching, Writing
<1> QED BY <1>5, <1>6, <1>7 DEF ReviewsKept

LEMMA ReviewFailsKeeps == ASSUME NEW w \in Reviewer, ReviewsKept, ReviewFails(w) PROVE ReviewsKept'
<1>1. reviewer' = [reviewer EXCEPT ![w] = Free] /\ reviewer[w].phase \in {"routing", "writing"}
  BY DEF ReviewFails
<1>2. /\ OnlyMoves(w) /\ reviewer' \in [Reviewer -> Job]
      /\ ~Dispatching(w) /\ ~Dispatching(w)' /\ ~Writing(w)'
  BY <1>1, FreeJob, JobGiven DEF Dispatching, Writing
<1>3. ReviewsShape'
  BY <1>2 DEF ReviewsKept, ReviewsShape, ReviewFails, index
<1>4. MessagesCounted'
  BY <1>2, WaitingCounted DEF ReviewsKept, MessagesCounted, ReviewFails, index
<1>5. OneReview' /\ IndexFollows'
  BY <1>2 DEF ReviewsKept, ReviewFails, index, OneReview, IndexFollows, OnItsWay, Stored, Fresh,
              Embedding, OnlyMoves, Dispatching, Writing
<1> QED BY <1>3, <1>4, <1>5 DEF ReviewsKept

\* A second writer is a race; the only one sees every row.
LEMMA SelectStaleKeeps ==
  ASSUME NEW w \in Reviewer, NEW snippet \in BOOLEAN, ReviewsKept, SelectStale(w, snippet)
  PROVE  ReviewsKept'
<1> DEFINE diff == IF snippet THEN reviewer[w].diff ELSE 0
<1>1. reviewer[w] \in Job /\ diff \in 0..MaxHeads /\ Numbers \subseteq 1..MaxReviews
  BY ReviewsAssumption DEF ReviewsKept, ReviewsShape, Job, Numbers, Review
<1>2. /\ OnlyMoves(w) /\ reviewer' \in [Reviewer -> Job] /\ reviewer'[w].seen = Numbers
      /\ ~Dispatching(w) /\ ~Dispatching(w)'
  <2>1. /\ reviewer \in [Reviewer -> Job] /\ reviewer[w].phase = "routing"
        /\ reviewer' = [reviewer EXCEPT ![w].phase = "writing", ![w].seen = Numbers, ![w].diff = diff]
    BY DEF SelectStale, ReviewsKept, ReviewsShape
  <2> HIDE DEF diff
  <2>2. OnlyMoves(w) /\ reviewer'[w] = [phase |-> "writing", diff |-> diff, seen |-> Numbers]
        /\ DOMAIN reviewer' = Reviewer /\ reviewer' = [v \in Reviewer |-> reviewer'[v]]
    BY <2>1 DEF OnlyMoves, Job
  <2>3. [phase |-> "writing", diff |-> diff, seen |-> Numbers] \in Job
    BY <1>1 DEF Job
  <2> QED BY <2>1, <2>2, <2>3 DEF OnlyMoves, Dispatching
<1> HIDE DEF diff
<1>5. ReviewsShape'
  BY <1>2 DEF ReviewsKept, ReviewsShape, SelectStale, index
<1>6. MessagesCounted'
  BY <1>2, WaitingCounted DEF ReviewsKept, MessagesCounted, SelectStale, index
<1>7. OneReview'
  <2>1. ~raced' => ~raced /\ \A v \in Reviewer \ {w} : ~Writing(v)
    BY DEF SelectStale, Writing
  <2>2. ~raced' => \A v \in Reviewer \ {w} : ~Writing(v)'
    BY <1>2, <2>1 DEF Writing, OnlyMoves
  <2> QED BY <1>2, <2>1, <2>2 DEF ReviewsKept, OneReview, SelectStale, Numbers
<1>8. IndexFollows'
  <2>1. UNCHANGED <<reviews, indexing, indexer, points, shuffled, rebuilding>> /\ (~raced' => ~raced)
    BY DEF SelectStale, index
  <2>2. \A v \in Reviewer : Dispatching(v) => Dispatching(v)'
    BY <1>2 DEF OnlyMoves, Dispatching
  <2> QED BY <2>1, <2>2 DEF ReviewsKept, IndexFollows, OnItsWay, Stored, Fresh, Embedding
<1> QED BY <1>5, <1>6, <1>7, <1>8 DEF ReviewsKept

\* The row the writer saw goes, and the new one is announced to the index next.
LEMMA CommitReviewKeeps ==
  ASSUME NEW w \in Reviewer, NEW text \in BOOLEAN, ReviewsKept, CommitReview(w, text)
  PROVE  ReviewsKept'
<1> DEFINE new == NewReview(w, text)
<1>1. reviewer[w] \in Job /\ Writing(w)
  BY DEF CommitReview, Writing, ReviewsKept, ReviewsShape
<1>2. written \in Nat /\ written' = written + 1 /\ written' \in 1..MaxReviews
  BY ReviewsAssumption DEF CommitReview, ReviewsKept, ReviewsShape
<1>3. new \in Review
  BY <1>1, <1>2 DEF NewReview, Review, Job
<1>4. reviews' = {r \in reviews : r.id \notin reviewer[w].seen} \cup {new}
  BY DEF CommitReview
<1> HIDE DEF new
<1>5. /\ OnlyMoves(w) /\ reviewer' \in [Reviewer -> Job]
      /\ ~Dispatching(w) /\ Dispatching(w)' /\ ~Writing(w)'
  <2>1. reviewer \in [Reviewer -> Job] /\ reviewer' = [reviewer EXCEPT ![w].phase = "dispatching"]
    BY DEF CommitReview, ReviewsKept, ReviewsShape
  <2> QED BY <1>1, <2>1 DEF OnlyMoves, Job, Dispatching, Writing
<1>6. ReviewsShape'
  <2>1. reviews' \subseteq Review
    BY <1>3, <1>4 DEF ReviewsKept, ReviewsShape
  <2>2. written' \in 0..MaxReviews
    BY <1>2
  <2> QED BY <1>5, <2>1, <2>2 DEF ReviewsKept, ReviewsShape, CommitReview, index
<1>7. MessagesCounted'
  <2>1. Cardinality(Waiting') = Cardinality(Waiting) + 1 /\ Cardinality(Waiting) \in Nat
    BY <1>5, WaitingCounted
  <2>2. /\ indexing \in Nat /\ lost \in Nat /\ (IF merged THEN 1 ELSE 0) \in Nat
        /\ UNCHANGED <<indexing, lost, merged, requests, triggered>>
    BY ReviewsAssumption DEF CommitReview, index, ReviewsKept, ReviewsShape
  <2> QED BY <1>2, <2>1, <2>2 DEF ReviewsKept, MessagesCounted
<1>8. OneReview'
  <2> SUFFICES ASSUME ~raced PROVE OneReview'
    BY DEF CommitReview, OneReview
  <2>1. reviews' = {new}
    BY <1>1, <1>4 DEF ReviewsKept, OneReview
  <2>2. \A v \in Reviewer : ~Writing(v)'
    BY <1>1, <1>5 DEF ReviewsKept, OneReview, Writing, OnlyMoves
  <2> QED BY <2>1, <2>2 DEF OneReview, AtMostOne
<1>9. IndexFollows'
  <2> SUFFICES ASSUME ~raced, ~shuffled' PROVE IndexFollows'
    BY DEF CommitReview, IndexFollows
  <2>1. ~shuffled /\ UNCHANGED <<indexing, indexer, rebuilding>> /\ ~Overtakes(w)
    BY DEF CommitReview, ReviewsKept, ReviewsShape
  <2>2. \A b \in rebuilding : Fresh(b)
    BY <2>1 DEF ReviewsKept, IndexFollows
  <2>3. new.diff = reviewer[w].diff
    BY DEF new, NewReview
  <2>4. \A b \in rebuilding : Fresh(b)'
    BY <1>4, <2>1, <2>2, <2>3 DEF Fresh, Overtakes
  <2> QED BY <1>5, <2>1, <2>4 DEF ReviewsKept, IndexFollows, OnItsWay, Embedding
<1> QED BY <1>6, <1>7, <1>8, <1>9 DEF ReviewsKept

LEMMA DispatchIndexKeeps ==
  ASSUME NEW w \in Reviewer, NEW sent \in BOOLEAN, ReviewsKept, DispatchIndex(w, sent)
  PROVE  ReviewsKept'
<1>1. reviewer' = [reviewer EXCEPT ![w] = Free] /\ Dispatching(w)
  BY DEF DispatchIndex, Dispatching
<1>2. /\ OnlyMoves(w) /\ reviewer' \in [Reviewer -> Job]
      /\ ~Dispatching(w)' /\ ~Writing(w)'
  BY <1>1, FreeJob, JobGiven DEF Dispatching, Writing
<1>3. /\ indexing \in Nat /\ indexing' \in Nat /\ indexing' <= indexing + 1
      /\ sent => indexing' > 0
  BY DEF DispatchIndex, ReviewsKept, ReviewsShape
<1>4. shuffled' \in BOOLEAN /\ (~shuffled' => ~shuffled /\ sent)
  BY DEF DispatchIndex, ReviewsKept, ReviewsShape
<1>5. ReviewsShape'
  BY <1>2, <1>3, <1>4 DEF ReviewsKept, ReviewsShape, DispatchIndex
<1>6. MessagesCounted'
  <2>1. Cardinality(Waiting') = Cardinality(Waiting) - 1 /\ Cardinality(Waiting) \in Nat
    BY <1>1, <1>2, WaitingCounted
  <2>2. /\ lost \in Nat /\ written \in Nat /\ (IF merged THEN 1 ELSE 0) \in Nat
        /\ UNCHANGED <<lost, merged, written, requests, triggered>>
    BY ReviewsAssumption DEF DispatchIndex, ReviewsKept, ReviewsShape
  <2> QED BY <1>3, <2>1, <2>2 DEF ReviewsKept, MessagesCounted
<1>7. OneReview'
  BY <1>2 DEF ReviewsKept, DispatchIndex, OneReview, OnlyMoves, Writing
<1>8. IndexFollows'
  BY <1>3, <1>4 DEF ReviewsKept, DispatchIndex, IndexFollows, OnItsWay, Fresh, Embedding
<1> QED BY <1>5, <1>6, <1>7, <1>8 DEF ReviewsKept

LEMMA ReviewerLostKeeps == ASSUME NEW w \in Reviewer, ReviewsKept, ReviewerLost(w) PROVE ReviewsKept'
<1>1. reviewer' = [reviewer EXCEPT ![w] = Free]
  BY DEF ReviewerLost
<1>2. /\ OnlyMoves(w) /\ reviewer' \in [Reviewer -> Job]
      /\ ~Dispatching(w)' /\ ~Writing(w)'
  BY <1>1, FreeJob, JobGiven DEF Dispatching, Writing
<1>3. /\ lost \in Nat /\ lost' = lost + 1 /\ lost' \in 0..MaxLost
      /\ requests \in Nat /\ requests' = requests + 1
  BY ReviewsAssumption DEF ReviewerLost, ReviewsKept, ReviewsShape
<1>4. shuffled' \in BOOLEAN /\ (~shuffled' => ~shuffled /\ ~Dispatching(w))
  BY DEF ReviewerLost, ReviewsKept, ReviewsShape, Dispatching
<1>5. ReviewsShape'
  <2>1. UNCHANGED <<head, reviews, written, triggered, raced, indexing, merged, indexer, points,
                    rebuilding, gone>>
    BY DEF ReviewerLost
  <2> QED BY <1>2, <1>3, <1>4, <2>1 DEF ReviewsKept, ReviewsShape
<1>6. MessagesCounted'
  <2>1. /\ Cardinality(Waiting') <= Cardinality(Waiting)
        /\ Cardinality(Waiting) \in Nat /\ Cardinality(Waiting') \in Nat
    BY <1>2, WaitingCounted
  <2>2. /\ triggered \in Nat /\ written \in Nat /\ indexing \in Nat /\ (IF merged THEN 1 ELSE 0) \in Nat
        /\ UNCHANGED <<merged, written, indexing, triggered>>
    BY ReviewsAssumption DEF ReviewerLost, ReviewsKept, ReviewsShape
  <2> QED BY <1>3, <2>1, <2>2 DEF ReviewsKept, MessagesCounted
<1>7. OneReview'
  BY <1>2 DEF ReviewsKept, ReviewerLost, OneReview, OnlyMoves, Writing
<1>8. IndexFollows'
  BY <1>2, <1>4 DEF ReviewsKept, ReviewerLost, IndexFollows, OnItsWay, Stored, Fresh, Embedding,
                    OnlyMoves, Dispatching
<1> QED BY <1>5, <1>6, <1>7, <1>8 DEF ReviewsKept

-----------------------------------------------------------------------------
(* The index task *)

IndexJob == [phase : {"free", "embedding"}, diff : 0..MaxHeads, id : 0..MaxReviews]

IndexerMoves(w) == \A v \in Indexer \ {w} : indexer'[v] = indexer[v]

LEMMA RestingJob == Resting \in IndexJob /\ Resting.phase = "free"
BY ReviewsAssumption DEF Resting, IndexJob

\* With one review the task reads it, with two it gives up; a second task at
\* the same time is a shuffle.
LEMMA TakeIndexKeeps ==
  ASSUME NEW w \in Indexer, NEW found \in BOOLEAN, ReviewsKept, TakeIndex(w, found)
  PROVE  ReviewsKept'
<1> DEFINE Job0(r) == [phase |-> "embedding", id |-> r.id, diff |-> IF r.diff = 0 THEN head ELSE r.diff]
<1>1. /\ indexing \in Nat /\ indexing' \in Nat /\ indexing' = indexing - 1
  BY DEF TakeIndex, ReviewsKept, ReviewsShape
<1>2. \A r \in FoundReview : Job0(r) \in IndexJob
  <2> SUFFICES ASSUME NEW r \in FoundReview PROVE Job0(r) \in IndexJob
    OBVIOUS
  <2>1. r.id \in 0..MaxReviews /\ r.diff \in 0..MaxHeads /\ head \in 0..MaxHeads
    <3>1. CASE reviews = {}
      BY <3>1, ReviewsAssumption DEF ReviewsKept, ReviewsShape, FoundReview, NoReview
    <3>2. CASE reviews # {}
      BY <3>2, ReviewsAssumption DEF ReviewsKept, ReviewsShape, Review, FoundReview
    <3> QED BY <3>1, <3>2
  <2> QED BY <2>1 DEF IndexJob
<1>3. IF gone \/ Cardinality(reviews) > 1 THEN UNCHANGED indexer
      ELSE \E r \in FoundReview :
              indexer' = IF ~Indexable(r, found) THEN indexer ELSE [indexer EXCEPT ![w] = Job0(r)]
  BY DEF TakeIndex
<1>4. indexer \in [Indexer -> IndexJob] /\ shuffled' \in BOOLEAN
  BY DEF TakeIndex, ReviewsKept, ReviewsShape, IndexJob
<1>5. /\ indexer' \in [Indexer -> IndexJob] /\ IndexerMoves(w)
      /\ ~gone /\ ~(Cardinality(reviews) > 1) =>
            \E r \in FoundReview : Indexable(r, found) => indexer'[w] = Job0(r)
      /\ indexer'[w] = indexer[w] \/ \E r \in FoundReview : indexer'[w] = Job0(r)
  <2> HIDE DEF Job0
  <2>0. CASE gone \/ Cardinality(reviews) > 1
    BY <1>3, <1>4, <2>0 DEF IndexerMoves
  <2>1. CASE ~gone /\ ~(Cardinality(reviews) > 1)
    <3>1. PICK r \in FoundReview :
             indexer' = IF ~Indexable(r, found) THEN indexer ELSE [indexer EXCEPT ![w] = Job0(r)]
      BY <1>3, <2>1
    <3>2. Job0(r) \in IndexJob
      BY <1>2, <3>1
    <3>3. CASE Indexable(r, found)
      BY <1>4, <2>1, <3>1, <3>2, <3>3 DEF IndexerMoves
    <3>4. CASE ~Indexable(r, found)
      BY <1>4, <2>1, <3>1, <3>4 DEF IndexerMoves
    <3> QED BY <3>3, <3>4
  <2> QED BY <2>0, <2>1
<1>6. UNCHANGED <<head, reviews, written, triggered, requests, reviewer, raced, points, merged,
                  lost, rebuilding, gone>>
  BY DEF TakeIndex
<1>7. ReviewsShape'
  BY <1>1, <1>4, <1>5, <1>6 DEF ReviewsKept, ReviewsShape, IndexJob
<1>8. MessagesCounted'
  <2>1. Waiting' = Waiting
    BY <1>6 DEF Waiting, Dispatching
  <2>2. written \in Nat /\ lost \in Nat /\ (IF merged THEN 1 ELSE 0) \in Nat
    BY ReviewsAssumption DEF ReviewsKept, ReviewsShape
  <2> QED BY <1>1, <1>6, <2>1, <2>2, WaitingFinite DEF ReviewsKept, MessagesCounted
<1>9. OneReview'
  BY <1>6 DEF ReviewsKept, OneReview, Writing
<1>10. IndexFollows'
  <2> SUFFICES ASSUME ~raced, ~shuffled' PROVE IndexFollows'
    BY <1>6 DEF IndexFollows
  <2>1. ~shuffled /\ \A v \in Indexer : ~Embedding(v)
    BY <1>4 DEF TakeIndex, Embedding, ReviewsKept, ReviewsShape
  <2>2. AtMostOne(reviews)
    BY DEF ReviewsKept, OneReview
  <2>3. \A v \in Indexer : Embedding(v)' => v = w
    BY <1>5, <2>1 DEF Embedding, IndexerMoves
  <2>4. \A s \in reviews : s.diff # 0 /\ s.text =>
           Embedding(w)' /\ indexer'[w].diff = s.diff /\ indexer'[w].id = s.id
    <3> SUFFICES ASSUME NEW s \in reviews, s.diff # 0, s.text
                 PROVE  Embedding(w)' /\ indexer'[w].diff = s.diff /\ indexer'[w].id = s.id
      OBVIOUS
    <3>1. ~gone /\ ~(Cardinality(reviews) > 1) /\ FoundReview = reviews
      BY <2>2, AtMostOneCount DEF ReviewsKept, ReviewsShape, FoundReview
    <3>2. PICK r \in reviews : Indexable(r, found) => indexer'[w] = Job0(r)
      BY <1>5, <3>1
    <3>3. r = s /\ Indexable(s, found)
      BY <2>2 DEF AtMostOne, Indexable
    <3> QED BY <3>2, <3>3 DEF Embedding
  <2>5. \A b \in rebuilding : Fresh(b)
    BY <2>1 DEF ReviewsKept, IndexFollows
  <2> QED BY <1>6, <2>3, <2>4, <2>5 DEF IndexFollows, OnItsWay, Fresh
<1> QED BY <1>7, <1>8, <1>9, <1>10 DEF ReviewsKept

LEMMA UpsertKeeps ==
  ASSUME NEW w \in Indexer, NEW ok \in BOOLEAN, ReviewsKept, Upsert(w, ok)
  PROVE  ReviewsKept'
<1>1. /\ indexer \in [Indexer -> IndexJob] /\ Embedding(w)
      /\ indexer' = [indexer EXCEPT ![w] = Resting]
  BY DEF Upsert, Embedding, ReviewsKept, ReviewsShape, IndexJob
<1>2. indexer' \in [Indexer -> IndexJob] /\ IndexerMoves(w) /\ ~Embedding(w)'
  BY <1>1, RestingJob DEF IndexerMoves, Embedding
<1>3. shuffled' \in BOOLEAN /\ (~shuffled' => ~shuffled /\ ok)
  BY DEF Upsert, ReviewsKept, ReviewsShape
<1>4. points' = IF ok THEN [points EXCEPT ![indexer[w].diff] = indexer[w].id] ELSE points
  BY DEF Upsert
<1>5. points' \in [1..MaxHeads -> 0..MaxReviews]
  <2>1. points \in [1..MaxHeads -> 0..MaxReviews] /\ indexer[w].id \in 0..MaxReviews
    BY <1>1 DEF IndexJob, ReviewsKept, ReviewsShape
  <2> QED BY <1>4, <2>1
<1>6. UNCHANGED <<head, reviews, written, triggered, requests, reviewer, raced, indexing, merged,
                  lost, rebuilding, gone>>
  BY DEF Upsert
<1>7. ReviewsShape'
  BY <1>2, <1>3, <1>5, <1>6 DEF ReviewsKept, ReviewsShape, IndexJob
<1>8. MessagesCounted'
  BY <1>6 DEF ReviewsKept, MessagesCounted, Waiting, Dispatching
<1>9. OneReview'
  BY <1>6 DEF ReviewsKept, OneReview, Writing
<1>10. IndexFollows'
  <2> SUFFICES ASSUME ~raced, ~shuffled' PROVE IndexFollows'
    BY <1>6 DEF IndexFollows
  <2>1. /\ \A v \in Indexer : Embedding(v) => v = w
        /\ \A r \in reviews : r.diff # 0 /\ r.text => OnItsWay(r) \/ Stored(r)
        /\ \A b \in rebuilding : Fresh(b)
    BY <1>1, <1>3 DEF ReviewsKept, IndexFollows
  <2>2. \A v \in Indexer : ~Embedding(v)'
    BY <1>2, <2>1 DEF Embedding, IndexerMoves
  <2>3. points' = [points EXCEPT ![indexer[w].diff] = indexer[w].id]
    BY <1>3, <1>4
  <2> SUFFICES ASSUME NEW r \in reviews, r.diff # 0, r.text PROVE (OnItsWay(r) \/ Stored(r))'
    BY <1>6, <2>1, <2>2 DEF IndexFollows, Fresh
  <2>4. r.diff \in 1..MaxHeads /\ points \in [1..MaxHeads -> 0..MaxReviews]
    BY ReviewsAssumption DEF ReviewsKept, ReviewsShape, Review
  <2>5. CASE indexer[w].diff = r.diff /\ indexer[w].id = r.id
    <3>1. points'[r.diff] = r.id
      BY <2>3, <2>4, <2>5
    <3> QED BY <2>2, <3>1 DEF Stored
  <2>6. CASE Stored(r)
    <3>1. points'[r.diff] = r.id
      BY <1>1, <2>3, <2>4, <2>6 DEF Stored
    <3> QED BY <2>2, <3>1 DEF Stored
  <2>7. CASE (\E v \in Reviewer : Dispatching(v)) \/ indexing > 0
    BY <1>6, <2>7 DEF OnItsWay, Dispatching
  <2> QED BY <2>1, <2>5, <2>6, <2>7 DEF OnItsWay
<1> QED BY <1>7, <1>8, <1>9, <1>10 DEF ReviewsKept

LEMMA IndexerLostKeeps == ASSUME NEW w \in Indexer, ReviewsKept, IndexerLost(w) PROVE ReviewsKept'
<1>1. indexer \in [Indexer -> IndexJob] /\ indexer' = [indexer EXCEPT ![w] = Resting]
  BY DEF IndexerLost, ReviewsKept, ReviewsShape, IndexJob
<1>2. indexer' \in [Indexer -> IndexJob] /\ IndexerMoves(w) /\ ~Embedding(w)'
  BY <1>1, RestingJob DEF IndexerMoves, Embedding
<1>3. /\ lost \in Nat /\ lost' = lost + 1 /\ lost' \in 0..MaxLost
      /\ indexing \in Nat /\ indexing' = indexing + 1 /\ indexing' > 0
  BY ReviewsAssumption DEF IndexerLost, ReviewsKept, ReviewsShape
<1>4. UNCHANGED <<head, reviews, written, triggered, requests, reviewer, raced, points, shuffled,
                  merged, rebuilding, gone>>
  BY DEF IndexerLost
<1>5. ReviewsShape'
  BY <1>2, <1>3, <1>4 DEF ReviewsKept, ReviewsShape, IndexJob
<1>6. MessagesCounted'
  <2>1. Waiting' = Waiting
    BY <1>4 DEF Waiting, Dispatching
  <2>2. written \in Nat /\ triggered \in Nat /\ requests \in Nat /\ (IF merged THEN 1 ELSE 0) \in Nat
    BY ReviewsAssumption DEF ReviewsKept, ReviewsShape
  <2> QED BY <1>3, <1>4, <2>1, <2>2, WaitingFinite DEF ReviewsKept, MessagesCounted
<1>7. OneReview'
  BY <1>4 DEF ReviewsKept, OneReview, Writing
<1>8. IndexFollows'
  BY <1>2, <1>3, <1>4 DEF ReviewsKept, IndexFollows, OnItsWay, Fresh, Embedding, IndexerMoves
<1> QED BY <1>5, <1>6, <1>7, <1>8 DEF ReviewsKept

-----------------------------------------------------------------------------
(* The rebuild *)

LEMMA SelectRowsKeeps == ReviewsKept /\ SelectRows => ReviewsKept'
<1> SUFFICES ASSUME ReviewsKept, SelectRows PROVE ReviewsKept'
  OBVIOUS
<1>1. UNCHANGED <<head, reviews, written, triggered, requests, reviewer, raced, indexing, indexer,
                  points, shuffled, merged, lost, gone>>
  BY DEF SelectRows
<1>2. rebuilding' = {Copy(r) : r \in {r \in reviews : r.diff # 0}}
  BY DEF SelectRows
<1>3. rebuilding' \subseteq Selected
  BY <1>2, ReviewsAssumption DEF ReviewsKept, ReviewsShape, Review, Copy, Selected
<1>4. ReviewsShape'
  BY <1>1, <1>3 DEF ReviewsKept, ReviewsShape
<1>5. MessagesCounted'
  BY <1>1 DEF ReviewsKept, MessagesCounted, Waiting, Dispatching
<1>6. OneReview'
  BY <1>1 DEF ReviewsKept, OneReview, Writing
<1>7. IndexFollows'
  <2> SUFFICES ASSUME ~raced, ~shuffled PROVE IndexFollows'
    BY <1>1 DEF IndexFollows
  <2>1. AtMostOne(reviews)
    BY DEF ReviewsKept, OneReview
  <2>2. \A b \in rebuilding' : Fresh(b)
    BY <1>2, <2>1 DEF AtMostOne, Copy, Fresh
  <2> QED BY <1>1, <2>2 DEF ReviewsKept, IndexFollows, OnItsWay, Stored, Fresh, Embedding, Dispatching
<1> QED BY <1>4, <1>5, <1>6, <1>7 DEF ReviewsKept

\* Until the stored review was replaced under it, it writes what is stored.
LEMMA RebuildRowKeeps == ReviewsKept /\ (\E ok \in BOOLEAN : RebuildRow(ok)) => ReviewsKept'
<1> SUFFICES ASSUME ReviewsKept, NEW ok \in BOOLEAN, RebuildRow(ok) PROVE ReviewsKept'
  OBVIOUS
<1>1. PICK b \in rebuilding :
        /\ rebuilding' = rebuilding \ {b}
        /\ points' = IF ok THEN [points EXCEPT ![b.diff] = b.id] ELSE points
  BY DEF RebuildRow
<1>2. /\ b.diff \in 1..MaxHeads /\ b.id \in 1..MaxReviews /\ b.id \in 0..MaxReviews
      /\ points \in [1..MaxHeads -> 0..MaxReviews]
  BY ReviewsAssumption DEF ReviewsKept, ReviewsShape, Selected
<1>3. UNCHANGED <<head, reviews, written, triggered, requests, reviewer, raced, indexing, indexer,
                  shuffled, merged, lost, gone>>
  BY DEF RebuildRow
<1>4. ReviewsShape'
  BY <1>1, <1>2, <1>3 DEF ReviewsKept, ReviewsShape
<1>5. MessagesCounted'
  BY <1>3 DEF ReviewsKept, MessagesCounted, Waiting, Dispatching
<1>6. OneReview'
  BY <1>3 DEF ReviewsKept, OneReview, Writing
<1>7. IndexFollows'
  <2> SUFFICES ASSUME ~raced, ~shuffled PROVE IndexFollows'
    BY <1>3 DEF IndexFollows
  <2>1. Fresh(b) /\ \A c \in rebuilding' : Fresh(c)
    BY <1>1 DEF ReviewsKept, IndexFollows
  <2>2. ASSUME NEW r \in reviews, points[r.diff] = r.id, r.diff \in 1..MaxHeads
        PROVE  points'[r.diff] = r.id
    BY <1>1, <1>2, <2>1, <2>2 DEF Fresh
  <2>3. \A r \in reviews : r.diff # 0 => r.diff \in 1..MaxHeads
    BY ReviewsAssumption DEF ReviewsKept, ReviewsShape, Review
  <2> QED BY <1>3, <2>1, <2>2, <2>3
          DEF ReviewsKept, IndexFollows, OnItsWay, Stored, Fresh, Embedding, Dispatching
<1> QED BY <1>4, <1>5, <1>6, <1>7 DEF ReviewsKept

LEMMA RebuilderLostKeeps == ReviewsKept /\ RebuilderLost => ReviewsKept'
<1> SUFFICES ASSUME ReviewsKept, RebuilderLost PROVE ReviewsKept'
  OBVIOUS
<1>1. /\ lost \in Nat /\ lost' = lost + 1 /\ lost' \in 0..MaxLost /\ rebuilding' = {}
      /\ UNCHANGED <<head, reviews, written, triggered, requests, reviewer, raced, indexing, indexer,
                     points, shuffled, merged, gone>>
  BY ReviewsAssumption DEF RebuilderLost, ReviewsKept, ReviewsShape
<1>2. ReviewsShape'
  BY <1>1 DEF ReviewsKept, ReviewsShape
<1>3. MessagesCounted'
  <2>1. Waiting' = Waiting
    BY <1>1 DEF Waiting, Dispatching
  <2>2. /\ written \in Nat /\ triggered \in Nat /\ requests \in Nat /\ indexing \in Nat
        /\ (IF merged THEN 1 ELSE 0) \in Nat
    BY ReviewsAssumption DEF ReviewsKept, ReviewsShape
  <2> QED BY <1>1, <2>1, <2>2, WaitingFinite DEF ReviewsKept, MessagesCounted
<1>4. OneReview' /\ IndexFollows'
  BY <1>1 DEF ReviewsKept, OneReview, IndexFollows, OnItsWay, Stored, Embedding, Dispatching, Writing
<1> QED BY <1>2, <1>3, <1>4 DEF ReviewsKept

-----------------------------------------------------------------------------
(* The theorems *)

LEMMA ReviewsInitKept == ReviewsInit => ReviewsKept
<1> SUFFICES ASSUME ReviewsInit PROVE ReviewsKept
  OBVIOUS
<1>1. reviewer \in [Reviewer -> Job] /\ indexer \in [Indexer -> IndexJob]
  BY FreeJob, RestingJob DEF ReviewsInit
<1>2. ReviewsShape
  <2>1. points \in [1..MaxHeads -> 0..MaxReviews] /\ head \in 1..MaxHeads
    BY ReviewsAssumption DEF ReviewsInit
  <2>2. /\ written \in 0..MaxReviews /\ triggered \in 0..MaxTriggers /\ lost \in 0..MaxLost
    BY ReviewsAssumption DEF ReviewsInit
  <2>3. requests \in Nat /\ indexing \in Nat /\ reviews \subseteq Review
        /\ raced \in BOOLEAN /\ shuffled \in BOOLEAN /\ merged \in BOOLEAN
        /\ rebuilding \subseteq Selected /\ reviews = {} /\ gone \in BOOLEAN
    BY DEF ReviewsInit
  <2> QED BY <1>1, <2>1, <2>2, <2>3 DEF ReviewsShape, IndexJob
<1>3. MessagesCounted
  <2>1. Waiting = {}
    BY DEF ReviewsInit, Waiting, Dispatching, Free
  <2> QED BY <2>1, FS_EmptySet DEF ReviewsInit, MessagesCounted
<1>4. OneReview /\ IndexFollows
  BY DEF ReviewsInit, OneReview, AtMostOne, IndexFollows, Writing, Embedding, Free, Resting
<1> QED BY <1>2, <1>3, <1>4 DEF ReviewsKept

LEMMA ReviewsStep == ReviewsKept /\ [ReviewsNext]_reviewVars => ReviewsKept'
<1> SUFFICES ASSUME ReviewsKept, [ReviewsNext]_reviewVars PROVE ReviewsKept'
  OBVIOUS
<1>1. CASE UNCHANGED reviewVars
  <2>1. Waiting' = Waiting
    BY <1>1 DEF reviewVars, Waiting, Dispatching
  <2> QED BY <1>1, <2>1 DEF reviewVars, index, ReviewsKept, ReviewsShape, MessagesCounted,
             OneReview, IndexFollows, OnItsWay, Stored, Fresh, Writing, Embedding, Dispatching
<1>2. CASE ChangeDiff \/ DropRepository \/ TriggerReview
  BY <1>2, ChangeDiffKeeps, DropRepositoryKeeps, TriggerReviewKeeps
<1>3. ASSUME NEW b \in BOOLEAN, MergeIndexes(b) PROVE ReviewsKept'
  BY <1>3, MergeIndexesKeeps
<1>4. ASSUME NEW w \in Reviewer, TakeReview(w) \/ ReviewFails(w) \/ ReviewerLost(w)
      PROVE  ReviewsKept'
  BY <1>4, TakeReviewKeeps, ReviewFailsKeeps, ReviewerLostKeeps
<1>5. ASSUME NEW w \in Reviewer, NEW b \in BOOLEAN,
             SelectStale(w, b) \/ CommitReview(w, b) \/ DispatchIndex(w, b)
      PROVE  ReviewsKept'
  BY <1>5, SelectStaleKeeps, CommitReviewKeeps, DispatchIndexKeeps
<1>6. ASSUME NEW w \in Indexer, IndexerLost(w) \/ \E b \in BOOLEAN : TakeIndex(w, b) \/ Upsert(w, b)
      PROVE  ReviewsKept'
  BY <1>6, TakeIndexKeeps, IndexerLostKeeps, UpsertKeeps
<1>7. CASE SelectRows \/ RebuilderLost \/ \E ok \in BOOLEAN : RebuildRow(ok)
  BY <1>7, SelectRowsKeeps, RebuilderLostKeeps, RebuildRowKeeps
<1> QED BY <1>1, <1>2, <1>3, <1>4, <1>5, <1>6, <1>7 DEF ReviewsNext

LEMMA ReviewsAlways == ReviewsSpec => []ReviewsKept
<1> QED BY ReviewsInitKept, ReviewsStep, PTL DEF ReviewsSpec

\* The rows and tasks of the reviews keep their types, and no queue holds more
\* messages than were sent for something.
THEOREM ReviewsTyped == ReviewsSpec => []ReviewsTypeOK
<1>1. ReviewsKept => ReviewsTypeOK
  <2> SUFFICES ASSUME ReviewsKept PROVE ReviewsTypeOK
    OBVIOUS
  <2>1. requests \in 0..(MaxTriggers + MaxLost)
    BY ReviewsAssumption DEF ReviewsKept, ReviewsShape, MessagesCounted
  <2>2. indexing \in 0..(MaxReviews + MaxLost + 1)
    BY ReviewsAssumption, WaitingFinite DEF ReviewsKept, ReviewsShape, MessagesCounted
  <2> QED BY <2>1, <2>2 DEF ReviewsKept, ReviewsShape, ReviewsTypeOK, Job
<1> QED BY <1>1, ReviewsAlways, PTL

\* A pull request has one stored review until two tasks wrote from
\* overlapping reads, for any number of workers, repeats and lost tasks.
THEOREM CalmIsOneReview == ReviewsSpec => []CalmOneReview
<1>1. ReviewsKept => CalmOneReview
  BY AtMostOneCount DEF ReviewsKept, OneReview, CalmOneReview
<1> QED BY <1>1, ReviewsAlways, PTL

\* When the tasks and rebuilds are done the vector store holds the stored review of
\* the reviewed diff, unless writers or index tasks overlapped, an index task
\* failed, or a rebuild held a copy of a review that was replaced for the same diff.
THEOREM IndexEndsCurrent == ReviewsSpec => []IndexedIsCurrent
<1>1. ReviewsKept => IndexedIsCurrent
  BY DEF ReviewsKept, ReviewsShape, IndexFollows, IndexedIsCurrent, OnItsWay, Stored, Embedding, Dispatching
<1> QED BY <1>1, ReviewsAlways, PTL

-----------------------------------------------------------------------------
(***************************************************************************)
(* How a review is routed                                                  *)
(***************************************************************************)

(* Classes and severities *)

\* Of four numbers one is the first of the largest.
LEMMA FirstOfFour ==
  ASSUME NEW f, \A i \in 1..4 : f[i] \in Int
  PROVE  \E i \in 1..4 : /\ \A j \in 1..4 : f[j] <= f[i]
                         /\ \A j \in 1..(i - 1) : f[j] < f[i]
<1>1. f[1] \in Int /\ f[2] \in Int /\ f[3] \in Int /\ f[4] \in Int
  OBVIOUS
<1>2. \A j \in 1..4 : j \in {1, 2, 3, 4}
  OBVIOUS
<1>3. CASE f[2] <= f[1] /\ f[3] <= f[1] /\ f[4] <= f[1]
  BY <1>1, <1>2, <1>3
<1>4. CASE f[1] < f[2] /\ f[3] <= f[2] /\ f[4] <= f[2]
  <2>1. \A j \in 1..(2 - 1) : j = 1
    OBVIOUS
  <2> QED BY <1>1, <1>2, <1>4, <2>1
<1>5. CASE f[1] < f[3] /\ f[2] < f[3] /\ f[4] <= f[3]
  <2>1. \A j \in 1..(3 - 1) : j \in {1, 2}
    OBVIOUS
  <2> QED BY <1>1, <1>2, <1>5, <2>1
<1>6. CASE f[1] < f[4] /\ f[2] < f[4] /\ f[3] < f[4]
  <2>1. \A j \in 1..(4 - 1) : j \in {1, 2, 3}
    OBVIOUS
  <2> QED BY <1>1, <1>2, <1>6, <2>1
<1> QED BY <1>1, <1>3, <1>4, <1>5, <1>6

LEMMA ScoresTyped ==
  ASSUME NEW d \in Diff
  PROVE  \A i \in 1..4 : Score(d)[InOrder[i]] \in Int
<1>1. d \in Signals
  BY RoutingAssumption
<1>2. \A n \in Nat : Capped(n) \in Nat
  BY DEF Capped
<1>3. /\ Score(d).functional \in Int /\ Score(d).documentation \in Int /\ Score(d).discussion \in Int
  BY <1>1, <1>2 DEF Score, Signals
<1>4. Score(d).refactoring \in Int
  <2> DEFINE extra == IF d.added > 0 /\ d.removed > 0 /\
                         10 * (IF d.added < d.removed THEN d.added ELSE d.removed)
                           > 6 * (IF d.added < d.removed THEN d.removed ELSE d.added)
                      THEN 3 ELSE 0
  <2>1. extra \in Nat
    OBVIOUS
  <2>2. Score(d).refactoring = 3 * Capped(d.moves) + extra
    BY DEF Score
  <2> HIDE DEF extra
  <2> QED BY <1>1, <1>2, <2>1, <2>2 DEF Signals
<1>5. ASSUME NEW i \in 1..4 PROVE InOrder[i] \in {"functional", "refactoring", "documentation", "discussion"}
  BY <1>5 DEF InOrder
<1> QED BY <1>3, <1>4, <1>5

LEMMA ClassTyped ==
  ASSUME NEW d \in Diff
  PROVE  ClassifyDiff(d) \in Category
<1> DEFINE f == [i \in 1..4 |-> Score(d)[InOrder[i]]]
           Leads(i) == /\ \A j \in DOMAIN InOrder : Score(d)[InOrder[j]] <= Score(d)[InOrder[i]]
                       /\ \A j \in 1..(i - 1) : Score(d)[InOrder[j]] < Score(d)[InOrder[i]]
<1>1. DOMAIN InOrder = 1..4
  BY DEF InOrder
<1>2. PICK i \in 1..4 : /\ \A j \in 1..4 : f[j] <= f[i]
                        /\ \A j \in 1..(i - 1) : f[j] < f[i]
  <2>1. \A j \in 1..4 : f[j] \in Int
    BY ScoresTyped
  <2> HIDE DEF f
  <2> QED BY <2>1, FirstOfFour
<1>3. Leads(i)
  <2>1. \A j \in 1..(i - 1) : j \in 1..4
    OBVIOUS
  <2> QED BY <1>1, <1>2, <2>1
<1>4. (CHOOSE j \in DOMAIN InOrder : Leads(j)) \in 1..4
  <2> HIDE DEF Leads
  <2> QED BY <1>1, <1>3
<1>5. \A j \in 1..4 : InOrder[j] \in Category
  BY DEF InOrder, Category
<1>6. InOrder[CHOOSE j \in DOMAIN InOrder : Leads(j)] \in Category
  <2> HIDE DEF Leads
  <2> QED BY <1>4, <1>5
<1>7. "false_positive" \in Category
  BY DEF Category
<1> QED BY <1>6, <1>7, Zenon DEF ClassifyDiff

\* The samples that answered are as many as there are samples, at most.
LEMMA SamplesCounted ==
  ASSUME NEW as, NEW n \in Nat, DOMAIN as \subseteq 1..n, NEW P \in SUBSET DOMAIN as
  PROVE  IsFiniteSet(P) /\ Cardinality(P) \in 0..n
<1>1. IsFiniteSet(1..n) /\ Cardinality(1..n) = n
  BY FS_Interval
<1>2. IsFiniteSet(P) /\ Cardinality(P) <= Cardinality(1..n)
  BY <1>1, FS_Subset
<1> QED BY <1>1, <1>2, FS_CardinalityType

LEMMA MajorityTyped ==
  ASSUME NEW as, NEW n \in Nat, DOMAIN as \subseteq 1..n
  PROVE  MajoritySeverity(as) \in Severity
<1> DEFINE g == [i \in 1..4 |-> Frequency(as, i - 1)]
           leading == {s \in Severity : \A t \in Severity : Frequency(as, t) <= Frequency(as, s)}
<1>1. ASSUME NEW s \in Severity PROVE Frequency(as, s) \in Int
  <2>1. Frequency(as, s) \in Nat
    BY SamplesCounted, FS_CardinalityType, Zenon DEF Frequency, Among
  <2>2. \A x \in Nat : x \in Int
    OBVIOUS
  <2> QED BY <2>1, <2>2, Zenon
<1>2. ASSUME NEW i \in 1..4 PROVE g[i] \in Int /\ g[i] = Frequency(as, i - 1) /\ i - 1 \in Severity
  <2>1. i - 1 \in Severity
    BY DEF Severity
  <2>2. g[i] = Frequency(as, i - 1)
    OBVIOUS
  <2>3. Frequency(as, i - 1) \in Int
    BY <1>1, <2>1, Zenon
  <2> HIDE DEF g
  <2> QED BY <2>1, <2>2, <2>3, Zenon
<1>3. PICK i \in 1..4 : \A j \in 1..4 : g[j] <= g[i]
  <2> HIDE DEF g
  <2> QED BY <1>2, FirstOfFour
<1>4. i - 1 \in leading
  <2>1. ASSUME NEW t \in Severity PROVE Frequency(as, t) <= Frequency(as, i - 1)
    <3>1. t + 1 \in 1..4 /\ (t + 1) - 1 = t
      BY DEF Severity
    <3>2. g[t + 1] <= g[i] /\ g[t + 1] = Frequency(as, t)
      BY <1>3, <3>1
    <3> QED BY <1>2, <3>2
  <2> QED BY <1>2, <2>1
<1>5. \E s \in leading : \A t \in leading : t <= s
  <2>1. leading \subseteq {0, 1, 2, 3} /\ leading # {}
    <3>1. Severity \subseteq {0, 1, 2, 3}
      BY DEF Severity
    <3> QED BY <1>4, <3>1
  <2> HIDE DEF leading
  <2>2. CASE 3 \in leading
    BY <2>1, <2>2
  <2>3. CASE 3 \notin leading /\ 2 \in leading
    BY <2>1, <2>3
  <2>4. CASE 3 \notin leading /\ 2 \notin leading /\ 1 \in leading
    BY <2>1, <2>4
  <2>5. CASE 3 \notin leading /\ 2 \notin leading /\ 1 \notin leading
    <3>1. 0 \in leading /\ \A t \in leading : t = 0
      BY <2>1, <2>5
    <3> QED BY <3>1
  <2> QED BY <2>2, <2>3, <2>4, <2>5
<1>6. leading \subseteq Severity
  OBVIOUS
<1>7. MajoritySeverity(as) = CHOOSE s \in leading : \A t \in leading : t <= s
  BY DEF MajoritySeverity
<1> HIDE DEF leading
<1> QED BY <1>5, <1>6, <1>7

\* A severity is only ever lowered to medium.
LEMMA ClampTyped ==
  ASSUME NEW c, NEW m, NEW s \in Severity
  PROVE  Clamp(c, m, s) \in Severity /\ Clamp(c, m, s) \in {s, Medium}
BY DEF Clamp, Severity, Medium

-----------------------------------------------------------------------------
(* Joining and folding sequences *)

\* The recursion of FlattenSeq has a solution, which joins sequences to one.
LEMMA JoinExists ==
  ASSUME NEW T, NEW parts \in Seq(Seq(T))
  PROVE  \E g \in [1..Len(parts) -> Seq(T)] :
           \A i \in 1..Len(parts) : g[i] = IF i = 1 THEN parts[i] ELSE g[i - 1] \o parts[i]
<1> DEFINE Solves(g, m) == \A i \in 1..m : g[i] = IF i = 1 THEN parts[i] ELSE g[i - 1] \o parts[i]
           S == {m \in Nat : m <= Len(parts) => \E g \in [1..m -> Seq(T)] : Solves(g, m)}
<1>1. 0 \in S
  <2>1. 1..0 = {}
    OBVIOUS
  <2> DEFINE g == [i \in 1..0 |-> <<>>]
  <2>2. g \in [1..0 -> Seq(T)] /\ Solves(g, 0)
    BY <2>1
  <2> HIDE DEF g
  <2> QED BY <2>2
<1>2. ASSUME NEW m \in S PROVE m + 1 \in S
  <2>0. m \in Nat /\ m + 1 \in Nat
    OBVIOUS
  <2> SUFFICES ASSUME m + 1 <= Len(parts)
               PROVE  \E g \in [1..(m + 1) -> Seq(T)] : Solves(g, m + 1)
    BY <2>0, Zenon
  <2>1. m \in Nat /\ m <= Len(parts)
    OBVIOUS
  <2>2. PICK g \in [1..m -> Seq(T)] : Solves(g, m)
    BY <2>1
  <2> DEFINE h == [i \in 1..(m + 1) |-> IF i <= m THEN g[i]
                                        ELSE IF m = 0 THEN parts[1] ELSE g[m] \o parts[m + 1]]
  <2>3. \A i \in 1..Len(parts) : parts[i] \in Seq(T)
    OBVIOUS
  <2>4. h \in [1..(m + 1) -> Seq(T)]
    <3>1. m = 0 => parts[1] \in Seq(T)
      BY <2>1, <2>3
    <3>2. m # 0 => g[m] \in Seq(T) /\ parts[m + 1] \in Seq(T)
      BY <2>1, <2>2, <2>3
    <3>3. m # 0 => g[m] \o parts[m + 1] \in Seq(T)
      BY <3>2
    <3>4. \A i \in 1..(m + 1) : i <= m => g[i] \in Seq(T)
      BY <2>1, <2>2
    <3> QED BY <2>1, <3>1, <3>3, <3>4
  <2>5. ASSUME NEW i \in 1..(m + 1)
        PROVE  h[i] = IF i = 1 THEN parts[i] ELSE h[i - 1] \o parts[i]
    <3>1. CASE i <= m /\ i # 1
      <4>1. i - 1 \in 1..m /\ i - 1 <= m /\ i - 1 \in 1..(m + 1) /\ i \in 1..m
        BY <2>1, <3>1
      <4>2. h[i] = g[i] /\ h[i - 1] = g[i - 1]
        BY <3>1, <4>1
      <4> QED BY <2>2, <3>1, <4>1, <4>2
    <3>2. CASE i <= m /\ i = 1
      <4>1. 1 \in 1..m /\ h[1] = g[1]
        BY <2>1, <3>2
      <4> QED BY <2>2, <3>2, <4>1
    <3>3. CASE i = m + 1 /\ m = 0
      BY <2>1, <3>3
    <3>4. CASE i = m + 1 /\ m # 0
      <4>1. ~(i <= m) /\ i # 1 /\ m \in 1..(m + 1) /\ i - 1 = m
        BY <2>1, <3>4
      <4>2. h[i] = g[m] \o parts[m + 1] /\ h[m] = g[m]
        BY <2>1, <3>4, <4>1
      <4> QED BY <3>4, <4>1, <4>2
    <3> QED BY <2>1, <3>1, <3>2, <3>3, <3>4
  <2> HIDE DEF h
  <2> QED BY <2>4, <2>5
<1> HIDE DEF S
<1>3. S = Nat
  <2>1. S \subseteq Nat
    BY DEF S
  <2> QED BY <1>1, <1>2, <2>1, Reached
<1>4. Len(parts) \in S /\ Len(parts) <= Len(parts)
  BY <1>3
<1> QED BY <1>4 DEF S

\* What is joined of sequences over T is a sequence over T.
LEMMA JoinedTyped ==
  ASSUME NEW T, NEW parts \in Seq(Seq(T))
  PROVE  FlattenSeq(parts) \in Seq(T)
<1> DEFINE Step(g) == [i \in 1..Len(parts) |-> IF i = 1 THEN parts[i] ELSE g[i - 1] \o parts[i]]
           flatten == CHOOSE g : g = Step(g)
           n == Len(parts)
<1>0. n \in Nat
  OBVIOUS
<1>1. FlattenSeq(parts) = IF n = 0 THEN parts ELSE flatten[n]
  BY DEF FlattenSeq
<1>2. CASE n = 0
  <2>1. parts = <<>>
    BY <1>2
  <2> QED BY <1>1, <1>2, <2>1
<1>3. CASE n # 0
  <2>1. PICK g \in [1..n -> Seq(T)] :
          \A i \in 1..n : g[i] = IF i = 1 THEN parts[i] ELSE g[i - 1] \o parts[i]
    BY JoinExists, Zenon
  <2>2. g = Step(g)
    BY <2>1
  <2>3. flatten = Step(flatten)
    <3> HIDE DEF Step
    <3> QED BY <2>2
  <2> HIDE DEF flatten
  <2> DEFINE S == {m \in Nat : m + 1 <= n => flatten[m + 1] \in Seq(T)}
  <2>4. \A i \in 1..n : flatten[i] = IF i = 1 THEN parts[i] ELSE flatten[i - 1] \o parts[i]
    BY <2>3
  <2>5. 0 \in S
    <3>1. 1 <= n => flatten[1] = parts[1] /\ parts[1] \in Seq(T)
      BY <1>0, <2>4
    <3> QED BY <3>1
  <2>6. ASSUME NEW m \in S PROVE m + 1 \in S
    <3> SUFFICES ASSUME m + 1 + 1 <= n PROVE flatten[m + 1 + 1] \in Seq(T)
      OBVIOUS
    <3>1. m \in Nat /\ flatten[m + 1] \in Seq(T) /\ parts[m + 1 + 1] \in Seq(T)
      BY <1>0
    <3>2. flatten[m + 1 + 1] = flatten[m + 1] \o parts[m + 1 + 1]
      <4>1. m + 1 + 1 \in 1..n /\ m + 1 + 1 # 1 /\ (m + 1 + 1) - 1 = m + 1
        BY <1>0, <3>1
      <4> QED BY <2>4, <4>1
    <3> QED BY <3>1, <3>2
  <2> HIDE DEF S
  <2>7. S = Nat
    <3>1. S \subseteq Nat
      BY DEF S
    <3> QED BY <2>5, <2>6, <3>1, Reached
  <2>8. flatten[n] \in Seq(T)
    <3>1. n - 1 \in Nat /\ (n - 1) + 1 = n
      BY <1>0, <1>3
    <3>2. n - 1 \in S
      BY <2>7, <3>1
    <3> QED BY <1>0, <3>1, <3>2 DEF S
  <2> QED BY <1>1, <1>3, <2>8
<1> QED BY <1>2, <1>3
\* The last of some places.
LEMMA MaxOfSome ==
  ASSUME NEW n \in Nat, NEW s \in SUBSET (1..n), s # {}
  PROVE  Max(s) \in s /\ \A x \in s : x <= Max(s)
<1>1. s \in SUBSET Nat /\ \A x \in s : x <= n
  OBVIOUS
<1>2. PICK m \in s : \A x \in s : x <= m
  BY <1>1, Largest
<1>3. \A x \in s : m >= x
  BY <1>1, <1>2
<1>4. Max(s) \in s /\ \A x \in s : Max(s) >= x
  BY <1>3, Zenon DEF Max
<1> QED BY <1>1, <1>4

LEMMA MaxIsLast ==
  ASSUME NEW n \in Nat, NEW s \in SUBSET (1..n), n \in s
  PROVE  Max(s) = n
<1>1. Max(s) \in s /\ \A x \in s : x <= Max(s)
  BY MaxOfSome
<1>2. Max(s) \in 1..n /\ n <= Max(s)
  BY <1>1
<1> QED BY <1>2

\* The recursion of a fold over 1..n has a solution g with values in T.
HasFold(T, b, n, h) ==
  \E g \in [SUBSET (1..n) -> T] : \A s \in SUBSET (1..n) :
    g[s] = IF s = {} THEN b ELSE h[g[s \ {Max(s)}]][Max(s)]

LEMMA FoldExists ==
  ASSUME NEW T, NEW b \in T, NEW n \in Nat, NEW h \in [T -> [1..n -> T]]
  PROVE  HasFold(T, b, n, h)
<1> DEFINE Solves(g, m) == \A s \in SUBSET (1..m) :
                             g[s] = IF s = {} THEN b ELSE h[g[s \ {Max(s)}]][Max(s)]
           S == {m \in Nat : m <= n => \E g \in [SUBSET (1..m) -> T] : Solves(g, m)}
<1>1. 0 \in S
  <2> DEFINE g == [s \in SUBSET (1..0) |-> b]
  <2>1. \A s \in SUBSET (1..0) : s = {}
    OBVIOUS
  <2>2. g \in [SUBSET (1..0) -> T] /\ Solves(g, 0)
    BY <2>1
  <2> HIDE DEF g
  <2> QED BY <2>2
<1>2. ASSUME NEW m \in S PROVE m + 1 \in S
  <2>0. m \in Nat /\ m + 1 \in Nat
    OBVIOUS
  <2> SUFFICES ASSUME m + 1 <= n
               PROVE  \E g \in [SUBSET (1..(m + 1)) -> T] : Solves(g, m + 1)
    BY <2>0, Zenon
  <2>a. m <= n
    BY <2>0
  <2>1. PICK g \in [SUBSET (1..m) -> T] : Solves(g, m)
    BY <2>a, Zenon
  <2> DEFINE k == [s \in SUBSET (1..(m + 1)) |->
                     IF m + 1 \in s THEN h[g[s \ {m + 1}]][m + 1] ELSE g[s]]
  <2>2. ASSUME NEW s \in SUBSET (1..(m + 1)), m + 1 \notin s
        PROVE  s \in SUBSET (1..m)
    BY <2>0, <2>2
  <2>3. ASSUME NEW s \in SUBSET (1..(m + 1)), m + 1 \in s
        PROVE  s \ {m + 1} \in SUBSET (1..m) /\ Max(s) = m + 1
    <3>1. Max(s) = m + 1
      BY <2>0, <2>3, MaxIsLast
    <3>2. \A x \in s \ {m + 1} : x \in 1..m
      BY <2>0
    <3> QED BY <3>1, <3>2
  <2>4. m + 1 \in 1..n
    BY <2>0
  <2>5. k \in [SUBSET (1..(m + 1)) -> T]
    <3>1. ASSUME NEW s \in SUBSET (1..(m + 1)), m + 1 \in s
          PROVE  h[g[s \ {m + 1}]][m + 1] \in T
      <4>1. g[s \ {m + 1}] \in T
        BY <2>1, <2>3, <3>1
      <4> QED BY <2>4, <4>1
    <3>2. ASSUME NEW s \in SUBSET (1..(m + 1)), m + 1 \notin s
          PROVE  g[s] \in T
      BY <2>1, <2>2, <3>2
    <3> QED BY <3>1, <3>2
  <2>6. ASSUME NEW s \in SUBSET (1..(m + 1))
        PROVE  k[s] = IF s = {} THEN b ELSE h[k[s \ {Max(s)}]][Max(s)]
    <3>1. CASE m + 1 \in s
      <4>1. s \ {m + 1} \in SUBSET (1..(m + 1)) /\ m + 1 \notin s \ {m + 1} /\ Max(s) = m + 1 /\ s # {}
        BY <2>3, <3>1
      <4>2. k[s] = h[g[s \ {m + 1}]][m + 1] /\ k[s \ {m + 1}] = g[s \ {m + 1}]
        BY <3>1, <4>1
      <4> HIDE DEF k
      <4> QED BY <4>1, <4>2
    <3>2. CASE m + 1 \notin s
      <4>1. s \in SUBSET (1..m) /\ k[s] = g[s]
        BY <2>2, <3>2
      <4>2. s # {} => Max(s) \in s
        BY <2>0, MaxOfSome
      <4>3. s \ {Max(s)} \in SUBSET (1..(m + 1)) /\ m + 1 \notin s \ {Max(s)}
        BY <3>2
      <4>4. k[s \ {Max(s)}] = g[s \ {Max(s)}]
        BY <4>3
      <4> HIDE DEF k
      <4> QED BY <2>1, <4>1, <4>4
    <3> QED BY <3>1, <3>2
  <2> HIDE DEF k
  <2> QED BY <2>5, <2>6
<1> HIDE DEF S
<1>3. S = Nat
  <2>1. S \subseteq Nat
    BY DEF S
  <2> QED BY <1>1, <1>2, <2>1, Reached
<1>4. n \in S /\ n <= n
  BY <1>3
<1> QED BY <1>4 DEF S, HasFold

\* Four fifths of the words of w are among those of v.
Covered(w, v) == 10 * Cardinality(w \cap v) >= 8 * (IF w = {} THEN 1 ELSE Cardinality(w))

\* A comment is kept, or so much of it as the code takes for a repetition.
Accounted(w, kept) == \E j \in DOMAIN kept : kept[j] = w \/ Covered(w, kept[j])

\* kept is the comments of the place p: each one accounted for, none made up,
\* none a repetition of an earlier one.
KeepsOf(all, p, kept) ==
  /\ \A i \in At(all, p) : Accounted(all[i].words, kept)
  /\ \A j \in DOMAIN kept : \E i \in At(all, p) : kept[j] = all[i].words
  /\ \A j, k \in DOMAIN kept : j < k => ~Covered(kept[k], kept[j])

LEMMA CommentsAreKept ==
  ASSUME NEW all \in Seq(Suggestion), NEW p
  PROVE  KeepsOf(all, p, Comments(all, p))
<1> DEFINE T == Seq(SUBSET Nat)
           n == Len(all)
           Keep(kept, s) == IF s.place = p THEN KeepComment(kept, s.words) ELSE kept
           Step(g) == [s \in SUBSET DOMAIN all |->
                         IF s = {} THEN <<>> ELSE Keep(g[s \ {Max(s)}], all[Max(s)])]
           fold == CHOOSE g : g = Step(g)
           h == [kept \in T |-> [i \in 1..n |-> Keep(kept, all[i])]]
<1>1. Comments(all, p) = fold[DOMAIN all]
  BY DEF Comments, FoldLeft, MapThenFoldSet
<1>0. n \in Nat /\ DOMAIN all = 1..n /\ \A i \in 1..n : all[i] \in Suggestion
  OBVIOUS
<1>2. n \in Nat /\ DOMAIN all = 1..n /\ \A i \in 1..n : all[i].words \in SUBSET Nat
  <2> HIDE DEF n
  <2>1. \A s \in Suggestion : s.words \in SUBSET Nat
    BY DEF Suggestion
  <2> QED BY <1>0, <2>1
<1>3. ASSUME NEW kept \in T, NEW i \in 1..n
      PROVE  /\ Keep(kept, all[i]) \in T
             /\ \A w : Accounted(w, kept) => Accounted(w, Keep(kept, all[i]))
             /\ all[i].place = p => Accounted(all[i].words, Keep(kept, all[i]))
             /\ \A j \in DOMAIN Keep(kept, all[i]) :
                  \/ j \in DOMAIN kept /\ Keep(kept, all[i])[j] = kept[j]
                  \/ all[i].place = p /\ Keep(kept, all[i])[j] = all[i].words
             /\ (\A j, k \in DOMAIN kept : j < k => ~Covered(kept[k], kept[j])) =>
                  \A j, k \in DOMAIN Keep(kept, all[i]) : j < k =>
                    ~Covered(Keep(kept, all[i])[k], Keep(kept, all[i])[j])
  <2> DEFINE w == all[i].words
             more == Append(kept, w)
  <2>1. /\ more \in T /\ DOMAIN more = 1..(Len(kept) + 1) /\ more[Len(kept) + 1] = w
        /\ DOMAIN kept = 1..Len(kept) /\ Len(kept) \in Nat
        /\ \A j \in DOMAIN kept : j \in DOMAIN more /\ more[j] = kept[j]
    BY <1>2
  <2>2. Repeats(w, kept) <=> \E j \in DOMAIN kept : Covered(w, kept[j])
    BY DEF Repeats, Covered
  <2>3. Keep(kept, all[i]) =
          IF all[i].place = p /\ ~Repeats(w, kept) THEN more ELSE kept
    BY DEF KeepComment
  <2> HIDE DEF more, w, Keep, T
  <2>4. CASE all[i].place = p /\ ~Repeats(w, kept)
    <3>1. Keep(kept, all[i]) = more
      BY <2>3, <2>4
    <3>2. \A v : Accounted(v, kept) => Accounted(v, more)
      BY <2>1 DEF Accounted
    <3>3. Accounted(w, more)
      BY <2>1 DEF Accounted
    <3>4. \A j \in DOMAIN more : j \in DOMAIN kept \/ j = Len(kept) + 1
      BY <2>1
    <3>5. ASSUME \A j, k \in DOMAIN kept : j < k => ~Covered(kept[k], kept[j]),
                 NEW j \in DOMAIN more, NEW k \in DOMAIN more, j < k
          PROVE  ~Covered(more[k], more[j])
      <4>1. j \in DOMAIN kept
        BY <2>1, <3>5
      <4>2. CASE k \in DOMAIN kept
        BY <2>1, <3>5, <4>1, <4>2
      <4>3. CASE k = Len(kept) + 1
        BY <2>1, <2>2, <2>4, <4>1, <4>3
      <4> QED BY <3>4, <4>2, <4>3
    <3> QED BY <2>1, <2>4, <3>1, <3>2, <3>3, <3>4, <3>5 DEF w
  <2>5. CASE ~(all[i].place = p /\ ~Repeats(w, kept))
    <3>1. Keep(kept, all[i]) = kept
      BY <2>3, <2>5
    <3>2. all[i].place = p => Accounted(w, kept)
      BY <2>2, <2>5 DEF Accounted
    <3> QED BY <3>1, <3>2 DEF w
  <2> QED BY <2>4, <2>5
<1>4. h \in [T -> [1..n -> T]] /\ <<>> \in T
  BY <1>3
<1>5. fold = Step(fold)
  <2>1. PICK g \in [SUBSET (1..n) -> T] : \A s \in SUBSET (1..n) :
          g[s] = IF s = {} THEN <<>> ELSE h[g[s \ {Max(s)}]][Max(s)]
    <3>1. h \in [T -> [1..n -> T]] /\ <<>> \in T /\ n \in Nat
      BY <1>2, <1>4
    <3> HIDE DEF h, T, n
    <3>2. HasFold(T, <<>>, n, h)
      BY <3>1, FoldExists
    <3> QED BY <3>2 DEF HasFold
  <2>2. ASSUME NEW s \in SUBSET (1..n), s # {}
        PROVE  h[g[s \ {Max(s)}]][Max(s)] = Keep(g[s \ {Max(s)}], all[Max(s)])
    <3>1. Max(s) \in 1..n /\ s \ {Max(s)} \in SUBSET (1..n)
      BY <1>2, <2>2, MaxOfSome
    <3>2. g[s \ {Max(s)}] \in T
      BY <2>1, <3>1
    <3> QED BY <3>1, <3>2
  <2>3. g = Step(g)
    <3>1. \A s \in SUBSET (1..n) : g[s] = IF s = {} THEN <<>> ELSE Keep(g[s \ {Max(s)}], all[Max(s)])
      <4> HIDE DEF h, Keep
      <4> QED BY <2>1, <2>2
    <3> HIDE DEF Keep
    <3> QED BY <1>2, <2>1, <3>1
  <2> HIDE DEF Step
  <2> QED BY <2>3
<1> DEFINE Reaches(m) == /\ fold[1..m] \in T
                         /\ \A i \in 1..m : all[i].place = p => Accounted(all[i].words, fold[1..m])
                         /\ \A j \in DOMAIN fold[1..m] :
                              \E i \in 1..m : all[i].place = p /\ fold[1..m][j] = all[i].words
                         /\ \A j, k \in DOMAIN fold[1..m] :
                              j < k => ~Covered(fold[1..m][k], fold[1..m][j])
           S == {m \in Nat : m <= n => Reaches(m)}
<1> HIDE DEF fold, h
<1>6. 0 \in S
  <2>1. 1..0 = {} /\ {} \in SUBSET DOMAIN all
    OBVIOUS
  <2>2. fold[{}] = <<>>
    BY <1>5, <2>1
  <2>3. DOMAIN fold[1..0] = {} /\ fold[1..0] \in T
    <3>1. fold[1..0] = <<>>
      BY <2>1, <2>2
    <3>2. DOMAIN <<>> = {}
      OBVIOUS
    <3> HIDE DEF T
    <3> QED BY <1>4, <3>1, <3>2
  <2>4. Reaches(0)
    <3> HIDE DEF T
    <3> QED BY <2>1, <2>3
  <2> HIDE DEF Reaches
  <2> QED BY <2>4
<1>7. ASSUME NEW m \in S PROVE m + 1 \in S
  <2>0. m \in Nat /\ m + 1 \in Nat
    OBVIOUS
  <2> SUFFICES ASSUME m + 1 <= n PROVE Reaches(m + 1)
    BY <2>0, Zenon
  <2>1. Reaches(m) /\ m + 1 \in 1..n /\ 1..(m + 1) \in SUBSET DOMAIN all
    BY <1>2, <2>0
  <2>2. 1..(m + 1) # {} /\ Max(1..(m + 1)) = m + 1 /\ 1..(m + 1) \ {m + 1} = 1..m
    <3>1. m + 1 \in 1..(m + 1)
      BY <2>0
    <3>2. Max(1..(m + 1)) \in 1..(m + 1) /\ \A x \in 1..(m + 1) : x <= Max(1..(m + 1))
      BY <2>0, <3>1, MaxOfSome
    <3> QED BY <2>0, <3>1, <3>2
  <2>3. fold[1..(m + 1)] = Keep(fold[1..m], all[m + 1])
    <3> HIDE DEF Keep
    <3>1. \A s \in SUBSET DOMAIN all : s # {} => fold[s] = Keep(fold[s \ {Max(s)}], all[Max(s)])
      BY <1>5
    <3>2. fold[1..(m + 1)] = Keep(fold[(1..(m + 1)) \ {Max(1..(m + 1))}], all[Max(1..(m + 1))])
      BY <2>1, <2>2, <3>1, Zenon
    <3> QED BY <2>2, <3>2
  <2>4. ASSUME NEW i \in 1..(m + 1) PROVE i \in 1..m \/ i = m + 1
    BY <2>0
  <2> DEFINE old == fold[1..m]
             new == fold[1..(m + 1)]
  <2>5. /\ new \in T
        /\ \A w : Accounted(w, old) => Accounted(w, new)
        /\ all[m + 1].place = p => Accounted(all[m + 1].words, new)
        /\ \A j \in DOMAIN new : \/ j \in DOMAIN old /\ new[j] = old[j]
                                 \/ all[m + 1].place = p /\ new[j] = all[m + 1].words
        /\ (\A j, k \in DOMAIN old : j < k => ~Covered(old[k], old[j])) =>
             \A j, k \in DOMAIN new : j < k => ~Covered(new[k], new[j])
    <3> HIDE DEF Keep, T
    <3> QED BY <1>3, <2>1, <2>3
  <2>6. /\ old \in T /\ \A i \in 1..m : all[i].place = p => Accounted(all[i].words, old)
        /\ \A j \in DOMAIN old : \E i \in 1..m : all[i].place = p /\ old[j] = all[i].words
        /\ \A j, k \in DOMAIN old : j < k => ~Covered(old[k], old[j])
    BY <2>1
  <2>7. \A i \in 1..m : i \in 1..(m + 1)
    BY <2>0
  <2>8. m + 1 \in 1..(m + 1)
    BY <2>0
  <2> HIDE DEF old, new, T
  <2>9. \A i \in 1..(m + 1) : all[i].place = p => Accounted(all[i].words, new)
    BY <2>4, <2>5, <2>6
  <2>10. \A j \in DOMAIN new : \E i \in 1..(m + 1) : all[i].place = p /\ new[j] = all[i].words
    BY <2>5, <2>6, <2>7, <2>8
  <2>11. \A j, k \in DOMAIN new : j < k => ~Covered(new[k], new[j])
    BY <2>5, <2>6
  <2> QED BY <2>5, <2>9, <2>10, <2>11 DEF new
<1> HIDE DEF S
<1>8. n \in S
  <2>1. S \subseteq Nat
    BY DEF S
  <2>2. S = Nat
    BY <1>6, <1>7, <2>1, Reached
  <2> QED BY <1>2, <2>2
<1>9. Reaches(n)
  <2> HIDE DEF Reaches
  <2>1. n <= n
    BY <1>2
  <2> QED BY <1>8, <2>1 DEF S
<1>10. At(all, p) = {i \in 1..n : all[i].place = p}
  BY <1>2 DEF At
<1> QED BY <1>1, <1>2, <1>9, <1>10 DEF KeepsOf

\* A place that was commented keeps at least one comment.
LEMMA CommentsKept ==
  ASSUME NEW all \in Seq(Suggestion), NEW p, At(all, p) # {}
  PROVE  Comments(all, p) # <<>>
<1>1. PICK i \in At(all, p) : TRUE
  OBVIOUS
<1>2. Accounted(all[i].words, Comments(all, p))
  BY <1>1, CommentsAreKept DEF KeepsOf
<1> QED BY <1>2 DEF Accounted

-----------------------------------------------------------------------------
(* Ranking *)

\* R is a strict total order of S, as a set of pairs.
Orders(R, S) ==
  /\ \A x \in S : <<x, x>> \notin R
  /\ \A x, y, z \in S : <<x, y>> \in R /\ <<y, z>> \in R => <<x, z>> \in R
  /\ \A x, y \in S : x # y => <<x, y>> \in R \/ <<y, x>> \in R

Below(R, S, x) == {y \in S : <<y, x>> \in R}

\* In a finite order an element has more below it than what is below it.
LEMMA BelowGrows ==
  ASSUME NEW S, IsFiniteSet(S), NEW R, Orders(R, S)
  PROVE  /\ \A x \in S : Cardinality(Below(R, S, x)) \in 0..(Cardinality(S) - 1)
         /\ \A x, y \in S : <<x, y>> \in R =>
              Cardinality(Below(R, S, x)) < Cardinality(Below(R, S, y))
<1>1. ASSUME NEW T \in SUBSET S, NEW x \in T, NEW B \in SUBSET T, x \notin B
      PROVE  Cardinality(B) \in Nat /\ Cardinality(T) \in Nat /\ Cardinality(B) < Cardinality(T)
  <2>1. IsFiniteSet(T)
    BY FS_Subset
  <2>2. IsFiniteSet(B)
    BY <2>1, FS_Subset
  <2>3. IsFiniteSet(B \cup {x}) /\ Cardinality(B \cup {x}) = Cardinality(B) + 1
    BY <1>1, <2>2, FS_AddElement
  <2>4. B \cup {x} \in SUBSET T
    OBVIOUS
  <2>5. Cardinality(B \cup {x}) <= Cardinality(T)
    BY <2>1, <2>4, FS_Subset
  <2>6. Cardinality(B) \in Nat /\ Cardinality(T) \in Nat
    BY <2>1, <2>2, FS_CardinalityType
  <2> QED BY <2>3, <2>5, <2>6
<1>2. ASSUME NEW x \in S
      PROVE  Cardinality(Below(R, S, x)) \in 0..(Cardinality(S) - 1)
  <2>1. Below(R, S, x) \in SUBSET S /\ x \notin Below(R, S, x) /\ S \in SUBSET S
    BY DEF Below, Orders
  <2>2. /\ Cardinality(Below(R, S, x)) \in Nat /\ Cardinality(S) \in Nat
        /\ Cardinality(Below(R, S, x)) < Cardinality(S)
    BY <1>1, <2>1
  <2> QED BY <2>2
<1>3. ASSUME NEW x \in S, NEW y \in S, <<x, y>> \in R
      PROVE  Cardinality(Below(R, S, x)) < Cardinality(Below(R, S, y))
  <2>1. /\ Below(R, S, y) \in SUBSET S /\ x \in Below(R, S, y)
        /\ Below(R, S, x) \in SUBSET Below(R, S, y) /\ x \notin Below(R, S, x)
    BY <1>3 DEF Below, Orders
  <2> QED BY <1>1, <2>1
<1> QED BY <1>2, <1>3

\* The elements of S by what is below them.
InOrderOf(R, S) ==
  [i \in 1..Cardinality(S) |-> CHOOSE x \in S : Cardinality(Below(R, S, x)) = i - 1]

\* Sorting by rank: each element occurs, at one place, and after all before it.
LEMMA RankedSorts ==
  ASSUME NEW S, IsFiniteSet(S), NEW R, Orders(R, S), NEW out, out = InOrderOf(R, S)
  PROVE  /\ \A i \in DOMAIN out : out[i] \in S
         /\ \A x \in S : \E i \in DOMAIN out : out[i] = x
         /\ \A i, j \in DOMAIN out : i < j => <<out[i], out[j]>> \in R
         /\ DOMAIN out = 1..Cardinality(S)
<1> DEFINE n == Cardinality(S)
           rank(x) == Cardinality(Below(R, S, x))
           f == [x \in S |-> rank(x) + 1]
<1>1. n \in Nat
  BY FS_CardinalityType
<1>2. /\ \A x \in S : rank(x) \in Nat /\ rank(x) + 1 \in 1..n
      /\ \A x, y \in S : <<x, y>> \in R => rank(x) < rank(y)
  BY <1>1, BelowGrows
<1>3. \A x, y \in S : rank(x) = rank(y) => x = y
  <2> HIDE DEF rank
  <2> SUFFICES ASSUME NEW x \in S, NEW y \in S, rank(x) = rank(y), x # y PROVE FALSE
    OBVIOUS
  <2>1. <<x, y>> \in R \/ <<y, x>> \in R
    BY DEF Orders
  <2>2. rank(x) < rank(y) \/ rank(y) < rank(x)
    BY <1>2, <2>1
  <2> QED BY <1>2, <2>2
<1>4. f \in Injection(S, 1..n)
  <2> HIDE DEF rank, n
  <2>1. f \in [S -> 1..n]
    BY <1>2
  <2>2. \A x, y \in S : f[x] = f[y] => x = y
    BY <1>2, <1>3
  <2> HIDE DEF f
  <2> QED BY <2>1, <2>2 DEF Injection, IsInjective
<1>5. f \in Surjection(S, 1..n)
  <2>1. IsFiniteSet(1..n) /\ Cardinality(1..n) = n
    BY <1>1, FS_Interval
  <2> HIDE DEF f
  <2> QED BY <1>4, <2>1, FS_Injection
<1>6. ASSUME NEW i \in 1..n PROVE \E x \in S : rank(x) = i - 1
  <2>1. PICK x \in S : f[x] = i
    <3> HIDE DEF f
    <3> QED BY <1>5 DEF Surjection
  <2>2. rank(x) = i - 1
    <3>1. f[x] = rank(x) + 1 /\ rank(x) \in Nat
      BY <1>2
    <3> HIDE DEF f, rank
    <3> QED BY <1>1, <2>1, <3>1
  <2> QED BY <2>2
<1>7. ASSUME NEW i \in 1..n PROVE out[i] \in S /\ rank(out[i]) = i - 1
  <2>1. out[i] = CHOOSE x \in S : rank(x) = i - 1
    BY DEF InOrderOf
  <2> HIDE DEF rank
  <2> QED BY <1>6, <2>1
<1>8. DOMAIN out = 1..n
  BY DEF InOrderOf
<1> HIDE DEF rank, n, f
<1>9. ASSUME NEW x \in S PROVE \E i \in DOMAIN out : out[i] = x
  <2>1. rank(x) \in Nat /\ rank(x) + 1 \in 1..n /\ (rank(x) + 1) - 1 = rank(x)
    BY <1>2
  <2>2. out[rank(x) + 1] \in S /\ rank(out[rank(x) + 1]) = rank(x)
    BY <1>7, <2>1
  <2>3. out[rank(x) + 1] = x
    BY <1>3, <2>2
  <2> QED BY <1>8, <2>1, <2>3
<1>10. ASSUME NEW i \in 1..n, NEW j \in 1..n, i < j PROVE <<out[i], out[j]>> \in R
  <2> DEFINE a == out[i]
             b == out[j]
  <2>1. a \in S /\ b \in S /\ rank(a) = i - 1 /\ rank(b) = j - 1
    BY <1>7
  <2>2. i - 1 < j - 1 /\ i - 1 \in Int /\ j - 1 \in Int
    BY <1>1, <1>10
  <2> HIDE DEF a, b
  <2>3. rank(a) < rank(b) /\ rank(a) \in Int /\ rank(b) \in Int
    BY <2>1, <2>2
  <2>4. a # b
    BY <2>3
  <2>5. <<b, a>> \notin R
    <3> SUFFICES ASSUME <<b, a>> \in R PROVE FALSE
      OBVIOUS
    <3>1. rank(b) < rank(a)
      BY <1>2, <2>1
    <3> QED BY <2>3, <3>1
  <2>6. <<a, b>> \in R
    BY <2>1, <2>4, <2>5 DEF Orders
  <2> QED BY <2>6 DEF a, b
<1> QED BY <1>7, <1>8, <1>9, <1>10 DEF n

(* The merged suggestions *)

\* Every suggestion counts for its place.
LEMMA PlaceFound ==
  ASSUME NEW all \in Seq(Suggestion), NEW i \in DOMAIN all
  PROVE  /\ i \in Nat /\ all[i] \in Suggestion /\ all[i].severity \in Severity
         /\ all[i].place[1] \in DOMAIN FileRank /\ i \in At(all, all[i].place)
<1>1. DOMAIN all = 1..Len(all) /\ Len(all) \in Nat /\ all[i] \in Suggestion
  OBVIOUS
<1>2. \A s \in Suggestion : s.severity \in Severity /\ s.place[1] \in DOMAIN FileRank
  BY DEF Suggestion
<1> QED BY <1>1, <1>2 DEF At

\* The severity of a place is the greatest that was given to it.
LEMMA HighestIsOne ==
  ASSUME NEW all \in Seq(Suggestion), NEW p, At(all, p) # {}
  PROVE  /\ HighestOf(all, p) \in Severity
         /\ \E k \in DOMAIN all : all[k].place = p /\ all[k].severity = HighestOf(all, p)
         /\ \A k \in DOMAIN all : all[k].place = p => all[k].severity <= HighestOf(all, p)
<1> DEFINE S == {all[i].severity : i \in At(all, p)}
<1>1. \A i \in At(all, p) : i \in DOMAIN all /\ all[i].place = p /\ all[i].severity \in Severity
  BY PlaceFound DEF At
<1>2. S \in SUBSET Nat /\ S # {} /\ \A s \in S : s <= 3
  BY <1>1 DEF Severity
<1>3. PICK n \in S : \A s \in S : s <= n
  <2> HIDE DEF S
  <2> QED BY <1>2, Largest
<1>4. \A i \in At(all, p) : all[i].severity <= n
  BY <1>3
<1>5. HighestOf(all, p) \in S /\ \A i \in At(all, p) : all[i].severity <= HighestOf(all, p)
  <2>1. HighestOf(all, p) = CHOOSE s \in S : \A i \in At(all, p) : all[i].severity <= s
    BY DEF HighestOf
  <2> HIDE DEF S
  <2> QED BY <1>4, <2>1
<1>6. PICK k \in At(all, p) : HighestOf(all, p) = all[k].severity
  BY <1>5
<1>7. \A k_1 \in DOMAIN all : all[k_1].place = p => k_1 \in At(all, p)
  BY DEF At
<1> QED BY <1>1, <1>5, <1>6, <1>7

\* A place came up somewhere first.
LEMMA FirstFound ==
  ASSUME NEW all \in Seq(Suggestion), NEW p, At(all, p) # {}
  PROVE  First(all, p) \in Nat /\ First(all, p) \in At(all, p)
<1> DEFINE R == {ss \in Nat \X Nat : ss[1] < ss[2]}
           A == At(all, p)
<1>1. IsWellFoundedOn(R, Nat)
  BY NatLessThanWellFounded DEF OpToRel
<1>2. A \in SUBSET Nat
  BY PlaceFound DEF At
<1>3. PICK i \in A : \A j \in A : <<j, i>> \notin R
  <2> HIDE DEF R, A
  <2> QED BY <1>1, <1>2, WFMin DEF A
<1>4. ASSUME NEW j \in A PROVE i <= j
  <2>1. i \in Nat /\ j \in Nat /\ ~(j < i)
    BY <1>2, <1>3
  <2> QED BY <2>1
<1>5. First(all, p) = CHOOSE k \in A : \A j \in A : k <= j
  BY DEF First
<1>6. First(all, p) \in A
  <2> HIDE DEF A
  <2> QED BY <1>4, <1>5
<1> QED BY <1>2, <1>6

\* What Deduplicate sorts, place by place.
LEMMA MergedIs ==
  ASSUME NEW all \in Seq(Suggestion), NEW a \in Merged(all)
  PROVE  /\ \E i \in DOMAIN all : a.place = all[i].place
         /\ a.place[1] \in DOMAIN FileRank /\ FileRank[a.place[1]] \in Nat
         /\ At(all, a.place) # {} /\ First(all, a.place) \in At(all, a.place)
         /\ First(all, a.place) \in Nat
         /\ a.severity = HighestOf(all, a.place) /\ a.severity \in Severity
         /\ a.comments = Comments(all, a.place)
         /\ a = [place |-> a.place, severity |-> a.severity, comments |-> a.comments]
<1>1. PICK i \in DOMAIN all :
        a = [place |-> all[i].place, severity |-> HighestOf(all, all[i].place),
             comments |-> Comments(all, all[i].place)]
  BY DEF Merged
<1>2. /\ a.place = all[i].place /\ a.severity = HighestOf(all, a.place)
      /\ a.comments = Comments(all, a.place)
      /\ a = [place |-> a.place, severity |-> a.severity, comments |-> a.comments]
  BY <1>1
<1>3. At(all, a.place) # {} /\ a.place[1] \in DOMAIN FileRank
  BY <1>2, PlaceFound
<1>4. FileRank[a.place[1]] \in Nat
  BY <1>3, RoutingAssumption
<1> QED BY <1>2, <1>3, <1>4, FirstFound, HighestIsOne

\* There are no more merged suggestions than suggestions.
LEMMA MergedFinite ==
  ASSUME NEW all \in Seq(Suggestion)
  PROVE  IsFiniteSet(Merged(all))
<1> DEFINE one(p) == [place |-> p, severity |-> HighestOf(all, p), comments |-> Comments(all, p)]
           D == DOMAIN all
           M == Merged(all)
           f == [i \in D |-> one(all[i].place)]
<1>1. IsFiniteSet(D)
  <2>1. D = 1..Len(all) /\ Len(all) \in Int /\ 1 \in Int
    OBVIOUS
  <2> QED BY <2>1, FS_Interval
<1>2. M = {one(p) : p \in {all[i].place : i \in DOMAIN all}}
  BY DEF Merged
<1> HIDE DEF one, M
<1>3. f \in [D -> M] /\ \A m \in M : \E i \in D : f[i] = m
  BY <1>2
<1>4. f \in Surjection(D, M)
  <2> HIDE DEF f, D
  <2> QED BY <1>3 DEF Surjection
<1>5. IsFiniteSet(M)
  <2> HIDE DEF f, D
  <2> QED BY <1>1, <1>4, FS_Surjection
<1> QED BY <1>5 DEF M

\* Numbers compared place by place, the first downwards.
LEMMA Lexicographic ==
  ASSUME NEW a1 \in Nat, NEW a2 \in Nat, NEW a3 \in Nat, NEW b1 \in Nat, NEW b2 \in Nat,
         NEW b3 \in Nat, NEW c1 \in Nat, NEW c2 \in Nat, NEW c3 \in Nat,
         a1 > b1 \/ (a1 = b1 /\ a2 < b2) \/ (a1 = b1 /\ a2 = b2 /\ a3 < b3),
         b1 > c1 \/ (b1 = c1 /\ b2 < c2) \/ (b1 = c1 /\ b2 = c2 /\ b3 < c3)
  PROVE  a1 > c1 \/ (a1 = c1 /\ a2 < c2) \/ (a1 = c1 /\ a2 = c2 /\ a3 < c3)
OBVIOUS

\* The order of the merged suggestions is strict, and total.
LEMMA PrecedesOrders ==
  ASSUME NEW all \in Seq(Suggestion), NEW R,
         R = {ab \in Merged(all) \X Merged(all) : Precedes(all, ab[1], ab[2])}
  PROVE  Orders(R, Merged(all))
<1> DEFINE M == Merged(all)
           rank(a) == FileRank[a.place[1]]
           first(a) == First(all, a.place)
<1>0. \A a \in M : a.severity \in Nat /\ rank(a) \in Nat /\ first(a) \in Nat
  BY MergedIs DEF Severity
<1>1. \A a, b \in M : <<a, b>> \in R <=> Precedes(all, a, b)
  OBVIOUS
<1>2. \A a, b \in M : Precedes(all, a, b) <=>
        \/ a.severity > b.severity
        \/ a.severity = b.severity /\ rank(a) < rank(b)
        \/ a.severity = b.severity /\ rank(a) = rank(b) /\ first(a) < first(b)
  BY DEF Precedes
<1>3. ASSUME NEW a \in M, NEW b \in M, a # b PROVE first(a) # first(b)
  <2> SUFFICES ASSUME first(a) = first(b) PROVE FALSE
    OBVIOUS
  <2>1. all[first(a)].place = a.place /\ all[first(b)].place = b.place
    BY MergedIs DEF At
  <2>2. a.place = b.place
    BY <2>1
  <2>3. a.severity = b.severity /\ a.comments = b.comments
    BY <2>2, MergedIs
  <2> QED BY <1>3, <2>2, <2>3, MergedIs
<1> HIDE DEF M, rank, first
<1>4. \A x \in M : <<x, x>> \notin R
  BY <1>0, <1>1, <1>2
<1>5. ASSUME NEW x \in M, NEW y \in M, NEW z \in M, <<x, y>> \in R, <<y, z>> \in R
      PROVE  <<x, z>> \in R
  <2>1. Precedes(all, x, y) /\ Precedes(all, y, z)
    BY <1>1, <1>5
  <2>2. Precedes(all, x, z)
    BY <1>0, <1>2, <2>1, Lexicographic
  <2> QED BY <1>1, <2>2
<1>6. ASSUME NEW x \in M, NEW y \in M, x # y
      PROVE  <<x, y>> \in R \/ <<y, x>> \in R
  BY <1>0, <1>1, <1>2, <1>3, <1>6
<1>7. Orders(R, M)
  BY <1>4, <1>5, <1>6 DEF Orders
<1> QED BY <1>7 DEF M

\* What MergedCoversAll says of a review out of the suggestions all.
Covers(all, out) ==
  /\ {out[i].place : i \in DOMAIN out} = {all[i].place : i \in DOMAIN all}
  /\ \A i, j \in DOMAIN out : i < j =>
        out[i].place # out[j].place /\ out[i].severity >= out[j].severity
  /\ \A i \in DOMAIN out :
        /\ out[i].comments # <<>>
        /\ \E k \in DOMAIN all : all[k].place = out[i].place /\ all[k].severity = out[i].severity
        /\ \A k \in DOMAIN all : all[k].place = out[i].place =>
                                   all[k].severity <= out[i].severity

\* The merged suggestions are all there, in order.
LEMMA DeduplicateMerges ==
  ASSUME NEW all \in Seq(Suggestion)
  PROVE  LET M == Merged(all)
             out == Deduplicate(all)
         IN  /\ \A i \in DOMAIN out : out[i] \in M
             /\ \A x \in M : \E i \in DOMAIN out : out[i] = x
             /\ \A i, j \in DOMAIN out : i < j => Precedes(all, out[i], out[j])
<1> DEFINE M == Merged(all)
           R == {ab \in M \X M : Precedes(all, ab[1], ab[2])}
           out == Deduplicate(all)
<1>1. Orders(R, M) /\ IsFiniteSet(M)
  BY PrecedesOrders, MergedFinite
<1>2. out = InOrderOf(R, M)
  <2> DEFINE below(i) == CHOOSE x \in M : Cardinality(Below(R, M, x)) = i - 1
             placed(i) == CHOOSE x \in M : Cardinality({y \in M : Precedes(all, y, x)}) = i - 1
  <2>1. out = [i \in 1..Cardinality(M) |-> placed(i)]
    BY DEF Deduplicate, Ranked
  <2>2. InOrderOf(R, M) = [i \in 1..Cardinality(M) |-> below(i)]
    BY Zenon DEF InOrderOf
  <2>3. \A x \in M : Below(R, M, x) = {y \in M : Precedes(all, y, x)}
    BY DEF Below
  <2>4. \A i : below(i) = placed(i)
    <3> HIDE DEF out, R, M
    <3> QED BY <2>3
  <2> HIDE DEF out, R, M, below, placed
  <2> QED BY <2>1, <2>2, <2>4
<1> HIDE DEF R, out
<1>3. /\ \A i \in DOMAIN out : out[i] \in M
      /\ \A x \in M : \E i \in DOMAIN out : out[i] = x
      /\ \A i, j \in DOMAIN out : i < j => <<out[i], out[j]>> \in R
  <2> HIDE DEF M
  <2> QED BY <1>1, <1>2, RankedSorts
<1> QED BY <1>3 DEF R, out

\* Merging loses no place, and no severity.
LEMMA DeduplicateCovers ==
  ASSUME NEW all \in Seq(Suggestion)
  PROVE  Covers(all, Deduplicate(all))
<1> DEFINE M == Merged(all)
           out == Deduplicate(all)
<1>3. /\ \A i \in DOMAIN out : out[i] \in M
      /\ \A x \in M : \E i \in DOMAIN out : out[i] = x
      /\ \A i, j \in DOMAIN out : i < j => Precedes(all, out[i], out[j])
  BY DeduplicateMerges
<1> HIDE DEF out
<1>4. ASSUME NEW i \in DOMAIN all PROVE \E m \in M : m.place = all[i].place
  <2> DEFINE p == all[i].place
             m == [place |-> p, severity |-> HighestOf(all, p), comments |-> Comments(all, p)]
  <2>1. m \in M
    BY DEF Merged
  <2>2. m.place = all[i].place
    OBVIOUS
  <2> HIDE DEF m, M
  <2> QED BY <2>1, <2>2
<1>5. {out[i].place : i \in DOMAIN out} = {all[i].place : i \in DOMAIN all}
  <2>1. \A i \in DOMAIN out : \E k \in DOMAIN all : out[i].place = all[k].place
    BY <1>3, MergedIs
  <2>2. \A k \in DOMAIN all : \E i \in DOMAIN out : out[i].place = all[k].place
    <3> HIDE DEF M
    <3> QED BY <1>3, <1>4
  <2> QED BY <2>1, <2>2
<1>6. ASSUME NEW i \in DOMAIN out, NEW j \in DOMAIN out, i < j
      PROVE  out[i].place # out[j].place /\ out[i].severity >= out[j].severity
  <2>1. out[i] \in M /\ out[j] \in M
    BY <1>3
  <2>2. Precedes(all, out[i], out[j])
    BY <1>3, <1>6
  <2>3. out[i].severity \in Nat /\ out[j].severity \in Nat
    BY <2>1, MergedIs DEF Severity
  <2>4. out[i].severity >= out[j].severity
    BY <2>2, <2>3 DEF Precedes
  <2>5. ASSUME out[i].place = out[j].place PROVE FALSE
    <3>1. /\ out[i].severity = out[j].severity /\ First(all, out[i].place) \in Nat
          /\ FileRank[out[i].place[1]] \in Nat
      BY <2>1, <2>5, MergedIs
    <3> QED BY <2>2, <2>3, <2>5, <3>1 DEF Precedes
  <2> QED BY <2>4, <2>5
<1>7. ASSUME NEW i \in DOMAIN out
      PROVE  /\ out[i].comments # <<>>
             /\ \E k \in DOMAIN all : all[k].place = out[i].place /\ all[k].severity = out[i].severity
             /\ \A k \in DOMAIN all : all[k].place = out[i].place =>
                                        all[k].severity <= out[i].severity
  <2>1. /\ At(all, out[i].place) # {} /\ out[i].severity = HighestOf(all, out[i].place)
        /\ out[i].comments = Comments(all, out[i].place)
    BY <1>3, MergedIs
  <2> QED BY <2>1, CommentsKept, HighestIsOne
<1> QED BY <1>5, <1>6, <1>7 DEF Covers, out
-----------------------------------------------------------------------------
(* The inductive invariant *)

\* RouteTypeOK, and no more samples than are asked for.
RouteKept ==
  /\ RouteTypeOK
  /\ answers \in Seq(Reply \cup {Failed}) /\ Len(answers) <= Samples

LEMMA RouteStart == RouteInit => RouteKept
BY RoutingAssumption DEF RouteInit, RouteKept, RouteTypeOK, NoOutcome, Category, Severity

LEMMA RouteStep == ASSUME RouteKept, [RouteNext]_routeVars PROVE RouteKept'
<1>0. RouteTypeOK /\ answers \in Seq(Reply \cup {Failed}) /\ Len(answers) \in Nat /\ Len(answers) <= Samples
      /\ Samples \in Nat /\ 1 \in 0..Samples /\ 0 \in 0..Samples
  BY RoutingAssumption DEF RouteKept
<1>1. ASSUME UNCHANGED answers, step' \in {"classify", "retrieve", "route", "sample", "fallback", "done"},
             category' \in Category, outcome'.severity \in Severity, outcome'.used \in 0..Samples
      PROVE  RouteKept'
  BY <1>0, <1>1 DEF RouteKept, RouteTypeOK
<1>2. NoOutcome.severity \in Severity /\ NoOutcome.used = 0
      /\ \A who : /\ [NoOutcome EXCEPT !.from = who].severity \in Severity
                  /\ [NoOutcome EXCEPT !.from = who].used = 0
  BY DEF NoOutcome, Severity
<1>3. ASSUME NEW d \in Diff, EmptyDiff(d)
      PROVE  RouteKept'
  BY <1>0, <1>1, <1>2, <1>3 DEF EmptyDiff, Finished, Category
<1>4. ASSUME NEW d \in Diff, Classify(d)
      PROVE  RouteKept'
  BY <1>0, <1>1, <1>4, ClassTyped DEF Classify, RouteTypeOK
<1>5. ASSUME NEW p \in PrimaryHits, NEW s \in SecondaryHits, Retrieve(p, s)
      PROVE  RouteKept'
  <2>1. \A ns : Override(category, ns) \in Category
    BY <1>0 DEF Override, RouteTypeOK
  <2> QED BY <1>0, <1>1, <1>5, <2>1 DEF Retrieve, RouteTypeOK
<1>6. CASE RetrievalFails \/ AskExperts \/ AllFailed
  BY <1>0, <1>1, <1>6 DEF RetrievalFails, AskExperts, AllFailed, RouteTypeOK
<1>7. CASE SkipFalsePositive \/ FallbackFails
  BY <1>0, <1>1, <1>2, <1>7 DEF SkipFalsePositive, FallbackFails, Finished, RouteTypeOK
<1>8. ASSUME NEW a \in Reply \cup {Failed}, Sample(a)
      PROVE  RouteKept'
  <2>1. answers' = Append(answers, a) /\ Len(answers) < Samples /\ UNCHANGED <<step, category, outcome>>
    BY <1>8 DEF Sample
  <2>2. answers' \in Seq(Reply \cup {Failed}) /\ Len(answers') = Len(answers) + 1
    BY <1>0, <2>1
  <2>3. \A i \in DOMAIN answers' : answers'[i] \in Reply \cup {Failed}
    BY <2>2
  <2>4. Len(answers') <= Samples
    BY <1>0, <2>1, <2>2
  <2> QED BY <1>0, <2>1, <2>2, <2>3, <2>4 DEF RouteKept, RouteTypeOK
<1>9. CASE Merge
  <2> DEFINE used == Cardinality(Among(answers))
             severity == Clamp(category, Expert(category), MajoritySeverity(answers))
  <2>1. /\ outcome'.used = used /\ outcome'.severity = severity
        /\ step' = "done" /\ UNCHANGED <<category, answers>>
    BY <1>9 DEF Merge, Finished
  <2>2. DOMAIN answers \subseteq 1..Samples
    BY <1>0
  <2>3. used \in 0..Samples
    BY <1>0, <2>2, SamplesCounted DEF Among
  <2>4. severity \in Severity
    BY <1>0, <2>2, MajorityTyped, ClampTyped
  <2> HIDE DEF used, severity
  <2> QED BY <1>0, <1>1, <2>1, <2>3, <2>4 DEF RouteTypeOK
<1>10. ASSUME NEW a \in Reply, Fallback(a)
       PROVE  RouteKept'
  <2>1. /\ outcome'.used = 1 /\ outcome'.severity = Clamp(category, "claude", Medium)
        /\ step' = "done" /\ UNCHANGED <<category, answers>>
    BY <1>10 DEF Fallback, Finished
  <2>2. Medium \in Severity
    BY DEF Medium, Severity
  <2> QED BY <1>0, <1>1, <2>1, <2>2, ClampTyped DEF RouteTypeOK
<1>11. CASE UNCHANGED routeVars
  BY <1>0, <1>11 DEF routeVars, RouteKept, RouteTypeOK
<1> QED BY <1>3, <1>4, <1>5, <1>6, <1>7, <1>8, <1>9, <1>10, <1>11 DEF RouteNext

\* RouteTypeOK: a review is always routed by one of the five classes, and ends
\* with a severity a model may give, however the samples fail or disagree.
THEOREM RouteTyped == RouteSpec => []RouteTypeOK
<1>1. RouteKept => RouteTypeOK
  BY DEF RouteKept
<1> QED BY <1>1, RouteStart, RouteStep, PTL DEF RouteSpec

\* A review merged from samples is what merging makes of their suggestions.
ReviewIsMerge ==
  step = "done" /\ outcome.from \in {"qwen", "mistral"} =>
    outcome.suggestions = Deduplicate(AllSuggestions(answers))

LEMMA MergeStep == ASSUME ReviewIsMerge, [RouteNext]_routeVars PROVE ReviewIsMerge'
<1>1. \A who : [NoOutcome EXCEPT !.from = who].from = who
  BY DEF NoOutcome
<1>2. ASSUME NEW d \in Diff, EmptyDiff(d) PROVE ReviewIsMerge'
  BY <1>1, <1>2 DEF EmptyDiff, Finished, ReviewIsMerge
<1>3. ASSUME NEW d \in Diff, Classify(d) PROVE ReviewIsMerge'
  BY <1>3 DEF Classify, ReviewIsMerge
<1>4. ASSUME NEW p \in PrimaryHits, NEW s \in SecondaryHits, Retrieve(p, s) PROVE ReviewIsMerge'
  BY <1>4 DEF Retrieve, ReviewIsMerge
<1>5. CASE RetrievalFails \/ AskExperts \/ AllFailed
  BY <1>5 DEF RetrievalFails, AskExperts, AllFailed, ReviewIsMerge
<1>6. CASE SkipFalsePositive \/ FallbackFails
  BY <1>1, <1>6 DEF SkipFalsePositive, FallbackFails, Finished, ReviewIsMerge
<1>7. ASSUME NEW a \in Reply \cup {Failed}, Sample(a) PROVE ReviewIsMerge'
  BY <1>7 DEF Sample, ReviewIsMerge
<1>8. CASE Merge
  <2>1. outcome'.suggestions = Deduplicate(AllSuggestions(answers)) /\ answers' = answers
    BY <1>8 DEF Merge, Finished
  <2> QED BY <2>1 DEF ReviewIsMerge
<1>9. ASSUME NEW a \in Reply, Fallback(a) PROVE ReviewIsMerge'
  <2>1. outcome'.from = "claude"
    BY <1>9 DEF Fallback, Finished
  <2> QED BY <2>1 DEF ReviewIsMerge
<1>10. CASE UNCHANGED routeVars
  BY <1>10 DEF routeVars, ReviewIsMerge
<1> QED BY <1>2, <1>3, <1>4, <1>5, <1>6, <1>7, <1>8, <1>9, <1>10 DEF RouteNext

\* The samples' suggestions are a sequence of suggestions.
LEMMA SuggestionsTyped ==
  ASSUME NEW as \in Seq(Reply \cup {Failed})
  PROVE  AllSuggestions(as) \in Seq(Suggestion)
<1> DEFINE parts == [i \in DOMAIN as |-> IF as[i].failed THEN <<>> ELSE as[i].suggestions]
<1>1. ASSUME NEW a \in Reply \cup {Failed}
      PROVE  (IF a.failed THEN <<>> ELSE a.suggestions) \in Seq(Suggestion)
  <2>1. Failed.failed = TRUE
    BY DEF Failed
  <2>2. a \in Reply => a.suggestions \in Seq(Suggestion)
    BY RoutingAssumption
  <2>3. <<>> \in Seq(Suggestion)
    OBVIOUS
  <2> QED BY <2>1, <2>2, <2>3
<1>2. DOMAIN as = 1..Len(as) /\ Len(as) \in Nat /\ \A i \in DOMAIN as : as[i] \in Reply \cup {Failed}
  BY LenProperties, ElementOfSeq, Zenon
<1>3. \A i \in DOMAIN as : parts[i] \in Seq(Suggestion)
  BY <1>1, <1>2, Zenon
<1>4. parts \in [1..Len(as) -> Seq(Suggestion)]
  BY <1>2, <1>3
<1>5. parts \in Seq(Seq(Suggestion))
  <2> DEFINE T == Seq(Suggestion)
             n == Len(as)
  <2>1. n \in Nat /\ parts \in [1..n -> T]
    BY <1>2, <1>4
  <2> HIDE DEF parts, n, T
  <2>2. parts \in Seq(T)
    BY <2>1, SeqDef
  <2> QED BY <2>2 DEF T
<1> QED BY <1>5, JoinedTyped DEF AllSuggestions

\* MergedCoversAll: whatever the samples answer, and however many there are,
\* the merged review names every place they named, once, with its greatest
\* severity and a comment, the severest first.
THEOREM MergeCoversAll == RouteSpec => []MergedCoversAll
<1>1. RouteInit => ReviewIsMerge
  BY DEF RouteInit, ReviewIsMerge
<1>2. RouteKept /\ ReviewIsMerge => MergedCoversAll
  <2> SUFFICES ASSUME RouteKept, ReviewIsMerge, step = "done", outcome.from \in {"qwen", "mistral"}
               PROVE  Covers(AllSuggestions(answers), outcome.suggestions)
    BY DEF MergedCoversAll, Covers
  <2>1. AllSuggestions(answers) \in Seq(Suggestion)
    BY SuggestionsTyped DEF RouteKept
  <2>2. outcome.suggestions = Deduplicate(AllSuggestions(answers))
    BY DEF ReviewIsMerge
  <2> QED BY <2>1, <2>2, DeduplicateCovers
<1> QED BY <1>1, <1>2, RouteStart, RouteStep, MergeStep, PTL DEF RouteSpec

\* The comment of a merged review leaves out of its place's comments only what
\* repeats one that it has, makes up none and repeats none.
CommentsAccounted ==
  step = "done" /\ outcome.from \in {"qwen", "mistral"} =>
    \A i \in DOMAIN outcome.suggestions :
      KeepsOf(AllSuggestions(answers), outcome.suggestions[i].place, outcome.suggestions[i].comments)

\* CommentsAccounted: the comparison with those seen so far does not lose a
\* comment, in whatever order the samples bring them.
THEOREM NoCommentLost == RouteSpec => []CommentsAccounted
<1>1. RouteInit => ReviewIsMerge
  BY DEF RouteInit, ReviewIsMerge
<1>2. RouteKept /\ ReviewIsMerge => CommentsAccounted
  <2> DEFINE all == AllSuggestions(answers)
             out == outcome.suggestions
  <2> SUFFICES ASSUME RouteKept, ReviewIsMerge, step = "done", outcome.from \in {"qwen", "mistral"},
                      NEW i \in DOMAIN out
               PROVE  KeepsOf(all, out[i].place, out[i].comments)
    BY DEF CommentsAccounted
  <2>1. all \in Seq(Suggestion)
    BY SuggestionsTyped DEF RouteKept
  <2>2. out = Deduplicate(all)
    BY DEF ReviewIsMerge
  <2> HIDE DEF all, out
  <2>3. out[i].comments = Comments(all, out[i].place)
    BY <2>1, <2>2, DeduplicateMerges, MergedIs
  <2> QED BY <2>1, <2>3, CommentsAreKept
<1> QED BY <1>1, <1>2, RouteStart, RouteStep, MergeStep, PTL DEF RouteSpec

-----------------------------------------------------------------------------
(* The vote of the neighbours *)

\* A set of numbers has a smallest element.
LEMMA Smallest ==
  ASSUME NEW A \in SUBSET Nat, A # {}
  PROVE  \E i \in A : \A j \in A : i <= j
<1> DEFINE R == {ss \in Nat \X Nat : ss[1] < ss[2]}
<1>1. IsWellFoundedOn(R, Nat)
  BY NatLessThanWellFounded DEF OpToRel
<1>2. PICK i \in A : \A j \in A : <<j, i>> \notin R
  <2> HIDE DEF R
  <2> QED BY <1>1, WFMin
<1>3. ASSUME NEW j \in A PROVE i <= j
  <2>1. i \in Nat /\ j \in Nat /\ ~(j < i)
    BY <1>2
  <2> QED BY <2>1
<1> QED BY <1>3

\* No class has more votes than the one Vote elects.
LEMMA VoteIsPlurality ==
  ASSUME NEW ns, IsFiniteSet(DOMAIN ns)
  PROVE  \A c \in Category \cup {"unknown"} : Votes(ns, c) <= Votes(ns, Vote(ns))
<1> DEFINE A == DOMAIN Alphabet
           votes(i) == Votes(ns, Alphabet[i])
           leads(i) == \A j \in A : votes(j) <= votes(i)
           S == {votes(i) : i \in A}
           L == {i \in A : leads(i)}
<1>1. A = 1..6 /\ \A c \in Category \cup {"unknown"} : \E i \in A : Alphabet[i] = c
  <2>1. A = 1..6
    BY DEF Alphabet
  <2>2. /\ Alphabet[1] = "discussion" /\ Alphabet[2] = "documentation"
        /\ Alphabet[3] = "false_positive" /\ Alphabet[4] = "functional"
        /\ Alphabet[5] = "refactoring" /\ Alphabet[6] = "unknown"
    BY DEF Alphabet
  <2>3. 1 \in 1..6 /\ 2 \in 1..6 /\ 3 \in 1..6 /\ 4 \in 1..6 /\ 5 \in 1..6 /\ 6 \in 1..6
    OBVIOUS
  <2> HIDE DEF A
  <2> QED BY <2>1, <2>2, <2>3, Zenon DEF Category
<1>2. ASSUME NEW c PROVE Votes(ns, c) \in Nat /\ Votes(ns, c) <= Cardinality(DOMAIN ns)
  <2> DEFINE T == {i \in DOMAIN ns : ns[i].category = c}
  <2>1. T \in SUBSET DOMAIN ns
    OBVIOUS
  <2> HIDE DEF T
  <2>2. IsFiniteSet(T) /\ Cardinality(T) <= Cardinality(DOMAIN ns)
    BY <2>1, FS_Subset
  <2>3. Cardinality(T) \in Nat
    BY <2>2, FS_CardinalityType
  <2> QED BY <2>2, <2>3 DEF Votes, T
<1>3. Cardinality(DOMAIN ns) \in Nat
  BY FS_CardinalityType
<1> HIDE DEF A
<1>4. S \in SUBSET Nat /\ S # {} /\ \A n \in S : n <= Cardinality(DOMAIN ns)
  BY <1>1, <1>2
<1>5. PICK n \in S : \A m \in S : m <= n
  <2> HIDE DEF S
  <2> QED BY <1>3, <1>4, Largest
<1>6. L # {} /\ L \in SUBSET Nat
  <2>1. PICK i \in A : n = votes(i)
    BY <1>5
  <2>2. \A j \in A : votes(j) \in S
    OBVIOUS
  <2>3. leads(i)
    <3> HIDE DEF S, votes
    <3> QED BY <1>5, <2>1, <2>2
  <2> QED BY <1>1, <2>1, <2>3
<1>7. PICK i \in L : \A j \in L : i <= j
  <2> HIDE DEF L
  <2> QED BY <1>6, Smallest
<1>8. i \in A /\ leads(i) /\ \A j \in 1..(i - 1) : ~leads(j)
  <2>1. i \in 1..6 /\ leads(i)
    BY <1>1, <1>7
  <2> SUFFICES ASSUME NEW j \in 1..(i - 1), leads(j) PROVE FALSE
    BY <1>1, <2>1
  <2>2. j \in 1..6 /\ j < i
    BY <2>1
  <2>3. j \in L
    BY <1>1, <2>2
  <2> QED BY <1>7, <2>1, <2>2, <2>3
<1>9. Vote(ns) = Alphabet[CHOOSE k \in A : leads(k) /\ \A j \in 1..(k - 1) : ~leads(j)]
  BY DEF Vote, A
<1> HIDE DEF leads
<1>10. PICK k \in A : leads(k) /\ Vote(ns) = Alphabet[k]
  BY <1>8, <1>9
<1> QED BY <1>1, <1>10 DEF leads

\* ns are found, the best ones first, and no other hit is better than one of them.
BestOf(found, ns) ==
  \E order \in [DOMAIN ns -> DOMAIN found] :
    /\ \A i \in DOMAIN ns : ns[i] = found[order[i]]
    /\ \A i, j \in DOMAIN ns : i < j => order[i] # order[j] /\ ns[i].score >= ns[j].score
    /\ \A k \in DOMAIN found : (\A i \in DOMAIN ns : order[i] # k) =>
         Len(ns) = TopK /\ \A i \in DOMAIN ns : found[k].score <= ns[i].score

LEMMA HitsTyped ==
  ASSUME NEW p \in PrimaryHits, NEW s \in SecondaryHits
  PROVE  Hits(p, s) \in Seq(Neighbour)
<1>1. p \in Seq(Neighbour) /\ s \in Seq(Neighbour)
  BY RoutingAssumption
<1> HIDE DEF Neighbour
<1> QED BY <1>1 DEF Hits

\* Whoever votes is among the best.
LEMMA NeighboursAreBest ==
  ASSUME NEW p \in PrimaryHits, NEW s \in SecondaryHits
  PROVE  BestOf(Hits(p, s), Neighbours(p, s)) /\ IsFiniteSet(DOMAIN Neighbours(p, s))
<1> DEFINE found == Hits(p, s)
           D == DOMAIN found
           R == {ab \in D \X D : ByScore(found, ab[1], ab[2])}
           order == Ranked(D, LAMBDA a, b : ByScore(found, a, b))
           n == IF Len(found) < TopK THEN Len(found) ELSE TopK
           ns == Neighbours(p, s)
<1>1. D = 1..Len(found) /\ Len(found) \in Nat /\ TopK \in Nat /\ \A i \in D : found[i].score \in Int
  <2>1. found \in Seq(Neighbour)
    BY HitsTyped
  <2> HIDE DEF found
  <2>2. \A i \in D : found[i] \in Neighbour
    BY <2>1
  <2> QED BY <2>1, <2>2, RoutingAssumption DEF Neighbour
<1>2. ns = [i \in 1..n |-> found[order[i]]]
  BY DEF Neighbours
<1> HIDE DEF found, ns
<1>3. IsFiniteSet(D) /\ Cardinality(D) = Len(found)
  <2>1. IsFiniteSet(1..Len(found)) /\ Cardinality(1..Len(found)) = Len(found)
    BY <1>1, FS_Interval
  <2> QED BY <1>1, <2>1
<1>4. \A a, b \in D : <<a, b>> \in R <=>
        found[a].score > found[b].score \/ (found[a].score = found[b].score /\ a < b)
  BY DEF ByScore
<1>5. Orders(R, D)
  <2> HIDE DEF R
  <2>1. D \subseteq Nat
    BY <1>1
  <2> HIDE DEF D
  <2>2. ASSUME NEW x \in D, NEW y \in D, NEW z \in D, <<x, y>> \in R, <<y, z>> \in R
        PROVE  <<x, z>> \in R
    BY <1>1, <1>4, <2>1, <2>2
  <2>3. \A x \in D : <<x, x>> \notin R
    BY <1>1, <1>4, <2>1
  <2>4. \A x, y \in D : x # y => <<x, y>> \in R \/ <<y, x>> \in R
    BY <1>1, <1>4, <2>1
  <2> QED BY <2>2, <2>3, <2>4 DEF Orders
<1>6. order = InOrderOf(R, D)
  <2> DEFINE below(i) == CHOOSE x \in D : Cardinality(Below(R, D, x)) = i - 1
             placed(i) == CHOOSE x \in D : Cardinality({y \in D : ByScore(found, y, x)}) = i - 1
  <2>1. order = [i \in 1..Cardinality(D) |-> placed(i)]
    BY DEF Ranked
  <2>2. InOrderOf(R, D) = [i \in 1..Cardinality(D) |-> below(i)]
    BY Zenon DEF InOrderOf
  <2>3. \A x \in D : Below(R, D, x) = {y \in D : ByScore(found, y, x)}
    BY DEF Below
  <2>4. \A i : below(i) = placed(i)
    <3> HIDE DEF order, R, D
    <3> QED BY <2>3
  <2> HIDE DEF order, R, D, below, placed
  <2> QED BY <2>1, <2>2, <2>4
<1> HIDE DEF order, R, D, n
<1>7. /\ \A i \in DOMAIN order : order[i] \in D
      /\ \A x \in D : \E i \in DOMAIN order : order[i] = x
      /\ \A i, j \in DOMAIN order : i < j => <<order[i], order[j]>> \in R
      /\ DOMAIN order = 1..Len(found)
  BY <1>3, <1>5, <1>6, RankedSorts
<1>8. n \in Nat /\ n <= Len(found) /\ (n < Len(found) => n = TopK)
  BY <1>1 DEF n
<1>9. DOMAIN ns = 1..n /\ Len(ns) = n /\ \A i \in 1..n : ns[i] = found[order[i]]
  BY <1>2, <1>8
<1>10. \A i \in 1..n : i \in DOMAIN order /\ order[i] \in D
  BY <1>1, <1>7, <1>8
<1>11. ASSUME NEW i \in DOMAIN order, NEW j \in DOMAIN order, i < j
       PROVE  order[i] # order[j] /\ found[order[i]].score >= found[order[j]].score
  <2>1. order[i] \in D /\ order[j] \in D /\ <<order[i], order[j]>> \in R
    BY <1>7, <1>11
  <2>2. order[i] # order[j]
    BY <1>5, <2>1 DEF Orders
  <2>3. found[order[i]].score \in Int /\ found[order[j]].score \in Int
    BY <1>1, <2>1
  <2> QED BY <1>4, <2>1, <2>2, <2>3
<1>12. ASSUME NEW k \in D, \A i \in 1..n : order[i] # k
       PROVE  n = TopK /\ \A i \in 1..n : found[k].score <= ns[i].score
  <2>1. PICK m \in DOMAIN order : order[m] = k
    BY <1>7
  <2>2. m \in 1..Len(found) /\ m \notin 1..n
    BY <1>7, <1>12, <2>1
  <2>3. n < m /\ n < Len(found) /\ m \in Nat
    BY <1>1, <1>8, <2>2
  <2>4. ASSUME NEW i \in 1..n PROVE found[k].score <= ns[i].score
    <3>1. i \in DOMAIN order /\ i < m
      BY <1>8, <1>10, <2>3
    <3>2. found[order[i]].score >= found[order[m]].score
      BY <1>11, <3>1
    <3>3. found[order[i]].score \in Int /\ found[k].score \in Int
      BY <1>1, <1>10
    <3> QED BY <1>9, <2>1, <3>2, <3>3
  <2> QED BY <1>8, <2>3, <2>4
<1>13. BestOf(found, ns)
  <2> DEFINE f == [i \in 1..n |-> order[i]]
  <2>1. f \in [DOMAIN ns -> DOMAIN found]
    BY <1>9, <1>10 DEF D
  <2>2. \A i \in DOMAIN ns : f[i] = order[i] /\ ns[i] = found[f[i]]
    BY <1>9
  <2>3. ASSUME NEW i \in DOMAIN ns, NEW j \in DOMAIN ns, i < j
        PROVE  f[i] # f[j] /\ ns[i].score >= ns[j].score
    <3>1. i \in DOMAIN order /\ j \in DOMAIN order
      BY <1>9, <1>10
    <3>2. order[i] # order[j] /\ found[order[i]].score >= found[order[j]].score
      BY <1>11, <2>3, <3>1
    <3> QED BY <2>2, <3>2
  <2>4. ASSUME NEW k \in DOMAIN found, \A i \in DOMAIN ns : f[i] # k
        PROVE  Len(ns) = TopK /\ \A i \in DOMAIN ns : found[k].score <= ns[i].score
    <3>1. k \in D /\ \A i \in 1..n : order[i] # k
      BY <1>9, <2>2, <2>4 DEF D
    <3> QED BY <1>9, <1>12, <3>1
  <2> HIDE DEF f
  <2> QED BY <2>1, <2>2, <2>3, <2>4 DEF BestOf
<1>14. IsFiniteSet(DOMAIN ns)
  <2>1. IsFiniteSet(1..n)
    BY <1>8, FS_Interval
  <2> QED BY <1>9, <2>1
<1> QED BY <1>13, <1>14 DEF found, ns

\* The class of a diff is replaced only by one that neither another class
\* nor "unknown" outnumbers among at least three neighbours, the best of all hits.
ReplacedByPlurality ==
  [][\A p \in PrimaryHits, s \in SecondaryHits :
       Retrieve(p, s) /\ category' # category =>
         LET ns == Neighbours(p, s)
         IN  /\ Len(ns) >= 3 /\ BestOf(Hits(p, s), ns)
             /\ \A c \in Category \cup {"unknown"} : Votes(ns, c) <= Votes(ns, category')]_routeVars

\* ReplacedByPlurality: the search in two collections, its sort and the vote
\* work out what the neighbours say for whatever hits there are.
THEOREM VotersReplaceTheClass == RouteSpec => ReplacedByPlurality
<1>1. ASSUME NEW p \in PrimaryHits, NEW s \in SecondaryHits, Retrieve(p, s), category' # category
      PROVE  LET ns == Neighbours(p, s)
             IN  /\ Len(ns) >= 3 /\ BestOf(Hits(p, s), ns)
                 /\ \A c \in Category \cup {"unknown"} : Votes(ns, c) <= Votes(ns, category')
  <2> DEFINE ns == Neighbours(p, s)
  <2>1. category' = Override(category, ns)
    BY <1>1 DEF Retrieve
  <2> HIDE DEF ns
  <2>2. Len(ns) >= 3 /\ category' = Vote(ns)
    BY <1>1, <2>1 DEF Override
  <2>3. BestOf(Hits(p, s), ns) /\ IsFiniteSet(DOMAIN ns)
    BY NeighboursAreBest DEF ns
  <2> QED BY <2>2, <2>3, VoteIsPlurality DEF ns
<1>2. [\A p \in PrimaryHits, s \in SecondaryHits :
         Retrieve(p, s) /\ category' # category =>
           LET ns == Neighbours(p, s)
           IN  /\ Len(ns) >= 3 /\ BestOf(Hits(p, s), ns)
               /\ \A c \in Category \cup {"unknown"} : Votes(ns, c) <= Votes(ns, category')]_routeVars
  BY <1>1
<1> QED BY <1>2, PTL DEF ReplacedByPlurality

-----------------------------------------------------------------------------
(***************************************************************************)
(* Social records and the rate limiter                                     *)
(***************************************************************************)

(* Requests in flight *)

Visiting ==
  [kind : {"idle", "mark", "marking", "unmark", "follow", "found", "expire"},
   what : Mark \cup {None}, fan : Fan \cup {None},
   whom : Fan \cup Startup \cup Client \cup {None}, seen : Nat]

\* Only stars and watches have a counter at hand.
VisitsTyped ==
  /\ visits \in [SocialSlots -> Visiting]
  /\ tally \in [Mark -> Nat]
  /\ \A q \in SocialSlots :
        visits[q].what \in Mark <=> visits[q].kind \in {"mark", "marking", "unmark"}

\* A request comes in, moves on or ends; the others stay as they are.
Steps(q, v) == visits' = [visits EXCEPT ![q] = v]

LEMMA EmptyVisit ==
  /\ NoVisit \in Visiting /\ NoVisit.what = None /\ None \notin Mark
  /\ NoVisit.kind = "idle"
  BY DEF NoVisit, Visiting, None, Mark

LEMMA VisitsTypedInit == SocialInit => VisitsTyped
  BY EmptyVisit DEF SocialInit, VisitsTyped

LEMMA VisitsTypedKept == VisitsTyped /\ [SocialNext]_socialVars => VisitsTyped'
<1> SUFFICES ASSUME VisitsTyped, [SocialNext]_socialVars
             PROVE  VisitsTyped'
  OBVIOUS
<1> USE DEF VisitsTyped
<1>1. ASSUME NEW q \in SocialSlots, NEW v \in Visiting, Steps(q, v),
             v.what \in Mark <=> v.kind \in {"mark", "marking", "unmark"},
             tally' \in [Mark -> Nat]
      PROVE  VisitsTyped'
  BY <1>1 DEF Steps
<1>2. ASSUME NEW q \in SocialSlots, Leave(q), tally' \in [Mark -> Nat]
      PROVE  VisitsTyped'
  BY <1>1, <1>2, EmptyVisit DEF Leave, Steps
<1>3. CASE UNCHANGED socialVars
  BY <1>3 DEF socialVars
<1>4. ASSUME NEW q \in SocialSlots, NEW k \in Mark, NEW f \in Fan, NEW kind \in {"mark", "unmark"},
             LoadRepository(q, k, f, kind)
      PROVE  VisitsTyped'
  <2> DEFINE v == [NoVisit EXCEPT !.kind = kind, !.what = k, !.fan = f, !.seen = tally[k]]
  <2>1. v \in Visiting /\ v.what = k /\ v.kind = kind
    BY DEF NoVisit, Visiting
  <2>2. Steps(q, v) /\ tally' = tally
    BY <1>4 DEF LoadRepository, Visit, Steps
  <2> QED BY <1>1, <2>1, <2>2
<1>5. ASSUME NEW q \in SocialSlots, AlreadyMarked(q)
      PROVE  VisitsTyped'
  BY <1>2, <1>5 DEF AlreadyMarked, popularity
<1>6. ASSUME NEW q \in SocialSlots, NotYetMarked(q)
      PROVE  VisitsTyped'
  <2> DEFINE v == [visits[q] EXCEPT !.kind = "marking"]
  <2>1. v \in Visiting /\ v.what = visits[q].what /\ v.kind = "marking"
    BY DEF Visiting
  <2>2. Steps(q, v) /\ tally' = tally /\ visits[q].what \in Mark
    BY <1>6 DEF NotYetMarked, GoOn, Steps, popularity
  <2> QED BY <1>1, <2>1, <2>2
<1>7. ASSUME NEW q \in SocialSlots, CommitMark(q)
      PROVE  VisitsTyped'
  <2>1. visits[q].seen \in Nat
    BY DEF Visiting
  <2>2. tally' \in [Mark -> Nat]
    BY <1>7, <2>1 DEF CommitMark
  <2> QED BY <1>2, <1>7, <2>2 DEF CommitMark
<1>8. ASSUME NEW q \in SocialSlots, CommitUnmark(q)
      PROVE  VisitsTyped'
  <2>1. visits[q].seen \in Nat
    BY DEF Visiting
  <2>2. tally' \in [Mark -> Nat]
    BY <1>8, <2>1 DEF CommitUnmark
  <2> QED BY <1>2, <1>8, <2>2 DEF CommitUnmark
<1>9. ASSUME NEW q \in SocialSlots, NEW f \in Fan, NEW g \in Fan, CheckFollow(q, f, g)
      PROVE  VisitsTyped'
  <2> DEFINE v == [NoVisit EXCEPT !.kind = "follow", !.fan = f, !.whom = g]
  <2>1. v \in Visiting /\ v.what = None /\ v.kind = "follow"
    BY DEF NoVisit, Visiting
  <2>2. Steps(q, v) /\ tally' = tally
    BY <1>9 DEF CheckFollow, Visit, Steps, popularity
  <2> QED BY <1>1, <2>1, <2>2, EmptyVisit
<1>10. ASSUME NEW q \in SocialSlots, InsertFollow(q) \/ Expire(q) \/ ExpireFails(q) \/ InsertStartup(q)
       PROVE  VisitsTyped'
  BY <1>2, <1>10 DEF InsertFollow, Expire, ExpireFails, InsertStartup, popularity
<1>11. ASSUME NEW q \in SocialSlots, NEW f \in Fan, NEW s \in Startup, CheckSlug(q, f, s)
       PROVE  VisitsTyped'
  <2> DEFINE v == [NoVisit EXCEPT !.kind = "found", !.fan = f, !.whom = s]
  <2>1. v \in Visiting /\ v.what = None /\ v.kind = "found"
    BY DEF NoVisit, Visiting
  <2>2. Steps(q, v) /\ tally' = tally
    BY <1>11 DEF CheckSlug, Visit, Steps, popularity
  <2> QED BY <1>1, <2>1, <2>2, EmptyVisit
<1>12. ASSUME NEW q \in SocialSlots, NEW c \in Client, Increment(q, c)
       PROVE  VisitsTyped'
  <2> DEFINE v == [NoVisit EXCEPT !.kind = "expire", !.whom = c]
  <2>1. v \in Visiting /\ v.what = None /\ v.kind = "expire"
    BY DEF NoVisit, Visiting
  <2>2. tally' = tally /\ (Steps(q, v) \/ visits' = visits)
    BY <1>12 DEF Increment, Visit, Steps, popularity
  <2> QED BY <1>1, <2>1, <2>2, EmptyVisit
<1>13. ASSUME NEW f \in Fan, NEW g \in Fan, Unfollow(f, g)
       PROVE  VisitsTyped'
  BY <1>13 DEF Unfollow, popularity
<1>14. ASSUME NEW c \in Client, WindowEnds(c)
       PROVE  VisitsTyped'
  BY <1>14 DEF WindowEnds, popularity
<1>15. CASE RestartSocial
  BY <1>15, EmptyVisit DEF RestartSocial, popularity
<1> QED
  BY <1>3, <1>4, <1>5, <1>6, <1>7, <1>8, <1>9, <1>10, <1>11, <1>12, <1>13, <1>14, <1>15
  DEF SocialNext

-----------------------------------------------------------------------------
(* The rate limiter *)

\* A counter that runs has a time to live, gets one next, or lost its request.
WindowKept ==
  /\ hits \in [Client -> Nat]
  /\ \A c \in Client \ stuck :
        hits[c] # 0 => \/ c \in timed
                       \/ \E q \in SocialSlots : visits[q].kind = "expire" /\ visits[q].whom = c

LEMMA WindowKeptNext ==
  VisitsTyped /\ WindowKept /\ [SocialNext]_socialVars => WindowKept'
<1> SUFFICES ASSUME VisitsTyped, WindowKept, [SocialNext]_socialVars
             PROVE  WindowKept'
  OBVIOUS
<1> USE DEF VisitsTyped, WindowKept
\* A step of a request that gives no counter its time to live.
<1>1. ASSUME NEW q \in SocialSlots, NEW v, Steps(q, v), visits[q].kind # "expire", UNCHANGED limiter
      PROVE  WindowKept'
  BY <1>1 DEF Steps, limiter
<1>2. ASSUME NEW q \in SocialSlots, Leave(q), visits[q].kind # "expire", UNCHANGED limiter
      PROVE  WindowKept'
  BY <1>1, <1>2 DEF Leave, Steps
<1>3. CASE UNCHANGED socialVars
  BY <1>3 DEF socialVars
<1>4. ASSUME NEW q \in SocialSlots, NEW k \in Mark, NEW f \in Fan, NEW kind \in {"mark", "unmark"},
             LoadRepository(q, k, f, kind)
      PROVE  WindowKept'
  BY <1>1, <1>4 DEF LoadRepository, Visit, Steps
<1>5. ASSUME NEW q \in SocialSlots,
             AlreadyMarked(q) \/ CommitMark(q) \/ CommitUnmark(q) \/ InsertFollow(q) \/ InsertStartup(q)
      PROVE  WindowKept'
  BY <1>2, <1>5 DEF AlreadyMarked, CommitMark, CommitUnmark, InsertFollow, InsertStartup
<1>6. ASSUME NEW q \in SocialSlots, NotYetMarked(q)
      PROVE  WindowKept'
  BY <1>1, <1>6 DEF NotYetMarked, GoOn, Steps
<1>7. ASSUME NEW q \in SocialSlots, NEW f \in Fan, NEW g \in Fan, CheckFollow(q, f, g)
      PROVE  WindowKept'
  BY <1>1, <1>7 DEF CheckFollow, Visit, Steps
<1>8. ASSUME NEW q \in SocialSlots, NEW f \in Fan, NEW s \in Startup, CheckSlug(q, f, s)
      PROVE  WindowKept'
  BY <1>1, <1>8 DEF CheckSlug, Visit, Steps
<1>9. ASSUME NEW q \in SocialSlots, NEW c \in Client, Increment(q, c)
      PROVE  WindowKept'
  <2>1. hits' = [hits EXCEPT ![c] = @ + 1] /\ timed' = timed /\ stuck' = stuck
    BY <1>9 DEF Increment
  <2>2. CASE hits[c] = 0
    <3> DEFINE v == [NoVisit EXCEPT !.kind = "expire", !.whom = c]
    <3>1. v.kind = "expire" /\ v.whom = c
      BY DEF NoVisit
    <3>2. visits' = [visits EXCEPT ![q] = v] /\ visits[q].kind = "idle"
      BY <1>9, <2>2 DEF Increment, Visit
    <3> HIDE DEF v
    <3> QED BY <2>1, <3>1, <3>2
  <2>3. CASE hits[c] # 0
    <3>1. visits' = visits
      BY <1>9, <2>3 DEF Increment
    <3> QED BY <2>1, <2>3, <3>1
  <2> QED BY <2>2, <2>3
<1>10. ASSUME NEW q \in SocialSlots, Expire(q) \/ ExpireFails(q)
       PROVE  WindowKept'
  <2>1. \A o \in SocialSlots \ {q} : visits'[o] = visits[o]
    BY <1>10 DEF Expire, ExpireFails, Leave
  <2>2. CASE Expire(q)
    BY <2>1, <2>2 DEF Expire
  <2>3. CASE ExpireFails(q)
    BY <2>1, <2>3 DEF ExpireFails
  <2> QED BY <1>10, <2>2, <2>3
<1>11. ASSUME NEW f \in Fan, NEW g \in Fan, Unfollow(f, g)
       PROVE  WindowKept'
  BY <1>11 DEF Unfollow, limiter
<1>12. ASSUME NEW c \in Client, WindowEnds(c)
       PROVE  WindowKept'
  BY <1>12 DEF WindowEnds
<1>13. CASE RestartSocial
  BY <1>13 DEF RestartSocial
<1> QED
  BY <1>3, <1>4, <1>5, <1>6, <1>7, <1>8, <1>9, <1>10, <1>11, <1>12, <1>13 DEF SocialNext

\* Whoever is over the limit is let in again when the window ends, unless the
\* EXPIRE after the first INCR failed or never came: nothing else leaves a
\* counter without a time to live (core/rate_limit.py:38-40).
THEOREM RefusalIsTemporary == SocialSpec => []RefusalEnds
<1>1. SocialInit => WindowKept
  BY DEF SocialInit, WindowKept
<1>2. WindowKept => RefusalEnds
  BY LimitAssumption DEF WindowKept, RefusalEnds
<1> QED BY <1>1, <1>2, VisitsTypedInit, VisitsTypedKept, WindowKeptNext, PTL DEF SocialSpec

-----------------------------------------------------------------------------
(* The counters *)

\* A counter nobody disturbed has at most one request at work on it, which has
\* read its present value.
CountKept ==
  /\ \A k \in Mark : IsFiniteSet(marks[k])
  /\ marks \in [Mark -> SUBSET (Fan \cup {None})] /\ disturbed \subseteq Mark
  /\ \A k \in Mark \ disturbed :
        /\ tally[k] = Cardinality(marks[k])
        /\ \A q, r \in SocialSlots : visits[q].what = k /\ visits[r].what = k => q = r
        /\ \A q \in SocialSlots : visits[q].what = k =>
              /\ visits[q].seen = tally[k]
              /\ visits[q].kind = "marking" => visits[q].fan \notin marks[k]

LEMMA AddMark ==
  ASSUME NEW S, NEW x, IsFiniteSet(S), x \notin S
  PROVE  IsFiniteSet(S \cup {x}) /\ Cardinality(S \cup {x}) = Cardinality(S) + 1
  BY FS_AddElement

LEMMA RemoveMark ==
  ASSUME NEW S, NEW x, IsFiniteSet(S), x \in S
  PROVE  /\ IsFiniteSet(S \ {x}) /\ Cardinality(S \ {x}) = Cardinality(S) - 1
         /\ Cardinality(S) \in Nat \ {0}
<1>1. IsFiniteSet(S \ {x}) /\ Cardinality(S \ {x}) = Cardinality(S) - 1
  BY FS_RemoveElement
<1>2. Cardinality(S) \in Nat /\ Cardinality(S) # 0
  BY FS_CardinalityType, FS_EmptySet
<1> QED BY <1>1, <1>2

\* A request that has nothing to do with counters comes or goes, or one ends.
LEMMA CountUntouched ==
  ASSUME VisitsTyped, CountKept, NEW q \in SocialSlots, NEW v, Steps(q, v), v.what = None,
         UNCHANGED popularity
  PROVE  CountKept'
BY EmptyVisit DEF CountKept, Steps, popularity, VisitsTyped

\* A request writes the rows and the counter of k and ends.
LEMMA CountWritten ==
  ASSUME VisitsTyped, CountKept, NEW q \in SocialSlots, NEW k \in Mark, visits[q].what = k,
         NEW S \in SUBSET (Fan \cup {None}), IsFiniteSet(S), NEW n \in Nat,
         visits' = [visits EXCEPT ![q] = NoVisit],
         marks' = [marks EXCEPT ![k] = S], tally' = [tally EXCEPT ![k] = n],
         disturbed \subseteq disturbed', disturbed' \subseteq Mark,
         k \notin disturbed' => n = Cardinality(S)
  PROVE  CountKept'
BY EmptyVisit DEF CountKept, VisitsTyped

LEMMA CountKeptNext ==
  VisitsTyped /\ CountKept /\ [SocialNext]_socialVars => CountKept'
<1> SUFFICES ASSUME VisitsTyped, CountKept, [SocialNext]_socialVars
             PROVE  CountKept'
  OBVIOUS
<1>1. ASSUME NEW q \in SocialSlots, Leave(q), UNCHANGED popularity
      PROVE  CountKept'
  BY <1>1, CountUntouched, EmptyVisit DEF Leave, Steps
<1>3. CASE UNCHANGED socialVars
  BY <1>3 DEF socialVars, CountKept
<1>4. ASSUME NEW q \in SocialSlots, NEW k \in Mark, NEW f \in Fan, NEW kind \in {"mark", "unmark"},
             LoadRepository(q, k, f, kind)
      PROVE  CountKept'
  <2> DEFINE v == [NoVisit EXCEPT !.kind = kind, !.what = k, !.fan = f, !.seen = tally[k]]
  <2>1. v.what = k /\ v.kind \in {"mark", "unmark"} /\ v.seen = tally[k]
    BY DEF NoVisit
  <2>2. visits' = [visits EXCEPT ![q] = v] /\ UNCHANGED <<marks, tally>>
        /\ disturbed' = IF \E o \in SocialSlots \ {q} : visits[o].what = k
                        THEN disturbed \cup {k} ELSE disturbed
    BY <1>4 DEF LoadRepository, Visit
  <2> HIDE DEF v
  <2> QED BY <2>1, <2>2 DEF CountKept, VisitsTyped
<1>5. ASSUME NEW q \in SocialSlots, AlreadyMarked(q)
      PROVE  CountKept'
  BY <1>1, <1>5 DEF AlreadyMarked
<1>6. ASSUME NEW q \in SocialSlots, NotYetMarked(q)
      PROVE  CountKept'
  <2> DEFINE v == [visits[q] EXCEPT !.kind = "marking"]
  <2>1. v.what = visits[q].what /\ v.fan = visits[q].fan /\ v.seen = visits[q].seen
    BY DEF VisitsTyped, Visiting
  <2>2. visits' = [visits EXCEPT ![q] = v] /\ UNCHANGED popularity
        /\ visits[q].fan \notin marks[visits[q].what]
    BY <1>6 DEF NotYetMarked, GoOn
  <2> HIDE DEF v
  <2> QED BY <2>1, <2>2 DEF CountKept, VisitsTyped, popularity
<1>7. ASSUME NEW q \in SocialSlots, CommitMark(q)
      PROVE  CountKept'
  <2> DEFINE k == visits[q].what
             f == visits[q].fan
  <2>1. /\ visits' = [visits EXCEPT ![q] = NoVisit] /\ disturbed' = disturbed
        /\ visits[q].kind = "marking" /\ k \in Mark /\ f \in Fan \cup {None}
    BY <1>7 DEF CommitMark, Leave, VisitsTyped, Visiting
  <2>2. CASE f \in marks[k]
    BY <1>1, <1>7, <2>2 DEF CommitMark, popularity
  <2>3. CASE f \notin marks[k]
    <3>1. marks' = [marks EXCEPT ![k] = @ \cup {f}]
          /\ tally' = [tally EXCEPT ![k] = visits[q].seen + 1]
      BY <1>7, <2>3 DEF CommitMark
    <3>2. /\ IsFiniteSet(marks[k]) /\ marks[k] \subseteq Fan \cup {None}
          /\ visits[q].seen \in Nat
          /\ k \notin disturbed => visits[q].seen = Cardinality(marks[k])
          /\ disturbed \subseteq Mark
      BY <2>1 DEF CountKept, VisitsTyped, Visiting
    <3>3. IsFiniteSet(marks[k] \cup {f}) /\ Cardinality(marks[k] \cup {f}) = Cardinality(marks[k]) + 1
      BY <2>3, <3>2, AddMark
    <3>4. /\ marks' = [marks EXCEPT ![k] = marks[k] \cup {f}]
          /\ visits[q].seen + 1 \in Nat
          /\ k \notin disturbed' => visits[q].seen + 1 = Cardinality(marks[k] \cup {f})
          /\ marks[k] \cup {f} \in SUBSET (Fan \cup {None})
      BY <2>1, <3>1, <3>2, <3>3
    <3> QED BY <2>1, <3>1, <3>2, <3>3, <3>4, CountWritten
  <2> QED BY <2>2, <2>3
<1>8. ASSUME NEW q \in SocialSlots, CommitUnmark(q)
      PROVE  CountKept'
  <2> DEFINE k == visits[q].what
             f == visits[q].fan
             n == IF visits[q].seen = 0 THEN tally[k] ELSE visits[q].seen - 1
  <2>1. /\ visits' = [visits EXCEPT ![q] = NoVisit]
        /\ visits[q].kind = "unmark" /\ k \in Mark /\ f \in Fan \cup {None}
        /\ marks' = [marks EXCEPT ![k] = @ \ {f}]
        /\ tally' = IF visits[q].seen = 0 THEN tally ELSE [tally EXCEPT ![k] = visits[q].seen - 1]
        /\ disturbed' = IF f \in marks[k] THEN disturbed ELSE disturbed \cup {k}
    BY <1>8 DEF CommitUnmark, Leave, VisitsTyped, Visiting
  <2>2. /\ IsFiniteSet(marks[k]) /\ marks[k] \subseteq Fan \cup {None}
        /\ visits[q].seen \in Nat /\ tally[k] \in Nat
        /\ k \notin disturbed => visits[q].seen = Cardinality(marks[k])
        /\ disturbed \subseteq Mark
    BY <2>1 DEF CountKept, VisitsTyped, Visiting
  <2>3. tally' = [tally EXCEPT ![k] = n] /\ n \in Nat
    <3>1. CASE visits[q].seen = 0
      <4>1. tally' = tally /\ n = tally[k]
        BY <2>1, <3>1
      <4>2. tally = [tally EXCEPT ![k] = tally[k]]
        BY DEF VisitsTyped
      <4> QED BY <2>2, <4>1, <4>2
    <3>2. CASE visits[q].seen # 0
      <4>1. n = visits[q].seen - 1
        BY <3>2
      <4> QED BY <2>1, <2>2, <3>2, <4>1
    <3> QED BY <3>1, <3>2
  <2>4. IsFiniteSet(marks[k] \ {f}) /\ marks' = [marks EXCEPT ![k] = marks[k] \ {f}]
        /\ marks[k] \ {f} \in SUBSET (Fan \cup {None})
    BY <2>1, <2>2, FS_RemoveElement
  <2>5. disturbed \subseteq disturbed' /\ disturbed' \subseteq Mark
    BY <2>1, <2>2
  <2>6. ASSUME k \notin disturbed'
        PROVE  n = Cardinality(marks[k] \ {f})
    <3>1. f \in marks[k] /\ k \notin disturbed
      BY <2>1, <2>6
    <3>2. /\ Cardinality(marks[k] \ {f}) = Cardinality(marks[k]) - 1
          /\ Cardinality(marks[k]) \in Nat \ {0}
      BY <2>2, <3>1, RemoveMark
    <3> QED BY <2>2, <3>1, <3>2
  <2>7. /\ visits[q].what = k /\ k \in Mark /\ visits' = [visits EXCEPT ![q] = NoVisit]
        /\ k \notin disturbed' => n = Cardinality(marks[k] \ {f})
    BY <2>1, <2>6
  <2> HIDE DEF n, f, k
  <2> QED BY <2>3, <2>4, <2>5, <2>7, CountWritten
<1>9. ASSUME NEW q \in SocialSlots, NEW f \in Fan, NEW g \in Fan, CheckFollow(q, f, g)
      PROVE  CountKept'
  <2>1. [NoVisit EXCEPT !.kind = "follow", !.fan = f, !.whom = g].what = None
    BY DEF NoVisit
  <2> QED BY <1>9, <2>1, CountUntouched DEF CheckFollow, Visit, Steps
<1>10. ASSUME NEW q \in SocialSlots, InsertFollow(q) \/ Expire(q) \/ ExpireFails(q) \/ InsertStartup(q)
       PROVE  CountKept'
  BY <1>1, <1>10 DEF InsertFollow, Expire, ExpireFails, InsertStartup
<1>11. ASSUME NEW q \in SocialSlots, NEW f \in Fan, NEW s \in Startup, CheckSlug(q, f, s)
       PROVE  CountKept'
  <2>1. [NoVisit EXCEPT !.kind = "found", !.fan = f, !.whom = s].what = None
    BY DEF NoVisit
  <2> QED BY <1>11, <2>1, CountUntouched DEF CheckSlug, Visit, Steps
<1>12. ASSUME NEW q \in SocialSlots, NEW c \in Client, Increment(q, c)
       PROVE  CountKept'
  <2>1. [NoVisit EXCEPT !.kind = "expire", !.whom = c].what = None
    BY DEF NoVisit
  <2>2. CASE visits' = visits
    BY <1>12, <2>2 DEF Increment, popularity, CountKept
  <2> QED BY <1>12, <2>1, <2>2, CountUntouched DEF Increment, Visit, Steps
<1>13. ASSUME UNCHANGED popularity, visits' = visits
       PROVE  CountKept'
  BY <1>13 DEF popularity, CountKept
<1>14. CASE RestartSocial
  BY <1>14, EmptyVisit DEF RestartSocial, popularity, CountKept
<1>15. ASSUME NEW f \in Fan, NEW g \in Fan, Unfollow(f, g)
       PROVE  CountKept'
  BY <1>13, <1>15 DEF Unfollow
<1>16. ASSUME NEW c \in Client, WindowEnds(c)
       PROVE  CountKept'
  BY <1>13, <1>16 DEF WindowEnds
<1> QED
  BY <1>3, <1>4, <1>5, <1>6, <1>7, <1>8, <1>9, <1>10, <1>11, <1>12, <1>14, <1>15, <1>16
  DEF SocialNext

\* star_count and watcher_count are exact until two requests for one of them
\* overlap or a star that is not there is taken back (repo_service.py:475-538).
THEOREM CountsAreExact == SocialSpec => []CalmCountExact
<1>1. SocialInit => CountKept
  BY EmptyVisit, FS_EmptySet DEF SocialInit, CountKept
<1>2. CountKept => CalmCountExact
  BY DEF CountKept, CalmCountExact
<1> QED BY <1>1, <1>2, VisitsTypedInit, VisitsTypedKept, CountKeptNext, PTL DEF SocialSpec

-----------------------------------------------------------------------------
(* The rows, and what a request brings for them *)

\* What a request carries when "n" requests have been started: a counter was
\* read before it, so it is below n.
VisitHolds(v, n) ==
  /\ v \in Visiting
  /\ v.kind \in {"mark", "marking", "unmark"} => v.what \in Mark /\ v.fan \in Fan /\ v.seen < n
  /\ v.kind \in {"follow", "found"} => v.fan \in Fan
  /\ v.kind = "follow" => v.whom \in Fan
  /\ v.kind = "found" => v.whom \in Startup
  /\ v.kind = "expire" => v.whom \in Client
  /\ v.kind \notin {"mark", "marking", "unmark"} => v.seen = 0

RowsHold ==
  /\ marks \in [Mark -> SUBSET Fan] /\ tally \in [Mark -> 0..arrived]
  /\ disturbed \subseteq Mark /\ follows \subseteq Fan \X Fan
  /\ startups \in [Startup -> Fan \cup {None}]
  /\ hits \in [Client -> 0..MaxHits] /\ timed \subseteq Client /\ stuck \subseteq Client
  /\ arrived \in 0..MaxVisits

SocialKept ==
  /\ RowsHold
  /\ DOMAIN visits = SocialSlots /\ visits = [q \in SocialSlots |-> visits[q]]
  /\ \A q \in SocialSlots : VisitHolds(visits[q], arrived)

LEMMA EmptyVisitHolds == \A n \in Nat : VisitHolds(NoVisit, n)
BY DEF VisitHolds, NoVisit, Visiting, None, Mark

\* A request comes in.
LEMMA VisitBegins ==
  ASSUME SocialKept, NEW q \in SocialSlots, NEW v, Visit(q, v), VisitHolds(v, arrived + 1),
         UNCHANGED <<marks, tally, follows, startups, timed, stuck>>,
         disturbed' \subseteq Mark, hits' \in [Client -> 0..MaxHits]
  PROVE  SocialKept'
<1>1. arrived < MaxVisits /\ arrived' = arrived + 1 /\ visits' = [visits EXCEPT ![q] = v]
  BY Zenon DEF Visit
<1>2. arrived' \in 0..MaxVisits /\ arrived \in Nat
  BY <1>1, VisitsAssumption DEF SocialKept, RowsHold
<1>3. RowsHold'
  <2>1. tally' \in [Mark -> 0..arrived']
    BY <1>1, <1>2 DEF SocialKept, RowsHold
  <2> QED BY <1>2, <2>1 DEF SocialKept, RowsHold
<1>4. ASSUME NEW r \in SocialSlots PROVE VisitHolds(visits'[r], arrived')
  <2>1. CASE r = q
    BY <1>1, <2>1 DEF SocialKept
  <2>2. CASE r # q
    <3>1. visits'[r] = visits[r] /\ VisitHolds(visits[r], arrived)
      BY <1>1, <2>2 DEF SocialKept
    <3> QED BY <1>1, <1>2, <3>1 DEF VisitHolds, Visiting
  <2> QED BY <2>1, <2>2
<1>5. DOMAIN visits' = SocialSlots /\ visits' = [r \in SocialSlots |-> visits'[r]]
  BY <1>1 DEF SocialKept
<1> QED BY <1>3, <1>4, <1>5 DEF SocialKept

\* The rows change and requests end, or go on as they are.
LEMMA VisitsEnd ==
  ASSUME SocialKept, RowsHold', arrived' = arrived,
         DOMAIN visits' = SocialSlots /\ visits' = [r \in SocialSlots |-> visits'[r]],
         \A r \in SocialSlots : visits'[r] \in {visits[r], NoVisit}
  PROVE  SocialKept'
<1>1. arrived \in Nat
  BY DEF SocialKept, RowsHold
<1>2. ASSUME NEW r \in SocialSlots PROVE VisitHolds(visits'[r], arrived')
  <2>1. CASE visits'[r] = NoVisit
    BY <1>1, <2>1, EmptyVisitHolds
  <2>2. CASE visits'[r] = visits[r]
    BY <2>2 DEF SocialKept
  <2> QED BY <2>1, <2>2
<1> QED BY <1>2 DEF SocialKept

LEMMA VisitLeaves ==
  ASSUME SocialKept, NEW q \in SocialSlots, Leave(q), RowsHold'
  PROVE  SocialKept'
<1>1. arrived' = arrived /\ visits' = [visits EXCEPT ![q] = NoVisit]
  BY DEF Leave
<1>2. DOMAIN visits' = SocialSlots /\ visits' = [r \in SocialSlots |-> visits'[r]]
  BY <1>1 DEF SocialKept
<1>3. \A r \in SocialSlots : visits'[r] \in {visits[r], NoVisit}
  BY <1>1 DEF SocialKept
<1> QED BY <1>1, <1>2, <1>3, VisitsEnd

LEMMA SocialStep ==
  ASSUME SocialKept, [SocialNext]_socialVars
  PROVE  SocialKept'
<1> USE DEF popularity, limiter
<1>0. RowsHold /\ arrived \in Nat /\ \A q \in SocialSlots : VisitHolds(visits[q], arrived) /\ visits[q] \in Visiting
  BY DEF SocialKept, RowsHold, VisitHolds
<1>1. ASSUME NEW q \in SocialSlots, NEW k \in Mark, NEW f \in Fan, NEW kind \in {"mark", "unmark"},
             LoadRepository(q, k, f, kind)
      PROVE  SocialKept'
  <2> DEFINE v == [NoVisit EXCEPT !.kind = kind, !.what = k, !.fan = f, !.seen = tally[k]]
  <2>1. Visit(q, v) /\ UNCHANGED <<marks, tally, follows, startups, limiter>>
        /\ disturbed' \subseteq Mark
    BY <1>0, <1>1 DEF LoadRepository, RowsHold
  <2>2. tally[k] \in Nat /\ tally[k] < arrived + 1
    BY <1>0 DEF RowsHold
  <2>3. v \in Visiting /\ v.kind = kind /\ v.what = k /\ v.fan = f /\ v.whom = None /\ v.seen = tally[k]
    BY <2>2 DEF NoVisit, Visiting
  <2> HIDE DEF v
  <2>4. VisitHolds(v, arrived + 1)
    BY <2>2, <2>3 DEF VisitHolds, Visiting
  <2>5. hits' \in [Client -> 0..MaxHits]
    BY <1>0, <2>1 DEF RowsHold
  <2> QED BY <2>1, <2>4, <2>5, VisitBegins
<1>2. ASSUME NEW q \in SocialSlots, NotYetMarked(q)
      PROVE  SocialKept'
  <2> DEFINE v == [visits[q] EXCEPT !.kind = "marking"]
  <2>1. visits[q].kind = "mark" /\ visits' = [visits EXCEPT ![q] = v]
        /\ UNCHANGED <<arrived, popularity, follows, startups, limiter>>
    BY <1>2 DEF NotYetMarked, GoOn
  <2>2. VisitHolds(v, arrived)
    BY <1>0, <2>1 DEF VisitHolds, Visiting
  <2> HIDE DEF v
  <2>3. DOMAIN visits' = SocialSlots /\ visits' = [r \in SocialSlots |-> visits'[r]]
        /\ \A r \in SocialSlots : visits'[r] = IF r = q THEN v ELSE visits[r]
    BY <2>1 DEF SocialKept
  <2>4. RowsHold'
    BY <1>0, <2>1 DEF RowsHold
  <2> QED BY <1>0, <2>1, <2>2, <2>3, <2>4 DEF SocialKept
<1>3. ASSUME NEW q \in SocialSlots, AlreadyMarked(q)
      PROVE  SocialKept'
  BY <1>0, <1>3, VisitLeaves DEF AlreadyMarked, Leave, RowsHold
<1>4. ASSUME NEW q \in SocialSlots, CommitMark(q)
      PROVE  SocialKept'
  <2> DEFINE k == visits[q].what
             f == visits[q].fan
             n == visits[q].seen
  <2>1. k \in Mark /\ f \in Fan /\ n \in Nat /\ n < arrived /\ Leave(q) /\ arrived' = arrived
        /\ UNCHANGED <<disturbed, follows, startups, limiter>>
    BY <1>0, <1>4 DEF CommitMark, VisitHolds, Visiting, Leave
  <2>2. marks' \in [Mark -> SUBSET Fan] /\ tally' \in [Mark -> 0..arrived]
    <3>1. \/ UNCHANGED <<marks, tally>>
          \/ marks' = [marks EXCEPT ![k] = @ \cup {f}] /\ tally' = [tally EXCEPT ![k] = n + 1]
      BY <1>4 DEF CommitMark
    <3>2. n + 1 \in 0..arrived
      BY <1>0, <2>1
    <3> QED BY <1>0, <2>1, <3>1, <3>2 DEF RowsHold
  <2>3. RowsHold'
    BY <1>0, <2>1, <2>2 DEF RowsHold
  <2> QED BY <2>1, <2>3, VisitLeaves
<1>5. ASSUME NEW q \in SocialSlots, CommitUnmark(q)
      PROVE  SocialKept'
  <2> DEFINE k == visits[q].what
             f == visits[q].fan
             n == visits[q].seen
  <2>1. k \in Mark /\ n \in Nat /\ n < arrived /\ Leave(q) /\ arrived' = arrived
        /\ UNCHANGED <<follows, startups, limiter>> /\ marks' = [marks EXCEPT ![k] = @ \ {f}]
    BY <1>0, <1>5 DEF CommitUnmark, VisitHolds, Visiting, Leave
  <2>2. tally' \in [Mark -> 0..arrived]
    <3>1. CASE n = 0
      BY <1>0, <1>5, <3>1 DEF CommitUnmark, RowsHold
    <3>2. CASE n # 0
      <4>1. tally' = [tally EXCEPT ![k] = n - 1] /\ n - 1 \in 0..arrived
        BY <1>0, <1>5, <2>1, <3>2 DEF CommitUnmark
      <4> QED BY <1>0, <2>1, <4>1 DEF RowsHold
    <3> QED BY <3>1, <3>2
  <2>3. marks' \in [Mark -> SUBSET Fan] /\ disturbed' \subseteq Mark
    BY <1>0, <1>5, <2>1 DEF RowsHold, CommitUnmark
  <2>4. RowsHold'
    BY <1>0, <2>1, <2>2, <2>3 DEF RowsHold
  <2> QED BY <2>1, <2>4, VisitLeaves
<1>6. ASSUME NEW q \in SocialSlots, NEW f \in Fan, NEW g \in Fan, CheckFollow(q, f, g)
      PROVE  SocialKept'
  <2> DEFINE v == [NoVisit EXCEPT !.kind = "follow", !.fan = f, !.whom = g]
  <2>1. Visit(q, v) /\ UNCHANGED <<popularity, follows, startups, limiter>>
    BY <1>6 DEF CheckFollow
  <2>2. v \in Visiting /\ v.kind = "follow" /\ v.what = None /\ v.fan = f /\ v.whom = g /\ v.seen = 0
    BY <1>0 DEF NoVisit, Visiting, RowsHold
  <2> HIDE DEF v
  <2>3. VisitHolds(v, arrived + 1)
    BY <2>2 DEF VisitHolds, Visiting
  <2> QED BY <1>0, <2>1, <2>3, VisitBegins DEF RowsHold
<1>7. ASSUME NEW q \in SocialSlots, InsertFollow(q)
      PROVE  SocialKept'
  <2>1. visits[q].fan \in Fan /\ visits[q].whom \in Fan
    BY <1>0, <1>7 DEF InsertFollow, VisitHolds
  <2>2. RowsHold'
    BY <1>0, <1>7, <2>1 DEF InsertFollow, RowsHold, Leave
  <2> QED BY <1>7, <2>2, VisitLeaves DEF InsertFollow
<1>8. ASSUME NEW q \in SocialSlots, NEW f \in Fan, NEW s \in Startup, CheckSlug(q, f, s)
      PROVE  SocialKept'
  <2> DEFINE v == [NoVisit EXCEPT !.kind = "found", !.fan = f, !.whom = s]
  <2>1. Visit(q, v) /\ UNCHANGED <<popularity, follows, startups, limiter>>
    BY <1>8 DEF CheckSlug
  <2>2. v \in Visiting /\ v.kind = "found" /\ v.what = None /\ v.fan = f /\ v.whom = s /\ v.seen = 0
    BY <1>0 DEF NoVisit, Visiting, RowsHold
  <2> HIDE DEF v
  <2>3. VisitHolds(v, arrived + 1)
    BY <2>2 DEF VisitHolds, Visiting
  <2> QED BY <1>0, <2>1, <2>3, VisitBegins DEF RowsHold
<1>9. ASSUME NEW q \in SocialSlots, InsertStartup(q)
      PROVE  SocialKept'
  <2>1. visits[q].fan \in Fan /\ visits[q].whom \in Startup
    BY <1>0, <1>9 DEF InsertStartup, VisitHolds
  <2>2. startups' \in [Startup -> Fan \cup {None}]
    BY <1>0, <1>9, <2>1 DEF InsertStartup, RowsHold
  <2>3. RowsHold'
    BY <1>0, <1>9, <2>2 DEF InsertStartup, RowsHold, Leave
  <2> QED BY <1>9, <2>3, VisitLeaves DEF InsertStartup
<1>10. ASSUME NEW q \in SocialSlots, NEW c \in Client, Increment(q, c)
       PROVE  SocialKept'
  <2> DEFINE v == [NoVisit EXCEPT !.kind = "expire", !.whom = c]
  <2>1. hits' = [hits EXCEPT ![c] = hits[c] + 1] /\ hits[c] < MaxHits
        /\ (Visit(q, v) \/ UNCHANGED <<visits, arrived>>)
        /\ UNCHANGED <<popularity, follows, startups, timed, stuck>>
    BY <1>10 DEF Increment
  <2>2. hits' \in [Client -> 0..MaxHits]
    <3>1. hits[c] + 1 \in 0..MaxHits
      BY <1>0, <2>1, VisitsAssumption DEF RowsHold
    <3> QED BY <1>0, <2>1, <3>1 DEF RowsHold
  <2>3. v \in Visiting /\ v.kind = "expire" /\ v.what = None /\ v.fan = None /\ v.whom = c /\ v.seen = 0
    BY <1>0 DEF NoVisit, Visiting, RowsHold
  <2> HIDE DEF v
  <2>4. VisitHolds(v, arrived + 1)
    BY <2>3 DEF VisitHolds, Visiting
  <2>5. CASE Visit(q, v)
    BY <1>0, <2>1, <2>2, <2>4, <2>5, VisitBegins DEF RowsHold
  <2>6. CASE UNCHANGED <<visits, arrived>>
    <3>1. RowsHold'
      BY <1>0, <2>1, <2>2, <2>6 DEF RowsHold
    <3> QED BY <2>6, <3>1, VisitsEnd DEF SocialKept
  <2> QED BY <2>1, <2>5, <2>6
<1>11. ASSUME NEW q \in SocialSlots, Expire(q) \/ ExpireFails(q)
       PROVE  SocialKept'
  <2>1. visits[q].whom \in Client /\ Leave(q)
    BY <1>0, <1>11 DEF Expire, ExpireFails, VisitHolds
  <2>2. RowsHold'
    BY <1>0, <1>11, <2>1 DEF Expire, ExpireFails, RowsHold, Leave
  <2> QED BY <2>1, <2>2, VisitLeaves
<1>12. ASSUME NEW f \in Fan, NEW g \in Fan, Unfollow(f, g)
       PROVE  SocialKept'
  <2>1. RowsHold'
    BY <1>0, <1>12 DEF Unfollow, RowsHold
  <2> QED BY <1>12, <2>1, VisitsEnd DEF Unfollow, SocialKept
<1>13. ASSUME NEW c \in Client, WindowEnds(c)
       PROVE  SocialKept'
  <2>1. hits' \in [Client -> 0..MaxHits]
    BY <1>0, <1>13, VisitsAssumption DEF WindowEnds, RowsHold
  <2>2. RowsHold'
    BY <1>0, <1>13, <2>1 DEF WindowEnds, RowsHold
  <2> QED BY <1>13, <2>2, VisitsEnd DEF WindowEnds, SocialKept
<1>14. CASE RestartSocial
  <2>1. {visits[q].whom : q \in {o \in SocialSlots : visits[o].kind = "expire"}} \subseteq Client
    BY <1>0 DEF VisitHolds
  <2>2. RowsHold'
    BY <1>0, <1>14, <2>1 DEF RestartSocial, RowsHold
  <2> QED BY <1>14, <2>2, VisitsEnd DEF RestartSocial, SocialKept
<1>15. CASE UNCHANGED socialVars
  BY <1>15 DEF socialVars, SocialKept, RowsHold
<1> QED
  BY <1>1, <1>2, <1>3, <1>4, <1>5, <1>6, <1>7, <1>8, <1>9, <1>10, <1>11, <1>12, <1>13, <1>14, <1>15
  DEF SocialNext

\* SocialTypeOK: the rows name users, slugs and clients that exist, and a counter
\* never exceeds the number of requests ever made.
THEOREM SocialRowsTyped == SocialSpec => []SocialTypeOK
<1>1. SocialInit => SocialKept
  <2> SUFFICES ASSUME SocialInit PROVE SocialKept
    OBVIOUS
  <2>1. RowsHold
    BY VisitsAssumption DEF SocialInit, RowsHold
  <2>2. arrived \in Nat /\ visits = [q \in SocialSlots |-> NoVisit]
    BY DEF SocialInit
  <2> QED BY <2>1, <2>2, EmptyVisitHolds DEF SocialKept
<1>2. SocialKept => SocialTypeOK
  <2> SUFFICES ASSUME SocialKept PROVE SocialTypeOK
    OBVIOUS
  <2>1. arrived \in 0..MaxVisits /\ RowsHold
    BY DEF SocialKept, RowsHold
  <2>2. tally \in [Mark -> 0..MaxVisits]
    BY <2>1, VisitsAssumption DEF RowsHold
  <2>3. \A q \in SocialSlots : visits[q] \in Visiting /\ visits[q].seen \in 0..MaxVisits
    BY <2>1, VisitsAssumption DEF SocialKept, VisitHolds, Visiting
  <2>4. visits \in [SocialSlots -> [kind : {"idle", "mark", "marking", "unmark", "follow", "found", "expire"},
         what : Mark \cup {None}, fan : Fan \cup {None},
         whom : Fan \cup Startup \cup Client \cup {None}, seen : 0..MaxVisits]]
    BY <2>3 DEF SocialKept, Visiting
  <2> QED BY <2>1, <2>2, <2>4 DEF SocialTypeOK, RowsHold
<1> QED BY <1>1, <1>2, SocialStep, PTL DEF SocialSpec
=============================================================================
