---------------------------- MODULE PullRequests ----------------------------
(***************************************************************************)
(* Pull requests to the default branch of one repository, from a branch of *)
(* that repository or of a fork.  A merge loads the row, runs libgit2 in a *)
(* thread of the executor and commits the row afterwards; creations,       *)
(* edits, other merges, diffs, pushes and the deletion of a fork come in   *)
(* between.  Commits are numbered; a branch is the set of commits it       *)
(* reaches, the history all branches share left out.  A forced push        *)
(* discards commits on purpose and is not an action here.                  *)
(***************************************************************************)
EXTENDS Permissions

CONSTANTS
    Base, Fork,        \* the target repository, and its forks
    FirstCommit,       \* the commit each source branch starts with
    Author,            \* the user whose requests the first rows are
    FirstPulls,        \* the sources of the open pull requests there are at first
    PullSlots,         \* requests the API serves at once
    MaxPullRequests,   \* bound on requests served
    MaxPulls,          \* bound on pull requests created
    MaxCommits,        \* bound on commits made
    LocksAggregates    \* the database accepts SELECT max(..) FOR UPDATE

Source == Fork \cup {Base}
PullId == 1..MaxPulls
PullCommit == 1..MaxCommits
PullSlot == 1..PullSlots

ASSUME PullsAssumption ==
    /\ Base \notin Fork
    /\ MaxPulls \in Nat /\ MaxCommits \in Nat
    /\ PullSlots \in Nat /\ MaxPullRequests \in Nat
    /\ FirstCommit \in [Source -> PullCommit]
    /\ Author \in Actor
    /\ FirstPulls \in Seq(Source) /\ Len(FirstPulls) <= MaxPulls
    /\ LocksAggregates \in BOOLEAN

VARIABLES
    pulls,     \* table pull_requests: the rows, by the order of their inserts
    inserted,  \* rows inserted so far
    main,      \* the commits the target branch reaches
    topic,     \* the commits the source branch of each repository reaches
    forks,     \* forks that still exist
    fetchHead, \* what FETCH_HEAD of the target repository names
    made,      \* commits made so far
    mergeOf,   \* history: the merge commits, each with its pull request
    job,       \* the requests in progress
    asked      \* requests received so far

pullVars == <<pulls, inserted, main, topic, forks, fetchHead, made, mergeOf, job,
              asked>>

pullGit == <<main, topic, fetchHead, made, mergeOf>>

-----------------------------------------------------------------------------
(* Types *)

PullState == {"open", "closed", "merged"}

\* `closed`: closed_at is set; `sha` is merge_commit_sha, 0 for NULL; a row
\* deleted with a repository has state "gone".
Pull == [number : Nat, source : Source, author : Actor, state : PullState \cup {"gone"},
         closed : BOOLEAN, sha : 0..MaxCommits]

\* `pull` and `seen` are the row the request loaded (for a creation, `seen`
\* holds what will be inserted); `target` and `incoming` are the histories of
\* the two commits libgit2 looked up; `alone`: no other request has fetched
\* between this one's fetch and its look at FETCH_HEAD.
PullJob == [step : {"idle", "checked", "numbered", "editing", "opened", "started", "fetched",
                    "merging", "written"},
            actor : Actor, pull : 0..MaxPulls, seen : Pull,
            target : SUBSET PullCommit, incoming : SUBSET PullCommit,
            sha : 0..MaxCommits, alone : BOOLEAN]

NoPull == [number |-> 0, source |-> Base, author |-> Author,
           state |-> "gone", closed |-> FALSE, sha |-> 0]

NoJob == [step |-> "idle", actor |-> Author, pull |-> 0, seen |-> NoPull,
          target |-> {}, incoming |-> {}, sha |-> 0, alone |-> TRUE]

\* Histories: the pull request a merge commit was made for, and whether the
\* commit merged was the tip of that pull request's own branch.
MergeRecord == [commit : PullCommit, pull : PullId, own : BOOLEAN, alone : BOOLEAN]

PullsTypeOK ==
    /\ pulls \in [PullId -> Pull] /\ inserted \in 0..MaxPulls
    /\ main \subseteq PullCommit /\ topic \in [Source -> SUBSET PullCommit]
    /\ forks \subseteq Fork /\ fetchHead \subseteq PullCommit
    /\ made \in 0..MaxCommits /\ mergeOf \subseteq MergeRecord
    /\ job \in [PullSlot -> PullJob] /\ asked \in 0..MaxPullRequests
    /\ \A q \in PullSlot : job[q].step \notin {"idle", "checked", "numbered"} =>
                               job[q].pull \in 1..inserted
    /\ \A p \in PullId : pulls[p].sha # 0 => \E m \in mergeOf : m.commit = pulls[p].sha

PullsInit ==
    /\ inserted = Len(FirstPulls)
    /\ pulls = [p \in PullId |-> IF p > Len(FirstPulls) THEN NoPull
          ELSE [NoPull EXCEPT !.number = p, !.source = FirstPulls[p], !.state = "open"]]
    /\ main = {} /\ topic = [s \in Source |-> {FirstCommit[s]}]
    /\ forks = Fork /\ fetchHead = {}
    /\ made = Cardinality({FirstCommit[s] : s \in Source})
    /\ mergeOf = {}
    /\ job = [q \in PullSlot |-> NoJob] /\ asked = 0

-----------------------------------------------------------------------------
(* Helpers *)

PullRows == {p \in 1..inserted : pulls[p].state # "gone"}

\* _get_pr_or_404 finds the row.
Found(p) == p \in PullRows

\* The level each handler of api/v1/pulls.py asks of its caller.
PullRoute == [create |-> "read", edit |-> "read", diff |-> "read", merge |-> "write"]

\* A request comes in, on the first slot that is free.
Arrives(q) ==
    /\ asked < MaxPullRequests /\ asked' = asked + 1
    /\ job[q].step = "idle" /\ \A r \in PullSlot : r < q => job[r].step # "idle"

Ends(q) == job' = [job EXCEPT ![q] = NoJob]

-----------------------------------------------------------------------------
(* POST /pulls: pr_service.create_pull_request *)

\* An identical open pull request, among the committed rows.
Duplicate(s) == \E p \in PullRows : pulls[p].source = s /\ pulls[p].state = "open"

CheckDuplicate(q, u, s) ==
    /\ ~Duplicate(s)
    /\ job' = [job EXCEPT ![q] = [NoJob EXCEPT !.step = "checked", !.actor = u,
                  !.seen = [NoPull EXCEPT !.source = s, !.author = u, !.state = "open"]]]

\* create_pull; the branches are not looked up.
CreatePull(q, u, s) ==
    /\ Arrives(q) /\ inserted < MaxPulls
    /\ Permitted(u, PullRoute.create) /\ s \in forks \cup {Base}
    /\ CheckDuplicate(q, u, s)
    /\ UNCHANGED <<pulls, inserted, forks, pullGit>>

NextNumber == 1 + CHOOSE n \in {0} \cup {pulls[p].number : p \in PullRows} :
                      \A p \in PullRows : pulls[p].number <= n

\* _assign_next_number: PostgreSQL refuses FOR UPDATE on an aggregate, a
\* database that accepts it locks no row of another transaction's insert.
AssignNextNumber(q) ==
    /\ job[q].step = "checked"
    /\ \/ LocksAggregates /\ job' = [job EXCEPT ![q].step = "numbered", ![q].seen.number = NextNumber]
       \/ ~LocksAggregates /\ Ends(q)
    /\ UNCHANGED <<pulls, inserted, forks, pullGit, asked>>

\* db.add and commit; uq_pr_number_per_repo refuses a number that is taken, the
\* foreign key a fork that is gone.
InsertPull(q) ==
    /\ job[q].step = "numbered" /\ inserted < MaxPulls
    /\ Ends(q)
    /\ \/ /\ \A p \in PullRows : pulls[p].number # job[q].seen.number
          /\ job[q].seen.source \in forks \cup {Base}
          /\ inserted' = inserted + 1
          /\ pulls' = [pulls EXCEPT ![inserted + 1] = job[q].seen]
       \/ /\ \/ \E p \in PullRows : pulls[p].number = job[q].seen.number
             \/ job[q].seen.source \notin forks \cup {Base}
          /\ UNCHANGED <<pulls, inserted>>
    /\ UNCHANGED <<forks, pullGit, asked>>

-----------------------------------------------------------------------------
(* PATCH /pulls/{number}: pr_service.update_pull_request *)

LoadForEdit(q, u, p) ==
    /\ Arrives(q) /\ Permitted(u, PullRoute.edit) /\ Found(p)
    /\ job' = [job EXCEPT ![q] = [NoJob EXCEPT !.step = "editing", !.actor = u, !.pull = p,
                                               !.seen = pulls[p]]]
    /\ UNCHANGED <<pulls, inserted, forks, pullGit>>

\* `pr.author_id == actor.id or actor_permission >= TRIAGE`
MayChangeState(u, row) == row.author = u \/ ~SpelledBelow(LevelOf[u], "triage")

\* The UPDATE names the columns whose value is not the loaded one.
EditPull(q, state) ==
    LET seen == job[q].seen
        p    == job[q].pull
    IN  /\ job[q].step = "editing" /\ state # seen.state
        /\ \/ /\ MayChangeState(job[q].actor, seen) /\ Found(p)
              /\ pulls' = [pulls EXCEPT ![p].state = state,
                    ![p].closed = IF state = "closed" THEN TRUE
                                  ELSE IF seen.closed THEN FALSE ELSE @]
           \/ /\ ~MayChangeState(job[q].actor, seen) \/ ~Found(p)  \* 403, StaleDataError
              /\ UNCHANGED pulls
        /\ Ends(q)
        /\ UNCHANGED <<inserted, forks, pullGit, asked>>

-----------------------------------------------------------------------------
(* POST /pulls/{number}/merge: pr_service.merge_pull_request, merger.merge_commit *)

\* `actor_permission < WRITE`
MayMerge(u) == ~SpelledBelow(LevelOf[u], "write")

\* The permission, the row and its state; the source repository is looked up
\* next, and is there while the row is.
LoadForMerge(q, u, p) ==
    /\ MayMerge(u) /\ Found(p) /\ pulls[p].state = "open"
    /\ job' = [job EXCEPT ![q] = [NoJob EXCEPT !.step = "opened", !.actor = u, !.pull = p,
                                               !.seen = pulls[p]]]

MergePull(q, u, p) ==
    /\ Arrives(q) /\ p \in 1..inserted /\ Permitted(u, PullRoute.merge)
    /\ LoadForMerge(q, u, p)
    /\ UNCHANGED <<pulls, inserted, forks, pullGit>>

\* The executor's thread: the tip of the target branch, and of a source branch
\* that is in the same repository.
StartMerge(q) ==
    /\ job[q].step = "opened"
    /\ job' = [job EXCEPT ![q].target = main,
                          ![q].step = IF job[q].seen.source = Base THEN "merging" ELSE "started",
                          ![q].incoming = IF job[q].seen.source = Base THEN topic[Base] ELSE {}]
    /\ UNCHANGED <<pulls, inserted, forks, pullGit, asked>>

\* Fault: a fetch leaves a FETCH_HEAD that is there alone.
Fetch_Once(q) ==
    /\ fetchHead' = IF fetchHead = {} THEN topic[job[q].seen.source] ELSE fetchHead
    /\ job' = [r \in PullSlot |-> IF r = q THEN [job[q] EXCEPT !.step = "fetched"]
                                  ELSE [job[r] EXCEPT !.alone = @ /\ job[r].step # "fetched"]]
    /\ UNCHANGED <<pulls, inserted, main, topic, forks, made, mergeOf, asked>>

\* remote.fetch writes FETCH_HEAD of the target repository, whoever else uses it.
Fetch(q) ==
    /\ fetchHead' = topic[job[q].seen.source]
    /\ job' = [r \in PullSlot |-> IF r = q THEN [job[q] EXCEPT !.step = "fetched"]
                                  ELSE [job[r] EXCEPT !.alone = @ /\ job[r].step # "fetched"]]
    /\ UNCHANGED <<pulls, inserted, main, topic, forks, made, mergeOf, asked>>

FetchFromFork(q) ==
    /\ job[q].step = "started"
    /\ \/ Fetch(q)
       \/ job[q].seen.source \notin forks /\ Ends(q)  \* its directory is gone too
             /\ UNCHANGED <<pulls, inserted, forks, pullGit, asked>>

\* lookup_reference("FETCH_HEAD"), and the merge in memory.
ReadFetchHead(q) ==
    /\ job[q].step = "fetched"
    /\ job' = [job EXCEPT ![q].step = "merging", ![q].incoming = fetchHead]
    /\ UNCHANGED <<pulls, inserted, forks, pullGit, asked>>

Conflicts(q) ==
    /\ job[q].step = "merging" /\ Ends(q)
    /\ UNCHANGED <<pulls, inserted, forks, pullGit, asked>>

\* Fault: the branch is set without asking that it be the commit's first parent.
WriteMerge_Forced(q) ==
    /\ job[q].step = "merging" /\ made < MaxCommits
    /\ made' = made + 1
    /\ main' = job[q].target \cup job[q].incoming \cup {made + 1}
    /\ mergeOf' = mergeOf \cup {[commit |-> made + 1, pull |-> job[q].pull,
          own |-> FirstCommit[job[q].seen.source] \in job[q].incoming, alone |-> job[q].alone]}
    /\ job' = [job EXCEPT ![q] = [@ EXCEPT !.step = "written", !.sha = made + 1]]
    /\ UNCHANGED <<pulls, inserted, topic, forks, fetchHead, asked>>

\* create_commit(ref, ..): libgit2 makes the commit and moves the branch if its
\* tip is still the first parent, and raises otherwise.
WriteMerge(q) ==
    /\ job[q].step = "merging" /\ made < MaxCommits
    /\ \/ /\ main = job[q].target
          /\ made' = made + 1
          /\ main' = main \cup job[q].incoming \cup {made + 1}
          /\ mergeOf' = mergeOf \cup {[commit |-> made + 1, pull |-> job[q].pull,
                own |-> FirstCommit[job[q].seen.source] \in job[q].incoming, alone |-> job[q].alone]}
          /\ job' = [job EXCEPT ![q] = [@ EXCEPT !.step = "written", !.sha = made + 1]]
          /\ UNCHANGED <<pulls, inserted, topic, forks, fetchHead, asked>>
       \/ /\ main # job[q].target
          /\ Ends(q) /\ UNCHANGED <<pulls, inserted, forks, pullGit, asked>>

\* Fault: the row is chosen by its number at the end, where a deleted last row
\* has left its number to another.
CommitMerge_OtherRow(q) ==
    /\ job[q].step = "written" /\ Ends(q)
    /\ pulls' = [p \in PullId |-> IF p \in PullRows /\ p >= job[q].pull
                 THEN [pulls[p] EXCEPT !.state = "merged", !.sha = job[q].sha] ELSE pulls[p]]
    /\ UNCHANGED <<inserted, forks, pullGit, asked>>

CommitMerge(q) ==
    /\ job[q].step = "written" /\ Ends(q)
    /\ \/ Found(job[q].pull) /\ pulls' = [pulls EXCEPT ![job[q].pull].state = "merged",
                                                       ![job[q].pull].sha = job[q].sha]
       \/ ~Found(job[q].pull) /\ UNCHANGED pulls              \* StaleDataError
    /\ UNCHANGED <<inserted, forks, pullGit, asked>>

-----------------------------------------------------------------------------
(* GET /pulls/{number}/diff fetches as a merge does; what it then reads of *)
(* FETCH_HEAD only the client sees.                                        *)

DiffPull(u, p) ==
    /\ asked < MaxPullRequests /\ asked' = asked + 1
    /\ Permitted(u, PullRoute.diff) /\ Found(p) /\ pulls[p].source \in forks
    /\ fetchHead' = topic[pulls[p].source]
    /\ job' = [r \in PullSlot |-> [job[r] EXCEPT !.alone = @ /\ job[r].step # "fetched"]]
    /\ UNCHANGED <<pulls, inserted, main, topic, forks, made, mergeOf>>

-----------------------------------------------------------------------------
(* Around the requests *)

\* A fast-forward push to the target branch or to a source branch.
PushMain ==
    /\ made < MaxCommits /\ made' = made + 1 /\ main' = main \cup {made + 1}
    /\ UNCHANGED <<pulls, inserted, topic, forks, fetchHead, mergeOf, job, asked>>

PushTopic(s) ==
    /\ made < MaxCommits /\ s \in forks \cup {Base}
    /\ made' = made + 1 /\ topic' = [topic EXCEPT ![s] = @ \cup {made + 1}]
    /\ UNCHANGED <<pulls, inserted, main, forks, fetchHead, mergeOf, job, asked>>

\* The row of a fork goes with every pull request from it (ON DELETE CASCADE).
DeleteFork(f) ==
    /\ f \in forks /\ forks' = forks \ {f}
    /\ pulls' = [p \in PullId |-> IF pulls[p].source = f THEN NoPull ELSE pulls[p]]
    /\ UNCHANGED <<inserted, pullGit, job, asked>>

RestartPulls ==
    /\ \E q \in PullSlot : job[q].step # "idle"
    /\ job' = [q \in PullSlot |-> NoJob]
    /\ UNCHANGED <<pulls, inserted, forks, pullGit, asked>>

PullsNext ==
    \/ \E q \in PullSlot :
        \/ \E u \in Actor, s \in Source : CreatePull(q, u, s)
        \/ \E u \in Actor, p \in PullId :
              LoadForEdit(q, u, p) \/ MergePull(q, u, p)
        \/ \E state \in PullState : EditPull(q, state)
        \/ AssignNextNumber(q) \/ InsertPull(q)
        \/ StartMerge(q) \/ FetchFromFork(q) \/ ReadFetchHead(q)
        \/ Conflicts(q) \/ WriteMerge(q) \/ CommitMerge(q)
    \/ \E u \in Actor, p \in PullId : DiffPull(u, p)
    \/ PushMain
    \/ \E s \in Source : PushTopic(s)
    \/ \E f \in Fork : DeleteFork(f)
    \/ RestartPulls

PullsSpec == PullsInit /\ [][PullsNext]_pullVars

-----------------------------------------------------------------------------
(* Properties *)

\* Whatever pushes and merges race, a merge never takes a commit away from the
\* target branch: a merge made on an older tip is refused (merger.merge_commit).
TargetKeepsCommits == [][main \subseteq main']_pullVars

\* The commit a row records as its merge was made for that row, and the target
\* branch reaches it, although the branch moves before the row is committed and
\* two merges of one pull request can both be under way (merge_pull_request).
RecordedMergeInTarget ==
    \A p \in PullRows : pulls[p].sha # 0 =>
        /\ pulls[p].sha \in main
        /\ \E m \in mergeOf : m.commit = pulls[p].sha /\ m.pull = p

\* A merge whose fetch no other request's fetch follows before FETCH_HEAD is read
\* merges the pull request's own branch (merger._fetch_from_fork).
CalmMergeIsOwn == \A m \in mergeOf : m.alone => m.own

\* merger.py: _fetch_from_fork "Returns the tip commit of the fetched branch."
MergesOwnBranch == \A m \in mergeOf : m.own
=============================================================================
