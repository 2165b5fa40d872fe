# A TLA+ model of PandaHub

PandaHub is a code-hosting service: a FastAPI backend with PostgreSQL, bare git
repositories on a disk, two object stores (Backblaze B2 for repository archives,
MinIO for published sites), Redis, and Celery workers.  These modules model the
parts where several of those have to agree.  All paths below are relative to
`src/backend/app/`.

## 1. The system and its parts

| Part | State it keeps | Operations | Interacts with |
|---|---|---|---|
| Repository lifecycle (`services/repo_service.py`) | rows of `repositories`, directories under `GIT_REPOS_ROOT` | create, fork, update, delete | the disk (executor threads), the queue `git_ops`, the unique index |
| Durable backup (`services/repo_storage.py`, `worker/tasks/git_tasks.py: backup_repository`) | archives in B2 under `repos/{owner}/{name}.tar.gz` | pack, upload, restore, probe | directories, current names of owners |
| Startup (`main.py`) | the list of rows still to look at | restore or re-initialise each missing directory | B2, rows, disk, while requests are already served |
| Git transport (`api/v1/git.py`), web commits (`git_engine/writer.py`) | refs of a repository | advertise refs, receive, upload, commit from the browser | disk, permissions, access tokens |
| Post-push work (`git_tasks.post_receive_hook`) | `branches` cache, webhook deliveries | sync the cache, deliver, back up, build a site | runs in a thread of the API after the answer to the client |
| Reading (`services/git_service.py`, `/git` routes of `api/v1/repos.py`) | nothing | tree, blob, README, history, branches | refs that move between two of its threads |
| Pages (`services/pages_service.py`, `worker/tasks/pages_tasks.py`, `api/v1/pages.py`) | row of `repository_pages`, objects in MinIO | enable, update, rebuild, disable, build, serve | `git_ops` queue, refs, MinIO |
| Pull requests (`services/pr_service.py`, `git_engine/merger.py`) | rows of `pull_requests`, refs, the file `FETCH_HEAD` | create, edit, close, reopen, diff, merge | refs of two repositories, executor threads |
| Issues (`services/issue_service.py`) | issues, labels, milestones, comments | create, edit, label, close, reopen, lock, comment, delete | the number sequence, permissions |
| Permissions (`permissions/resolver.py`), organizations and teams (`api/v1/orgs.py`) | memberships, teams, grants, collaborators, visibility | resolve a level; add, change and remove each grant | every endpoint |
| Sessions (`services/auth_service.py`) | refresh tokens, reset mails, two-factor challenge and secret | log in, rotate, log out, reset, change a password, enable two factors | its own requests, the mail queue |
| Accounts (`services/auth_service.py`, `api/v1/auth.py`, `git_engine/auth.py`) | users, verification mails, provider links, access tokens | register, verify, resend, sign in through a provider, rename, create, revoke and use a token | indexes of `users`, git requests |
| Social records (`services/repo_service.py`, `services/startup_service.py`) | stars, watches and their counters, followers, startups | star, unstar, watch, unwatch, follow, unfollow, publish | the row of the repository |
| Rate limiting (`core/rate_limit.py`) | counters with expiry | count, refuse | Redis |
| Real time (`websockets/manager.py`, `api/ws.py`, `api/v1/messages.py`) | messages, the sockets of each process, a Redis channel | send, connect, disconnect, publish, deliver | Redis, the listener task of every process |
| AI reviews (`worker/tasks/ai_tasks.py`, `rag_tasks.py`, `services/ai_router.py`, `rag_store.py`) | `ai_review_results`, points of the vector store | generate, judge (not modelled), index, rebuild; classify, retrieve, sample, merge | Celery queues, models, the vector store |
| Scanning, e-mail, logs, object storage helpers, front end, CLI | see `PROJECT.json` | pattern matching, rendering, calls to providers | little state others rely on |

`PROJECT.json` lists every component with its files, whether it is modelled and
why not.  What is hard to test in each of them is its list of hazards.

### What must hold, component by component

- **Lifecycle**: names are unique per owner (with the index always, without it but for requests
  in flight together); a committed
  row has its directory; an acknowledged commit is not lost.
- **Backup and startup**: what is restored belongs to the repository, no missing
  repository is left out, the first archive arrives.
- **Pages**: a site never waits for nothing; what it shows comes from its own
  configuration, is complete, and is current when everything is quiet.
- **Pull requests**: the merge a row records was made for it and is on the target
  branch; no merge takes a commit away; a merge merges its own source branch.
- **Issues**: `closed_at` is set exactly while an issue is closed; replacing labels
  leaves the labels asked for.
- **Permissions**: the resolver gives the highest level anything entitles a caller
  to; nobody gains a level but by an act of somebody entitled.
- **Sessions**: ending every session ends the older ones; tokens and reset mails are
  used once.
- **Accounts**: the last mail works; a provider account is linked once; a revoked
  token stays revoked.
- **Counters**: a counter equals the number of its rows; a refusal ends.
- **Pushes and readers**: the cache names the commit the branch has; a reader is
  shown one commit and not a mixture.
- **AI reviews**: one stored review per pull request; the store agrees with it;
  merging the samples loses nothing.
- **Real time**: a hub holds exactly the sockets that are there; a client sees only
  its own user's events, in the order of their publication; a delivery nobody
  disturbs reaches every client of the user; events do not pile up.

## 2. Modules

| Module | What it is |
|---|---|
| `RepoStorage` | rows, directories, archives, requests, workers, post-push threads, restarts |
| `HostedRepos` | what clients are promised: a set of repositories with commits, changed atomically |
| `MCRepoStorage` | its instances for TLC |
| `RepoStorageProofs`, `RepoStorageRefinement` | the theorems about it |
| `Pages` | the row, its requests, builds by several workers, pushes, MinIO |
| `MCPages`, `PagesProofs` | its instances for TLC, the theorems about it |
| `Messaging` | direct messages, the Redis channel, each process's hub and listener |
| `MCMessaging`, `MessagingProofs` | its instances for TLC, the theorems about it |
| `Permissions` | the levels, their rank, and their order as strings |
| `PullRequests` | pull requests to one repository, with forks, pushes and merges |
| `Issues` | issues, labels, milestones and comments of one repository |
| `Access` | members, teams, collaborators, visibility and the resolver |
| `Sessions` | refresh tokens, reset mails, two factors of one account |
| `Accounts` | registration, verification, provider links, access tokens |
| `Social` | stars, watches, followers, startups, the rate limiter |
| `Reviews` | the tasks that store and index an AI review |
| `Routing` | how one AI review comes about from a diff |
| `Pushes` | pushes, the hook after each, the branch cache, web commits |
| `Browse` | readers and clones; extends `Pushes` |
| `MCServices` | the request-driven services side by side, for TLC |
| `CollaborationProofs` | the theorems about `PullRequests`, `Issues`, `Reviews`, `Routing`, `Social` |
| `IdentityProofs` | the theorems about `Sessions`, `Accounts`, `Access` |
| `GitProofs` | the theorems about `Pushes` and `Browse` |
| `ServicesProofs` | the composition: what is proved of each service holds of all together |

Every operation of the code is one action per atomic step.  A step ends where the
code commits, awaits a thread or another service, or hands work to somebody else.
Mutations are the same action with a plausible mistake: they are named
`<Action>_<Bug>`, with the comment `Fault:`.  Nothing uses them in the specification.

### RepoStorage

`pc` and `meta` are the request that creates each repository: `unused`, `flushed`
(INSERT sent, not committed), `inited` (directory there), `committed`, `settled`.
`rows` are the committed rows, `dirs` and `tree` the directories and the commits
in them, `bucket` the archives.  `tasks`/`taken` are the Celery messages,
`hook`/`upload` the executor threads after a push and the uploads under way,
`todo`/`restoring` the startup loop.  `acked`, `minted` and `claims` are history.

`create_repository` is `CreateFlush`, `InitBare` or `DiskStepFails`, `CommitRow`
or `CommitFails`, `QueueBackup`; `fork_repository` is `ForkFlush`, `CloneBare` and the
same ends.  `delete_repository` is `DeleteRow` then `RemoveDirectory`, which may fail.
A push is `Push` followed by `HookPack` and `PutObject`/`PutFails`; the task
`backup_repository` is `WorkerTake`, `WorkerPack` or `WorkerFindsNoDirectory`, and
the same upload.  `Restart` loses everything the API held and starts the loop of
`_restore_repos_on_startup`.

What is abstracted:

- `NameIndexed` says whether the database has the partial unique indexes of owner and
  name: the baseline migration makes them, the head migration drops them (section 4).
- The name check and the INSERT are one step; the code's window between them is
  closed by the unique index, which is in the model (`IndexFree`), so that both the
  check and the index are needed.
- A fork or creation in flight holds its row locks until commit or rollback.
- Pushes only add commits: no force push, no deletion of branches.
- The hook's query of the row and its packing are one step; archives are whole (a
  tar made while the directory changes is not torn).  Extraction and rename at
  startup are one step.
- A restart is one step: the process dies and the new one reads the rows.
- Post-push work other than the backup is in `Pushes`.

### Pages

`row` is the repository's row of `repository_pages` (or none), `req` the API
requests, `build` what each worker is building, `queued` the messages, `bucket` the
objects.  `heads`, `sources`, `current`, `lossy`, `scrubbed` are history variables
for the properties: the commits a branch has had, the pairs of branch and folder a row
has had, the tips since the last accepted request, the commits that lost a file to a
failed upload or to a deletion.  `crossed` says that the build which started last found another under
way, or that the broker has refused a message since.

A request loads the row (`LoadEnable`, `LoadUpdate`, `LoadDisable`; the ORM keeps what
it saw), commits (`CommitInsert`, `CommitUpdate`, `CommitRefused`), refreshes
(`RefreshFails`) and queues the build (`Enqueue`, `EnqueueFails`).  SQLAlchemy's UPDATE names only the
columns whose value differs from what was loaded; `Written` says so, and it matters:
a request that found the row "pending" does not write "pending" again.  A build is
`Take`, `MarkBuilding`, `Resolve`, any number of `Put`/`PutFails`, then `Publish`,
`BuildFails` or `RowGone`.  Sessions of the tasks are made with
`expire_on_commit=False`, so the task uses to its end the branch and folder it loaded first.
`WorkerLost` gives the message back (`acks_late`, `reject_on_worker_lost`).

What is abstracted:

- One repository whose owner and name do not change; its deletion is not composed.
- `enabled` is always TRUE: no operation clears it.
- Listing and deleting a prefix is one step, as is the select and commit that
  mark a failed build.
- A folder is the set of its pages; the content of an object is the folder it came from.
- A push does not queue builds: the hook parses ref updates from the error output
  of `git http-backend`, which does not carry them, so the update list is empty.
- Serving is not an action: `Served` is what the endpoint would answer with.

### Messaging

`stored` are the messages in the database, `pending` those whose request has
committed and not yet published.  `published` is the channel `ws:notifications` in
the order of publication and `queue` what each listener has still to take; `listening`
are the processes whose listener task runs.  `sock` and `home` are the routes of
`api/ws.py`, `conns` the `_connections` of each process, `task` the loop of
`_deliver_local`: the set as the loop began, what its iterator has still to meet, the
sockets whose send raised.  `inbox` is history.

`send_message` is `StoreMessage`, then `Publish` or `PublishFails` (Redis refuses, or
the process is lost).  A route is `Connect` and, in its `finally`, `Disconnect`; `Break` is
a peer that vanishes without a word.  The listener is `SkipEvent` or `TakeEvent`,
one `Send` per socket, then `Finish` or, when the set's size has changed under the
iterator and Python raises, `Abandon`.  `LoseRedis` ends the task, `Restart` the process.

What matters is the iteration over a live set across awaits.  Python compares the
size only: one socket that leaves and one that joins go unnoticed, and a table
rebuilt by an insertion may put any of the sockets before the iterator again.
`disconnect` drops an empty set from the map, and the next `connect` makes a new one; the
loop in progress still holds the old one (`attached`).

What is abstracted:

- The handshake's authentication only decides whether `Connect` happens; sockets are
  numbered in the order of their handshakes.
- `next()` and the `send_text` that follows are one step.
- Redis pub/sub is external: it keeps order and forgets what a subscriber that lost
  its connection had not read.
- Senders, contents, read marks and the reading of the history are left out.

### PullRequests

`pulls` is the table, `main` and `topic` the histories of the target branch and of each
source, `fetchHead` what the file `FETCH_HEAD` of the target repository names, `job` the
requests in progress.  A creation is `CreatePull` (the check for an identical open one),
`AssignNextNumber`, `InsertPull`; an edit `LoadForEdit`, `EditPull`; a merge `MergePull`
(row loaded, permission asked), `StartMerge` (target tip read), `FetchFromFork`,
`ReadFetchHead`, then `Conflicts` or `WriteMerge` (libgit2 refuses it unless the branch still
has the tip that was read) and `CommitMerge` (the row).  `DiffPull` fetches into the same
file.  Pushes, `DeleteFork` and `RestartPulls` come in between.  `mergeOf` and `alone` are
history.

Abstracted: a branch is the set of commits it reaches; forced pushes are left out;
titles and bodies are not kept; comments and reviews are single inserts.
`LocksAggregates` says whether the database accepts `SELECT max(...) FOR UPDATE`; with
PostgreSQL, which does not, no pull request can be created, and the rows there at
first are all there are.  The runs take the code's intention.

### Issues

`issues` is the table with its label rows, `work` the requests in progress with the copy
they loaded.  `NumberIssue`/`InsertIssue`, `LoadIssue`/`ReplaceLabels`/`CommitEdit`/`AnswerEdit`
and `StartComment`/`InsertComment` are the requests that read first and write later; an UPDATE
names the columns that differ from the copy only.  Labels and milestones come and go in
single transactions.

Abstracted: assignees are rows like labels and are left out; titles and
texts are not kept.

### Permissions and Access

`Permissions` has `MaxLevel` and `MeetsMinimum` from the resolver's rank table and
`SpelledBelow`, what Python's `<` does with two members of an enum that is a `str`.  The
pull-request and issue services use the second (section 4).  `Access` has `role`,
`teams`, `teammates`, `collab`, `visibility`; `Resolve` is translated with its early
returns.  A request is `OwnerGate` or `AdminGate` and then the change itself,
which does not ask again: whoever let it in may have lost the right since.  `TeamGrant` is
a constant since no code writes `team_repositories`.

### Sessions

`tokens` and `resets` are the tables in the order of issue, `ended` counts how often
every session was ended, `signing` the requests in flight.  A rotation is `PresentToken` and
its exchange; ending every session starts with the check of the password or mail (`ChangePassword`, `ConfirmReset`), then
the DELETE of the rows the database shows (`ExecuteDelete`), then the commit (`CommitDelete`).  `since` of a token is the value of `ended` when its
credentials were checked; `late` and `met` are history: two requests have met when they held the same token, or the
same reset mail, at the same time (`Presents`).  Access tokens of the REST
interface are stateless and are left out, as are hashes and clocks (a token expires at any time).

### Accounts

`names` is the table of users by address, `proofs` the verification tokens that work,
`lapsed` those mailed that expired or were rolled back, `links` the number of rows of each provider
account, `pats` the access tokens, `errands` the requests in flight.  Two INSERTs with
the same address or name wait for each other (`IndexWaits`).  `crossed` is history.

### Social

`marks` and `tally` are the rows and the counters of one repository, `hits` and `timed` the
limiter's counters and which of them have a time to live.  A star loads the
repository first and writes the counter from that value later.  INCR and EXPIRE are two steps;
the second may fail (`ExpireFails`), or the process die before it.  `disturbed` and `stuck` are history.

### Reviews and Routing

`Reviews`: `requests` and `indexing` are the Celery messages, `reviewer` and `indexer` the worker
processes, `reviews` the rows of one pull request, `points` the vector store, `rebuilding` the copies a rebuild of the
index has still to write.  A review task calls the model, selects the stale rows, deletes what it saw, inserts and
commits, and then queues the index task.  An index task (`TakeIndex`) ends at once when the repository is gone
(`DropRepository` takes the rows along), when there are two rows, no text (of the review, of comments, or a description) or no diff
(`Indexable`); otherwise it embeds and writes the point (`Upsert`).  A rebuild is `SelectRows`, all rows at once, then one
`RebuildRow` for each copy, while reviews are replaced and indexed.  Tasks are lost and redelivered, and run twice.
`raced` and `shuffled` are history.

Abstracted: one pull request, one rebuild at a time (the code has no caller for it: an operator starts it by hand).  The judge
is left out: it writes scores into the row it read, by its id, and nothing modelled reads them.

`Routing` is an algorithm: `ClassifyDiff`, `Vote`, `Override`, `Clamp`, `MajoritySeverity`,
`Comments` and the merging of samples are operators, and the steps of the review choose a diff,
hits and answers.  A diff is its signals, a comment the set of its words; scores are in halves.

### Pushes and Browse

`tips`, `lineage` and `contents` are the repository, `cache` the table `branches`, `pushing` the pushes
to the end of their hooks.  A push is `InfoRefs`, `ReceivePack`, then the hook:
`SyncBranchCache` (SELECT of the rows), `CommitRows` or `HookFails`, `DeliverAndBackUp`,
`DeployPages`.  What the hook is told is parsed from the output of the backend
(`ParsedUpdates`): it may report nothing.  A web commit is a lookup and a write, and has no hook.
`Redeploy` restarts the API and loses every hook; `RestoreRefs` brings back the archive.
`drift` is history: the branches whose rows nothing promises to be current.

`Browse` adds one reader, `viewing`.  A tree lists the branches in one thread and reads in a
second; a history is one request per page; a clone one for the refs and one for the pack.
Readers see refs and not the hook's rows, so hooks do nothing there.

### MCServices

The services share no rows another of them changes.  `part` is chosen at the start
and one service moves; the product would repeat each state of one for every
state of the others.  What they have in common, the permission levels, are constants of
each (`LevelOf`).  Alike requests and workers take the first free slot, which does
what symmetry would and is sound for temporal properties too.

Several properties speak of "calm" requests: the code promises
nothing about overlapping ones, so a history variable (`alone`, `calm`, `met`, `disturbed`, `crossed`,
`raced`, `shuffled`, `drift`, `late`) marks what an overlap, a fault or a known gap has
touched, and the property is that *nothing else* makes the records disagree.  Each marks as
little as makes the property hold, and TLC found the missing marks one by one; section 4
lists what they stand for.

## 3. Runs

| Run | Instance | What it shows |
|---|---|---|
| `RepoStorage_compose` | docker-compose: shared volume that survives; 2 repositories, 2 commits, 2 threads, 1 worker, faults, 1 crash | types, unique names, storage for every row, no acknowledged commit lost, refinement of `HostedRepos` |
| `RepoStorage_owners` | wiped root; a user with two names, an organization, 2 repositories | every missing repository is handled; no repository has foreign commits unless keys were shared |
| `RepoStorage_firsttask` | shared volume, 1 repository, 2 losses, fair | the first backup arrives |
| `RepoStorage_renamed` | wiped root, a user changes names | **violation**: an existing archive is not found under the new name |
| `RepoStorage_samename` | the schema of the head migration, 2 creations | **violation**: both rows of one name are committed |
| `Pages_overlap` | 2 workers, 3 requests, 2 branches, 2 commits, 2 pages, broker, MinIO and disk may fail | types; content comes from the row's own configuration; a published site is complete, and current once at rest after a build that ran by itself |
| `Pages_settles` | 1 worker lost once, 3 requests, disk may fail, fair | no row waits for nothing; it settles |
| `Pages_disable` | 1 worker, nothing fails | **violation**: disabling leaves the files of earlier builds |
| `Messaging_push` | 2 users, 1 process, 3 sockets, 2 messages, 1 restart, fair | types; the hub is exact; clients get their own user's events, in order; undisturbed deliveries reach everyone; queues drain |
| `Messaging_missed` | 1 user, 2 sockets, 1 message, fair | **violation**: a delivery passes over a client that is connected throughout |
| `Services` | every service of `MCServices` | the twenty properties of the table below |
| `Services_merge` | 2 forks, 2 requests | **violation**: a merge merges the commits of another fork |

What `Services` checks:

| Property | Says |
|---|---|
| `ServicesTypeOK` | types of all parts |
| `RecordedMergeInTarget` | the merge a row records was made for it and is on the branch |
| `TargetKeepsCommits` | nothing takes a commit from the target branch |
| `CalmMergeIsOwn` | a merge without another fetch in between merges its own source |
| `ClosedExactlyTimed` | `closed_at` is set exactly while an issue is closed |
| `CalmReplaceExact` | labels replaced without an overlap are those asked for |
| `ResolvesHighest` | the resolver finds the highest level, compared with all entitlements |
| `RaisedByEntitled` | a level rises only by a request of somebody entitled |
| `EarlierSessionsEnd`, `SingleUse` | sessions end; tokens and reset mails are used once |
| `LatestMailWorks`, `CalmOneLink`, `RevokedForGood` | mails, links, access tokens |
| `CalmCountExact`, `RefusalEnds` | counters; refusals |
| `CalmOneReview`, `IndexedIsCurrent` | one review; the store agrees once every task ended |
| `MergedCoversAll` | every commented place once, most severe first, as severe as the worst sample has it |
| `CalmCacheCurrent` | the cached row names the branch's commit when its hooks are through |
| `ReadsOneCommit` | trees, clones and pages are of one commit |

**Bounds.** Two repositories are what a name clash, a fork or a shared archive key
needs; two commits tell "older" from "newer"; two threads or workers overlap.  One
crash reaches every state a restart can find, because a restart forgets everything it
does not find on disk or in the database.  Three Pages requests are one that creates
the row, one that deletes it and one that races with both.  `MaxCrashes`, `MaxLost`,
the requests (each runs once) and the commits (each is made once) are the bounds;
the identifiers of rows are drawn once, as uuids are.  Three sockets are one the
iterator has met, one that leaves and one that joins, so that the size of the set is what
it was; two messages have an order, two users can be confused.  One process is
enough because processes share the channel only, which each reads at its own pace; the theorems
are for any number of them.  

In `Services` every bound is the smallest at which the hazard of its part happens.
Two open pull requests from two forks, two slots and a third number
(`MaxPulls`) are a race of two merges or creations; five commits are three first ones and two more;
two requests (`MaxPullRequests`) are what overlaps (two merges, or a merge and a diff), and pushes and restarts come between them.  Three issue
requests let two overlap after a third, and a third issue has a number to clash with.  Four organization requests
chain two gates with two changes.  Four session requests and three tokens let a rotation, a
login and two endings meet; `MaxEnded` = 2 tells "before the last" from "before both".  Three errands and
three mails overlap registration, resend and rename.  `Limit` = 1 refuses the second
hit.  Two review triggers, two workers of each kind, two diffs, one rebuild and one lost worker reach
every pair of overlapping tasks, and a rebuild that holds the copy of a review replaced meanwhile.  Three samples are the code's number; `TopK` = 4 lets a vote
tie and still exceed the three neighbours an override needs (the code has 5).  Three pushes are two
that overlap and one that repairs; three commits make a history of three pages of one.
All slots are released and reused.

Since commits, requests
and crashes run out, the systems come to rest, and the runs say
`CHECK_DEADLOCK FALSE`.

**Symmetry** is used in two safety runs (`RepoStorage_owners`, `Pages_overlap`), over sets whose members
no definition tells apart.

**Fairness.** `RepoStorage!FairSpec`: the event loop keeps running the startup
task, workers consume their queue, an upload that began ends.  `Pages!FairSpec`: a
request that has loaded its row goes on (it is a coroutine with no
unbounded wait), and a worker process keeps consuming.  `Messaging!FairSpec`: the
event loop runs a listener that is ready, and a send to a peer that does not read
ends because the server's keep-alive closes dead peers.  Nothing is fair about clients,
pushes, faults or crashes.  Without the bounds on losses a message could be
redelivered for ever, which is why liveness is stated for finitely many.
`MCServices` has no fairness: the code promises its services nothing
"eventually" but the end of a window (`RefusalEnds`), which is stated as the existence of a
time to live because the expiry is Redis's.

## 4. Where the code and its words part

Five runs end in a violation; `PROJECT.json` quotes the lines.

1. `RepoStorage_renamed`: a repository whose owner changed names is re-initialised
   empty after a wipe although its archive exists (`main.py:115`, `api/v1/auth.py:178`).
2. `RepoStorage_samename`: `models/repo.py:38` speaks of partial unique indexes; the head
   migration (`782e8e16ed14`, lines 206-207) drops both, and two racing creations commit one
   name.  Every later lookup of either raises `MultipleResultsFound`.
3. `Pages_disable`: disabling a site deletes the files of the published build only
   (`pages_service.py:164`).
4. `Messaging_missed`: `manager.py:12-14` says that a listener forwards an event to its
   connected clients.  `_deliver_local` iterates over the live set (`manager.py:68`): when a
   socket of the user comes or goes during a send, the rest of the delivery is dropped.
5. `Services_merge`: `merger.py:39` returns "the tip commit of the fetched branch", by way of
   the one `FETCH_HEAD` of the target repository: another fetch in between, and the pull
   request is merged with the commits of another fork.

Read, and not checked by a run of their own.  Repositories, backups and Pages:

- On Render the worker has a disk of its own (`render.yaml`): the backup task of a new
  repository cannot see its directory and skips it (`git_tasks.py:109`, `:120`,
  `repo_service.py:61`).  `RepoStorage_firsttask` is about the shared volume.
- The previous version of a site is kept and not served while a build runs
  (`pages_service.py:16-17`, `api/v1/pages.py:245`).
- With two worker processes (the compose file starts `--concurrency=2`) the older of two
  builds can end last and put its commit over the newer one; no timestamp is compared.  A request that
  loaded "pending" does not write it again, so if its build has ended and the broker refuses its message,
  an active site stays on the old branch.  These are the two cases `SettledIsCurrent` exempts
  (`crossed`), and the proof shows that there is no third.
- `pages_tasks.py:301` re-raises "so Celery retries"; without `autoretry_for` it does not.
  The review task has no retry either.  A message the broker refuses leaves the row "pending".
- `pages_tasks.py:7`, a build "on every push", does not happen (see the abstractions).
- The key of an object has the commit and not the folder, so a rebuild of the same
  commit from another folder overwrites it (`pages_service.py:16`: "immutable").
- After a failed commit a creation leaves its directory behind
  (`repo_service.py:297`), where the module's head speaks of no orphans.
- `repo_backup_exists` takes any error of `head_object` for "no backup".
- The first archive of a repository of an organization is stored under the name of
  the actor (`repo_service.py:330`) and later ones under that of the organization.
- Distinct names can share a slug (`repo_storage.py:101`), hence `SlugsDistinct`.
- `restore_repo` asks for an empty staging area and is given `GIT_REPOS_ROOT`.
- Of two overlapping backups the older one may be stored last.

Pushes and readers:

- The branch cache, webhooks and automatic builds depend on lines stock git never prints
  on the stream that is parsed; `repos.py:230` says the hook "keeps this cache in sync on every
  push".  The model lets a push report or not report.
- Hooks of overlapping pushes end in any order, and one whose row is inserted by
  another fails as a whole.  Web commits and merges have no hook.
- Tree routes answer with an empty tree for a tag or a hash, which blob routes
  resolve.  A repository whose `HEAD` names no branch reads as empty.

Real time:

- A listener that loses its subscription ends and is not started again
  (`manager.py:90`); a message that is stored and whose publication fails is not
  announced (`messages.py:126`).
- The history of messages is ordered by `created_at`, whose default in the migration
  is one fixed time.

Pull requests, issues, rights:

- `SELECT max(...) ... FOR UPDATE` (`pr_service.py:42-50`, `issue_service.py:90-101`) is refused
  by PostgreSQL ("FOR UPDATE is not allowed with aggregate functions"); the unit tests
  replace the session.  Hence `LocksAggregates`.
- Levels are compared as strings (`pr_service.py:175`, `:203`; `issue_service.py:402`, `:411`,
  `:578`, `:607`): "admin" < "write", so administrators and maintainers are refused what
  writers may do.
- Two merges of one pull request both pass the check and both merge.  `PATCH` accepts the
  state "merged" without a merge.  A process that stops between the merge and its row leaves the
  branch merged and the pull request open.
- Two creations overlap and leave two open pull requests of the same branches.
- Two replacements of an issue's labels leave the union of both.
- A member removed from an organization keeps the places in its teams; the last owner
  can be removed; no code creates a team's grant of a repository; the listing of an
  organization's repositories uses columns that do not exist.

Accounts, sessions, social records, AI:

- The head migration drops the uniqueness of provider accounts (`782e8e16ed14`, line 102): two first
  sign-ins that overlap link one twice, and every later sign-in with it fails.
- A sign-in that had checked its credentials before a password change writes its
  token after the deletion; that is `late`.
- Mails are queued before the commit of their token.
- `models/repo.py` says of the counters that they are kept in sync by the
  service layer's transactions; overlapping stars lose one, and taking back a star that is not
  there, which the code calls a no-op, lowers the counter.
- An EXPIRE that fails, or a process that dies between INCR and EXPIRE, leaves a client refused for good.
- Two overlapping review tasks leave two rows, which the readers' `scalar_one_or_none` cannot
  take; the review table has no constraint.
- A rebuild of the index selects all rows and then embeds and writes them one by one
  (`rag_tasks.py:267-308`).  A review replaced and indexed meanwhile, for the same diff, is overwritten by the older
  copy and stays so until the next index task.  `IndexedIsCurrent` exempts exactly this (`Overtakes`).
- A new review without a summary or a suggestion is not indexed (`rag_tasks.py:151-153`) when the pull request has
  no comment and no description: the vector store keeps the point of the review it replaced.
- The "clear majority" of the neighbours is a plurality with ties broken by the alphabet
  (`rag_store.py`); retrieval does not make the collections it asks; the classifier's `save`
  pickles a local class; its training takes the machine's categories for confirmed ones.
- No worker registers the tasks of `security_tasks.py`.

## 5. Proofs

All theorems hold for every value of the constants that satisfies the named
assumptions of the modules; TLC evaluates those assumptions in every run.  All forty
properties of the passing runs are proved but the three liveness properties.

**RepoStorage.**  `UniqueNames` is proved for both schemas: with the index (`NameIndexed`) no name is shared, and
without it only by requests that were in flight together, a history variable.  `UniqueNames`, `RowsHaveStorage` and `AcknowledgedCommitsKept` are
not inductive.  A name in `rows` is unique because no flushed or initialised request
holds the same one, and no row appears while it does; a row has its directory
because a request that is `inited` has it, and because nothing but the deletion of
this very repository removes it.  `IInv` adds that: `TypeOK` and `Placement`, which is
`RequestsInOrder` (what each `pc` says of rows and directories), `DeletedOnce` (a doomed
repository has no row and never gets one), `NamesReserved` (requests in flight and
rows have distinct names), and the two storage properties.  `RepoStorageProofs`
proves Init => IInv and IInv /\ [Next]_vars => IInv', one step per action.

`NoForeignCommits` rests on `Origins`: the directory of a repository whose key is its own holds
what its clients know of (`TrustedKnown`); so does every archive and every upload
under way (`ArchivesKnown`); the startup loop looks under a key its repository has
claimed, for one that has no directory (`IterationsKnown`).  `Onward` says what every step
respects: claims and acknowledged commits grow, and an address is final once the request is past its commit.
`StartupCoversMissing` needs `Owned`: a row or a request in flight has an owner that exists, so that no
iteration of the loop gives up on it, and what an iteration restores lands under its own name (`Origins`).
Both hold on either kind of disk.

Two more statements are about the backup itself.  `NoBackupDropped`: with a disk that lasts and that
worker and API share, and a B2 that answers, no step drops a pending backup; it ends with its archive stored or its
row gone.  This is the part of `QueuedBackupArrives` that needs no fairness, and rests on `PackedForTask`: a worker
packs for the message it holds.  `ProbeFindsUnrenamed`: the startup probe finds the archive
of a repository that never had another key, so that a rename is the only thing that makes
`RestoredIfBackedUp` fail (section 4); it follows from `Origins`.

`RepoStorageRefinement` proves that on a volume that survives restarts every step is
an abstract creation, fork, write or deletion or leaves
`[r \in rows |-> tree[r]]` as it was.  It needs three more facts (`Provenance`): commits in live
directories were minted, an abstract creation starts from fresh commits, and the
source of a fork is a row until the fork commits.

**Pages.**  `TypeCorrect`; `UnsettledRowHasBuild`; `PublishesOwnConfig`;
`PublishesWholeFolder`; `SettlesOnCurrent`.  The second rests on `UnsettledOwned`: the request that is
about to queue a message is the one that wrote *this* row.  The weaker property is not
inductive, since the last such request may fail to refresh a row that was deleted.  The
next two rest on `Provenance`: rows and builds carry pairs of branch and folder recorded
for their row, the commit a build resolved was a tip of its branch, and each page of
it is stored, still to upload, or excused.  `Keeps` says what all actions preserve (histories
grow, a page leaves MinIO only with its commit scrubbed), so that each action
only has to show what it changes.

`SettlesOnCurrent` has no hypothesis: any number of workers, and a broker that may refuse.  Its two exemptions
are in the property (`crossed`), and the second came out of the proof (section 4).  `Settling` says that a message is owed
to the row, or a worker is building it from its present configuration, or nothing is being built and what is shown
is current; `OneBuild` that a build not crossed is the only one, and `TipsCurrent` that the tip of the
row's branch is among those recorded since the last request.

**Messaging.**  `TypeCorrect`, `HubsExact`, `PushedOnlyToRecipient`, `PushedInOrder` and
`CalmReaches`.  That a hub is exact needs to know whom a `Finish` may remove: the dead sockets
of a loop are broken or gone, and unused ones are in no set (`LoopOK`, `NewEmpty`).  The
order of an inbox needs that of the queues (`OrderOK`): what waits is in order, later than
what is being delivered, and that is not before anything a client has.
`CalmReaches` needs `CalmOK`: in a calm delivery each socket of the set as it
began is ahead, has received the event, or is not joined.

**PullRequests.**  `RecordedMergesStand`, `CalmMergesAreOwn`, `TargetOnlyGrows`, `PullsTyped`.
`PullsKept` says of each request in progress (`JobKept`) that what it is going to record is a
merge commit of its own pull request on the branch (`MergedAs`), and that while it is `alone` its source's first
commit is in what it fetched; and of each row (`RowKept`) the same.  `main` only grows
because a merge is written on a tip that is still the branch's.  The next number is the largest
plus one; that a bounded set of numbers has a largest is `Largest`, by well-founded
induction on a set (the library's induction over operators cannot be used here).

**Issues.**  `IssuesTyped`, `ClosingTimesMatch`, `CalmReplacesAreExact`.  `IssuesKept` adds what a
request has read and still holds (`WorkKept`): a label it found valid was drawn and is never drawn again, and
while no other edit of the issue has committed (`calm`) the labels in the rows are
among those its DELETE saw, and then those it added.  `closed_at` goes with the state because an UPDATE names
both columns or neither.

**Reviews.**  `ReviewsTyped`, `CalmIsOneReview`, `IndexEndsCurrent`.  `MessagesCounted` bounds each queue by
what was sent for a reason, so that the types include the bounds.  `OneReview`: until two writers
overlapped there is at most one row, and a writer has seen all there is.  `IndexFollows`: until
index tasks overlapped or a rebuild was overtaken, a stored review with a text is in the vector store or on its way there,
and what a rebuild still holds is the stored review or of another diff.

**Routing.**  `RouteTyped`, with `RouteKept`: the answers are never more than the samples.  It includes that
voting, overriding and clamping stay within the five classes and the four severities, for any hits.

`MergeCoversAll` is about what merging *computes*, for samples of any length.  The library's induction over
operators cannot be used, but a least counterexample in a set of lengths can be taken (`Reached`, by `WFMin`): so
the fold over comments of a place accounts for each of them (`KeepsOf`), and the joined
answers hold exactly what the answers hold.  `Ranked` puts at place i the element that i - 1 others precede.
That this is a permutation in order follows from cardinalities: who precedes more has more predecessors, so numbers of predecessors
are pairwise different, and below the size of the set every one occurs.  `ReviewIsMerge` says that a merged
review is `Deduplicate` of the answers as they still are.
`NoCommentLost` (`CommentsAccounted`) says more of the comments: each of a place is kept, or four fifths of its words are in one that is;
none is made up, and none repeats an earlier one.  Being accounted for survives what is appended later.

`VotersReplaceTheClass` is an action property (`ReplacedByPlurality`): where the vector store changes the class, there were at
least three neighbours, they are the best of all hits (`BestOf`, from the same ranking), and no class, nor the missing one, has
more votes among them.

**Social.**  `RefusalIsTemporary`, `CountsAreExact`, `SocialRowsTyped`.
`WindowKept` says who gives a counter its time to live next; `CountKept`
that an undisturbed counter has at most one request at work on it, which read its
present value; `SocialKept` that no counter exceeds the requests that arrived.

**Sessions.**  `EndedSessionsStayEnded`, `TokensAreUsedOnce`, `SessionRowsTyped`.  `SessionsKept` adds that two
requests in flight have met (`AllMet`); that a token which survives an ending is marked
(`OldMarked`), also one a rotation carried on; that an exchanged token is not live and whoever
still exchanges it met the one that did (`ExchangedOnce`); the same of reset mails (`ResetOnce`).

**Accounts.**  `LastMailVerifies`, `OneLinkEach`, `RevokedStaysRevoked`, `AccountRowsTyped`.  `AccountsKept` adds
what a request has read and still holds (`ErrandKept`: a resend deletes older tokens only),
that two INSERTs under way are of different addresses (`Apart`), and that a provider account not
crossed has one sign-in at a time at work on it (`LinksKept`).

**Access.**  `AccessTyped`, `ResolverAlwaysExact`, `RaisesAreEntitled`.  The first part is about operators:
`MaxLevel` is the maximum of the rank, the fold over team grants is the highest of them whatever their order, and
the early returns lose nothing.  `RaisesAreEntitled` is an action property; its invariant `GatesKept`
says that whoever passed a gate was entitled when he did, and that an organization that is gone has taken its
repositories along, without which creating it anew would raise its owner.

**Pushes and Browse.**  `PushesTyped`, `CacheFollowsPushes`, `BrowseTyped`, `ReadersSeeOneCommit`.  `PushesKept`:
nothing names a commit that was not made, and a history has its commits' numbers for its bound.
`RowsKnown` says of each branch not in `drift` that its row is current and nothing moves it, or that one push
*knows* it: what it was told and what it selected lead to the row the tip demands.
`ViewKept` is the reader's: the tree it was given is of a commit it was named, the clone
holds the histories of what it was shown, and the pages so far are a prefix of the history.

**The composition.**  `ServicesComposeTheirParts`: a behaviour of `ServicesSpec`, which TLC checks, is one of
`PullsSpec`, `IssuesSpec`, `AccessSpec`, `SessionsSpec`, `AccountsSpec`, `SocialSpec`, `ReviewsSpec`,
`RouteSpec` and `PushesSpec`.  The theorems above are about those, and `ServicesKeepWhatTheyPromise`
and `ServicesTyped` carry them over to what the run states.  The reader's properties go along by `ReaderKept`: either
`Browse` is the part that moves, or nobody reads.

**What the proofs changed in the modules.**  Arms of a CASE must exclude each other, which those of `Resolve` (an
owner who is also a collaborator) and `ResolveRef` did not: both are now the chains of returns the code
has.  In `ResolveRef` a tag that is missing falls through to the hashes, as in the code.  The constants got the
assumptions their values always had.  The counters of `Social` are bounded by the requests, which is less than what the
type invariant said before.  `Routing` sorts with `Ranked`: the prover knows nothing of the library's sort, nor of a
selection from a sequence, so that `Comments` is one fold over all suggestions that passes over other places.  The hits and the
suggestions got their types (`Neighbour`, `Suggestion`).

**Model-checked only.**  `QueuedBackupArrives`, `SiteSettles` and `QueueDrains`, since
liveness under fairness is beyond the prover, and the five statements that fail.

## 6. What is left

- Composition: Pages with the deletion of its repository, merges with hooks (merges have none), and
  an abstract specification of pull requests where a merge is one step.  The last needs the
  merge to be of the right commits, which section 4 shows it is not.

Not modelled, and why: the scanners (pattern matching in tasks no worker runs), the judge's scores, the
classifier's training, prompts and embeddings (numerical results of external models), e-mail and
logging (formatting and transport), schemas and settings (validation; the bounds that matter are
types of the modules), the helpers for avatars and attachments (one call of MinIO each), the startups directory
beyond its slugs, migrations beyond the constraints that matter, the CLI and the front
end, which are clients without shared state.

## 7. Running

    tlc -workers 2 -config Pages_overlap.cfg MCPages
    tlc -workers 2 -config Services.cfg MCServices
    tlapm ServicesProofs.tla

`Services` takes about three minutes on two cores (975,075 distinct states), every other run
less than two and a half; the proofs take between one and some ten minutes a module.
