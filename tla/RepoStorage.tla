---------------------------- MODULE RepoStorage ----------------------------
(***************************************************************************)
(* Where a hosted repository lives: its row in PostgreSQL, its bare git    *)
(* directory under GIT_REPOS_ROOT, and its archive in the Backblaze B2     *)
(* bucket.  The requests that create, fork, push to, rename the owner of   *)
(* and delete a repository, the backup task of the Celery worker, the      *)
(* backup that ends every push, and the restore that runs at every start   *)
(* of the API process all interleave here.                                 *)
(***************************************************************************)
EXTENDS Naturals, FiniteSets

CONSTANTS
    Repo,           \* repository ids (uuid4: an id is drawn once)
    User, Org,      \* the two kinds of owner
    OrgAdmin,       \* subset of User \X Org: members with role OWNER or ADMIN
    Handle,         \* user names and organization names
    FirstHandle,    \* the name every owner starts with
    Name, Slug,     \* repository names, and what _slug makes of each
    Commit,         \* commits, each made once
    Thread,         \* threads of the API's executor that run post-push work
    Worker,         \* Celery worker processes on the git_ops queue
    EphemeralDisk,  \* TRUE: the repository root is wiped by a restart (Render)
    SharedDisk,     \* TRUE: the worker mounts the API's volume (docker-compose)
    NameIndexed,    \* TRUE: (owner, name) is unique in the schema, as revision
                    \* 0001 has it and models/repo.py says; the head drops it
    Faults,         \* TRUE: a call to B2, or a query of the startup loop, may fail
    MaxCrashes      \* bound on API restarts and worker losses together

Owner == User \cup Org

ASSUME OwnersAssumption ==
    /\ User # {} /\ Name # {} /\ User \cap Org = {}
    /\ OrgAdmin \subseteq User \X Org
    /\ FirstHandle \in [Owner -> Handle]

ASSUME PathsAssumption == Repo \cap Name = {}

ASSUME ProcessAssumption == Thread \cap Worker = {}

ASSUME FlagsAssumption ==
    /\ EphemeralDisk \in BOOLEAN /\ SharedDisk \in BOOLEAN
    /\ NameIndexed \in BOOLEAN /\ Faults \in BOOLEAN
    /\ MaxCrashes \in Nat

VARIABLES
    pc,        \* progress of the request that makes each repository
    meta,      \* the row each of those requests writes
    rows,      \* ids of committed rows of table repositories
    orgs,      \* organizations that still exist
    handle,    \* current name of every owner
    dirs,      \* directories that exist under GIT_REPOS_ROOT
    tree,      \* commits reachable in each directory
    doomed,    \* deleted rows whose directory is still to be removed
    bucket,    \* objects in B2
    tasks,     \* backup_repository messages in the queue
    taken,     \* message a worker holds
    hook,      \* repository whose push a thread is post-processing
    upload,    \* archive a thread or worker has packed and not yet put
    todo,      \* rows the startup loop has still to look at
    restoring, \* the iteration of the startup loop that is under way
    acked,     \* commits clients were told each repository holds
    minted,    \* commits made so far
    claims,    \* history: archive keys each repository has used
    together,  \* history: pairs of requests that were in flight together
    crashes    \* restarts and worker losses so far

vars == <<pc, meta, rows, orgs, handle, dirs, tree, doomed, bucket, tasks,
          taken, hook, upload, todo, restoring, acked, minted, claims, together, crashes>>

request == <<pc, meta, together>>
people  == <<orgs, handle>>
disk    == <<dirs, tree>>
queue   == <<tasks, taken>>
startup == <<todo, restoring>>
history == <<acked, minted, claims>>

-----------------------------------------------------------------------------
(* Types and state functions *)

\* A directory of GIT_REPOS_ROOT is <uuid>.git, or <name> as a restore extracts it.
Path == Repo \cup Name

\* repos/{owner}/{repo_name}.tar.gz
Key == Handle \X {Slug[n] : n \in Name}
ObjectKey(h, n) == <<h, Slug[n]>>

\* `login` is the actor's user name as the request loaded it; `source` holds
\* the repository a fork copies.
Meta == [owner : Owner, name : Name, login : Handle, source : SUBSET Repo]
AnyMeta == CHOOSE m \in Meta : m.source = {}

Task == [repo : Repo, owner : Handle, name : Name]

\* The tar's only top-level entry is the repository's name; `from` is the
\* repository it was packed from.
Archive == [key : Key, arcname : Name, commits : SUBSET Commit, from : Repo]

Iteration == [repo : Repo, key : Key, found : BOOLEAN]

InFlight(r) == pc[r] \in {"flushed", "inited"}
KeyNow(r)   == ObjectKey(handle[meta[r].owner], meta[r].name)
\* Fault: the owner's part of the key is ignored.
Stored_AnyOwner(k) == {a \in bucket : a.key[2] = k[2]}
Stored(k)   == {a \in bucket : a.key = k}
ArchiveOf(r, h, n) ==
    [key |-> ObjectKey(h, n), arcname |-> n, commits |-> tree[r], from |-> r]

TypeOK ==
    /\ pc \in [Repo -> {"unused", "flushed", "inited", "committed", "settled"}]
    /\ meta \in [Repo -> Meta]
    /\ rows \subseteq Repo /\ orgs \subseteq Org
    /\ handle \in [Owner -> Handle]
    /\ dirs \subseteq Path
    /\ tree \in [Path -> SUBSET Commit]
    /\ doomed \subseteq Repo
    /\ bucket \subseteq Archive
    /\ tasks \subseteq Task
    /\ taken \in [Worker -> SUBSET Task]
    /\ hook \in [Thread -> SUBSET Repo]
    /\ upload \in [Thread \cup Worker -> SUBSET Archive]
    /\ todo \subseteq Repo
    /\ restoring \subseteq Iteration
    /\ acked \in [Repo -> SUBSET Commit]
    /\ minted \subseteq Commit
    /\ claims \in [Repo -> SUBSET Key]
    /\ together \subseteq SUBSET Repo
    /\ crashes \in 0..MaxCrashes

Init ==
    /\ pc = [r \in Repo |-> "unused"]
    /\ meta = [r \in Repo |-> AnyMeta]
    /\ rows = {} /\ orgs = Org /\ handle = FirstHandle
    /\ dirs = {} /\ tree = [p \in Path |-> {}] /\ doomed = {}
    /\ bucket = {} /\ tasks = {}
    /\ taken = [w \in Worker |-> {}]
    /\ hook = [t \in Thread |-> {}]
    /\ upload = [p \in Thread \cup Worker |-> {}]
    /\ todo = {} /\ restoring = {}
    /\ acked = [r \in Repo |-> {}] /\ minted = {}
    /\ claims = [r \in Repo |-> {}] /\ together = {}
    /\ crashes = 0

-----------------------------------------------------------------------------
(* Creating and forking: repo_service.create_repository, fork_repository *)

\* _ensure_name_available sees committed rows only.
NameAvailable(o, n) == \A r \in rows : ~(meta[r].owner = o /\ meta[r].name = n)

\* get_repository_by_owner_and_name raises MultipleResultsFound when two rows
\* answer to one owner and name: no request reaches either any more.
Addressed(r) ==
    \A q \in rows :
        meta[q].owner = meta[r].owner /\ meta[q].name = meta[r].name => q = r

\* Where the partial unique index exists, a second INSERT of the same owner
\* and name waits for the transaction that holds the first.
\* Fault: the migration's unique index is missing.
IndexFree_NoIndex(o, n) == TRUE
IndexFree(o, n) ==
    NameIndexed =>
        \A r \in Repo : InFlight(r) => ~(meta[r].owner = o /\ meta[r].name = n)

MayOwn(u, o) == u = o \/ (o \in orgs /\ <<u, o>> \in OrgAdmin)

Flush(r, m) ==
    /\ pc[r] = "unused"
    /\ NameAvailable(m.owner, m.name) /\ IndexFree(m.owner, m.name)
    /\ pc' = [pc EXCEPT ![r] = "flushed"]
    /\ meta' = [meta EXCEPT ![r] = m]
    /\ together' = together \cup {{r, q} : q \in {q \in Repo : InFlight(q)}}
    /\ UNCHANGED <<rows, people, disk, doomed, bucket, queue, hook, upload,
                   startup, history, crashes>>

CreateFlush(r, u, o, n) ==
    /\ MayOwn(u, o)
    /\ Flush(r, [owner |-> o, name |-> n, login |-> handle[u], source |-> {}])

\* A fork keeps its source's name and goes to the actor or to an organization;
\* incrementing the source's fork_count needs the source's row.
ForkFlush(r, u, o, s) ==
    /\ s \in rows /\ s # r /\ Addressed(s)
    /\ o = u \/ o \in orgs
    /\ \A q \in Repo : InFlight(q) => s \notin meta[q].source
    /\ Flush(r, [owner |-> o, name |-> meta[s].name, login |-> handle[u], source |-> {s}])

\* _init_bare_repo, with the root commit when auto_init asks for one.
InitBare(r, new) ==
    /\ pc[r] = "flushed" /\ meta[r].source = {}
    /\ new \cap minted = {} /\ Cardinality(new) <= 1
    /\ pc' = [pc EXCEPT ![r] = "inited"]
    /\ dirs' = dirs \cup {r}
    /\ tree' = [tree EXCEPT ![r] = new]
    /\ minted' = minted \cup new
    /\ UNCHANGED <<meta, together, rows, people, doomed, bucket, queue, hook, upload,
                   startup, acked, claims, crashes>>

\* _clone_bare_repo copies what the source's directory holds now.
CloneBare(r) ==
    /\ pc[r] = "flushed" /\ meta[r].source \cap dirs # {}
    /\ pc' = [pc EXCEPT ![r] = "inited"]
    /\ dirs' = dirs \cup {r}
    /\ tree' = [tree EXCEPT ![r] = UNION {tree[s] : s \in meta[r].source}]
    /\ UNCHANGED <<meta, together, rows, people, doomed, bucket, queue, hook, upload,
                   startup, history, crashes>>

\* The disk step raised: the flush is rolled back.  A failure after
\* init_repository, when the root commit is written, leaves the directory.
DiskStepFails(r, left) ==
    /\ pc[r] = "flushed"
    /\ pc' = [pc EXCEPT ![r] = "settled"]
    /\ left = {} \/ (left = {r} /\ meta[r].source = {})
    /\ dirs' = dirs \cup left
    /\ UNCHANGED <<meta, together, rows, people, tree, doomed, bucket, queue, hook,
                   upload, startup, history, crashes>>

\* Fault: a state no other step knows.
CommitRow_UnknownState(r) ==
    /\ pc[r] = "inited"
    /\ pc' = [pc EXCEPT ![r] = "queued"]
    /\ rows' = rows \cup {r}
    /\ acked' = [acked EXCEPT ![r] = tree[r]]
    /\ UNCHANGED <<meta, together, people, disk, doomed, bucket, queue, hook, upload,
                   startup, minted, claims, crashes>>

\* A fork ends here; a creation still has its first backup to queue.
CommitRow(r) ==
    /\ pc[r] = "inited"
    /\ pc' = [pc EXCEPT ![r] = IF meta[r].source = {} THEN "committed" ELSE "settled"]
    /\ rows' = rows \cup {r}
    /\ acked' = [acked EXCEPT ![r] = tree[r]]
    /\ UNCHANGED <<meta, together, people, disk, doomed, bucket, queue, hook, upload,
                   startup, minted, claims, crashes>>

\* The commit itself failed: nothing removes the directory.
CommitFails(r) ==
    /\ pc[r] = "inited"
    /\ pc' = [pc EXCEPT ![r] = "settled"]
    /\ UNCHANGED <<meta, together, rows, people, disk, doomed, bucket, queue, hook,
                   upload, startup, history, crashes>>

\* backup_repository.delay(..., actor.username, payload.name); a broker that
\* refuses the message is logged only.
QueueBackup(r, sent) ==
    /\ pc[r] = "committed"
    /\ pc' = [pc EXCEPT ![r] = "settled"]
    /\ tasks' = IF sent
                THEN tasks \cup {[repo |-> r, owner |-> meta[r].login, name |-> meta[r].name]}
                ELSE tasks
    /\ UNCHANGED <<meta, together, rows, people, disk, doomed, bucket, taken, hook,
                   upload, startup, history, crashes>>

-----------------------------------------------------------------------------
(* Writing commits: api/v1/git.receive_pack, repos.upload_files, a PR merge *)

\* Fault: the new commit is written without its parent.
AddCommit_Orphan(r, c) ==
    /\ r \in rows /\ r \in dirs
    /\ c \notin minted
    /\ tree' = [tree EXCEPT ![r] = {c}]
    /\ acked' = [acked EXCEPT ![r] = @ \cup {c}]
    /\ minted' = minted \cup {c}

AddCommit(r, c) ==
    /\ r \in rows /\ r \in dirs /\ Addressed(r)
    /\ c \notin minted
    /\ tree' = [tree EXCEPT ![r] = @ \cup {c}]
    /\ acked' = [acked EXCEPT ![r] = @ \cup {c}]
    /\ minted' = minted \cup {c}

\* receive_pack answers 503 while the directory is missing.  A push that git
\* accepted is handed to a thread of the executor and acknowledged.
Push(r, c, t) ==
    /\ AddCommit(r, c)
    /\ hook[t] = {} /\ upload[t] = {}
    /\ hook' = [hook EXCEPT ![t] = {r}]
    /\ UNCHANGED <<request, rows, people, dirs, doomed, bucket, queue, upload,
                   startup, claims, crashes>>

\* upload_files and merge_commit write a commit and schedule nothing.
WebCommit(r, c) ==
    /\ AddCommit(r, c)
    /\ UNCHANGED <<request, rows, people, dirs, doomed, bucket, queue, hook,
                   upload, startup, claims, crashes>>

-----------------------------------------------------------------------------
(* Backing up: the end of post_receive_hook, the backup_repository task, *)
(* and repo_storage.backup_repo, which packs first and uploads later      *)

\* The hook re-reads the row, resolves the owner's current name and packs.
\* No row, no owner or no directory: it ends there.
HookPack(t, r) ==
    /\ r \in hook[t]
    /\ hook' = [hook EXCEPT ![t] = {}]
    /\ IF r \in rows \cap dirs
       THEN /\ upload' = [upload EXCEPT ![t] =
                             {ArchiveOf(r, handle[meta[r].owner], meta[r].name)}]
            /\ claims' = [claims EXCEPT ![r] = @ \cup {KeyNow(r)}]
       ELSE UNCHANGED <<upload, claims>>
    /\ UNCHANGED <<request, rows, people, disk, doomed, bucket, queue, startup,
                   acked, minted, crashes>>

WorkerTake(w, k) ==
    /\ k \in tasks /\ taken[w] = {}
    /\ tasks' = tasks \ {k}
    /\ taken' = [taken EXCEPT ![w] = {k}]
    /\ UNCHANGED <<request, rows, people, disk, doomed, bucket, hook, upload,
                   startup, history, crashes>>

\* The task trusts its arguments: it never looks at the row.
WorkerPack(w, k) ==
    /\ k \in taken[w] /\ upload[w] = {}
    /\ SharedDisk /\ k.repo \in dirs
    /\ upload' = [upload EXCEPT ![w] = {ArchiveOf(k.repo, k.owner, k.name)}]
    /\ claims' = [claims EXCEPT ![k.repo] = @ \cup {ObjectKey(k.owner, k.name)}]
    /\ UNCHANGED <<request, rows, people, disk, doomed, bucket, queue, hook,
                   startup, acked, minted, crashes>>

\* backup_repo raises 404: the task fails and, with no autoretry, is acked.
WorkerFindsNoDirectory(w, k) ==
    /\ k \in taken[w] /\ upload[w] = {}
    /\ ~SharedDisk \/ k.repo \notin dirs
    /\ taken' = [taken EXCEPT ![w] = {}]
    /\ UNCHANGED <<request, rows, people, disk, doomed, bucket, tasks, hook,
                   upload, startup, history, crashes>>

Acknowledge(p) ==
    taken' = [w \in Worker |-> IF w = p THEN {} ELSE taken[w]]

PutObject(p, a) ==
    /\ a \in upload[p]
    /\ bucket' = (bucket \ Stored(a.key)) \cup {a}
    /\ upload' = [upload EXCEPT ![p] = {}]
    /\ Acknowledge(p)
    /\ UNCHANGED <<request, rows, people, disk, doomed, tasks, hook, startup,
                   history, crashes>>

\* Non-fatal for a hook; a failed task is acked as well.
PutFails(p, a) ==
    /\ Faults /\ a \in upload[p]
    /\ upload' = [upload EXCEPT ![p] = {}]
    /\ Acknowledge(p)
    /\ UNCHANGED <<request, rows, people, disk, doomed, bucket, tasks, hook,
                   startup, history, crashes>>

\* Fault: the message was acknowledged when it was received.
WorkerLost_AcksEarly(w) ==
    /\ crashes < MaxCrashes /\ taken[w] # {}
    /\ crashes' = crashes + 1
    /\ taken' = [taken EXCEPT ![w] = {}]
    /\ upload' = [upload EXCEPT ![w] = {}]
    /\ UNCHANGED <<request, rows, people, disk, doomed, bucket, tasks, hook, startup, history>>

\* acks_late and reject_on_worker_lost: the message goes back to the queue.
WorkerLost(w) ==
    /\ crashes < MaxCrashes /\ taken[w] # {}
    /\ crashes' = crashes + 1
    /\ tasks' = tasks \cup taken[w]
    /\ taken' = [taken EXCEPT ![w] = {}]
    /\ upload' = [upload EXCEPT ![w] = {}]
    /\ UNCHANGED <<request, rows, people, disk, doomed, bucket, hook, startup, history>>

-----------------------------------------------------------------------------
(* Owners and deletion *)

\* PATCH /me checks the new name against the other users and writes it; no
\* archive is moved.
RenameUser(u, h) ==
    /\ \A v \in User : handle[v] # h
    /\ handle' = [handle EXCEPT ![u] = h]
    /\ UNCHANGED <<request, rows, orgs, disk, doomed, bucket, queue, hook,
                   upload, startup, history, crashes>>

\* Fault: the directory goes before the DELETE is committed.
DeleteRow_DiskFirst(r) ==
    /\ r \in rows
    /\ \A q \in Repo : InFlight(q) => r \notin meta[q].source
    /\ doomed' = doomed \cup {r}
    /\ UNCHANGED <<request, rows, people, disk, bucket, queue, hook, upload, startup,
                   history, crashes>>

\* delete_repository commits the DELETE first.  A fork in flight holds a lock
\* on its source's row.
DeleteRow(r) ==
    /\ r \in rows /\ Addressed(r)
    /\ \A q \in Repo : InFlight(q) => r \notin meta[q].source
    /\ rows' = rows \ {r}
    /\ doomed' = doomed \cup {r}
    /\ UNCHANGED <<request, people, disk, bucket, queue, hook, upload, startup,
                   history, crashes>>

\* Fault: directories are named after the repository instead of its id.
RemoveDirectory_ByName(r, ok) ==
    LET same == {q \in Repo : meta[q].owner = meta[r].owner /\ meta[q].name = meta[r].name}
    IN  /\ r \in doomed
        /\ doomed' = doomed \ {r}
        /\ dirs' = IF ok THEN dirs \ same ELSE dirs
        /\ tree' = IF ok THEN [p \in Path |-> IF p \in same THEN {} ELSE tree[p]] ELSE tree
        /\ UNCHANGED <<request, rows, people, bucket, queue, hook, upload,
                       startup, history, crashes>>

\* shutil.rmtree, or a failure that is logged and swallowed.  The archive stays.
RemoveDirectory(r, ok) ==
    /\ r \in doomed
    /\ doomed' = doomed \ {r}
    /\ dirs' = IF ok THEN dirs \ {r} ELSE dirs
    /\ tree' = IF ok THEN [tree EXCEPT ![r] = {}] ELSE tree
    /\ UNCHANGED <<request, rows, people, bucket, queue, hook, upload,
                   startup, history, crashes>>

\* DELETE /orgs/{org}: the rows go with it by ON DELETE CASCADE, the
\* directories do not.
DeleteOrg(o) ==
    /\ o \in orgs
    /\ \A q \in Repo : InFlight(q) =>
          meta[q].owner # o /\ \A s \in meta[q].source : meta[s].owner # o
    /\ orgs' = orgs \ {o}
    /\ rows' = {r \in rows : meta[r].owner # o}
    /\ UNCHANGED <<request, handle, disk, doomed, bucket, queue, hook, upload,
                   startup, history, crashes>>

-----------------------------------------------------------------------------
(* Restart: main.lifespan and _restore_repos_on_startup *)

\* Everything the process held is gone: open transactions, directories still
\* to remove, post-push work.  The startup task then reads all rows, or fails
\* to and gives up.
Restart(listed) ==
    /\ crashes < MaxCrashes
    /\ crashes' = crashes + 1
    /\ listed = rows \/ (Faults /\ listed = {})
    /\ pc' = [r \in Repo |-> IF pc[r] = "unused" THEN "unused" ELSE "settled"]
    /\ doomed' = {}
    /\ hook' = [t \in Thread |-> {}]
    /\ upload' = [p \in Thread \cup Worker |-> IF p \in Worker THEN upload[p] ELSE {}]
    /\ dirs' = IF EphemeralDisk THEN {} ELSE dirs
    /\ tree' = IF EphemeralDisk THEN [p \in Path |-> {}] ELSE tree
    /\ todo' = listed
    /\ restoring' = {}
    /\ UNCHANGED <<meta, together, rows, people, bucket, queue, history>>

\* Fault: the existence check is missing.
StartupSkip_Unchecked(r) ==
    /\ r \in todo /\ restoring = {}
    /\ todo' = todo \ {r}
    /\ UNCHANGED <<request, rows, people, disk, doomed, bucket, queue, hook,
                   upload, restoring, history, crashes>>

StartupSkip(r) ==
    /\ r \in todo /\ restoring = {} /\ r \in dirs
    /\ todo' = todo \ {r}
    /\ UNCHANGED <<request, rows, people, disk, doomed, bucket, queue, hook,
                   upload, restoring, history, crashes>>

OwnerExists(r) == meta[r].owner \in User \cup orgs

\* No owner, or an error anywhere in the iteration: the repository is skipped
\* until the next start.
StartupGiveUp(r) ==
    /\ r \in todo /\ restoring = {} /\ r \notin dirs
    /\ Faults \/ ~OwnerExists(r)
    /\ todo' = todo \ {r}
    /\ UNCHANGED <<request, rows, people, disk, doomed, bucket, queue, hook,
                   upload, restoring, history, crashes>>

\* repo_backup_exists answers False for every ClientError of head_object.
StartupProbe(r, found) ==
    /\ r \in todo /\ restoring = {} /\ r \notin dirs
    /\ OwnerExists(r)
    /\ found = (Stored(KeyNow(r)) # {}) \/ (Faults /\ ~found)
    /\ todo' = todo \ {r}
    /\ restoring' = {[repo |-> r, key |-> KeyNow(r), found |-> found]}
    /\ claims' = [claims EXCEPT ![r] = @ \cup {KeyNow(r)}]
    /\ UNCHANGED <<request, rows, people, disk, doomed, bucket, queue, hook,
                   upload, acked, minted, crashes>>

\* restore_repo extracts over whatever GIT_REPOS_ROOT/<arcname> holds; then
\* GIT_REPOS_ROOT/<name> is renamed to the repository's path if it exists.
StartupRestore(i, a) ==
    LET n == meta[i.repo].name
        extracted == dirs \cup {a.arcname}
        content == [tree EXCEPT ![a.arcname] =
                       (IF a.arcname \in dirs THEN @ ELSE {}) \cup a.commits]
        moves == n \in extracted /\ i.repo \notin dirs
    IN  /\ i \in restoring /\ i.found
        /\ a \in Stored(i.key)
        /\ restoring' = {}
        /\ dirs' = IF moves THEN (extracted \ {n}) \cup {i.repo} ELSE extracted
        /\ tree' = IF moves THEN [content EXCEPT ![i.repo] = content[n], ![n] = {}]
                            ELSE content
        /\ UNCHANGED <<request, rows, people, doomed, bucket, queue, hook,
                       upload, todo, history, crashes>>

\* The download or the extraction failed: logged, next repository.
StartupRestoreFails(i) ==
    /\ Faults
    /\ i \in restoring /\ i.found
    /\ restoring' = {}
    /\ UNCHANGED <<request, rows, people, disk, doomed, bucket, queue, hook,
                   upload, todo, history, crashes>>

StartupReinit(i) ==
    /\ i \in restoring /\ ~i.found
    /\ restoring' = {}
    /\ dirs' = dirs \cup {i.repo}
    /\ tree' = [tree EXCEPT ![i.repo] = IF i.repo \in dirs THEN @ ELSE {}]
    /\ UNCHANGED <<request, rows, people, doomed, bucket, queue, hook, upload,
                   todo, history, crashes>>

-----------------------------------------------------------------------------
(* Next-state relation and specifications *)

MakeRepository(r) ==
    \/ \E u \in User, o \in Owner, n \in Name : CreateFlush(r, u, o, n)
    \/ \E u \in User, o \in Owner, s \in Repo : ForkFlush(r, u, o, s)
    \/ InitBare(r, {}) \/ \E c \in Commit : InitBare(r, {c})
    \/ CloneBare(r)
    \/ \E left \in SUBSET {r} : DiskStepFails(r, left)
    \/ CommitRow(r)
    \/ CommitFails(r)
    \/ \E sent \in BOOLEAN : QueueBackup(r, sent)

WriteCommit(r) ==
    \E c \in Commit : WebCommit(r, c) \/ \E t \in Thread : Push(r, c, t)

HookStep(t) == \E r \in Repo : HookPack(t, r)

WorkerStep(w) ==
    \/ \E k \in tasks : WorkerTake(w, k)
    \/ \E k \in taken[w] : WorkerPack(w, k) \/ WorkerFindsNoDirectory(w, k)

UploadStep(p) == \E a \in upload[p] : PutObject(p, a) \/ PutFails(p, a)

DropRepository(r) == DeleteRow(r) \/ \E ok \in BOOLEAN : RemoveDirectory(r, ok)

StartupStep ==
    \/ \E r \in todo : StartupSkip(r) \/ StartupGiveUp(r)
                         \/ \E found \in BOOLEAN : StartupProbe(r, found)
    \/ \E i \in restoring : \/ \E a \in bucket : StartupRestore(i, a)
                            \/ StartupRestoreFails(i)
                            \/ StartupReinit(i)

Next ==
    \/ \E r \in Repo : MakeRepository(r) \/ WriteCommit(r) \/ DropRepository(r)
    \/ \E u \in User, h \in Handle : RenameUser(u, h)
    \/ \E o \in Org : DeleteOrg(o)
    \/ \E t \in Thread : HookStep(t)
    \/ \E w \in Worker : WorkerStep(w) \/ WorkerLost(w)
    \/ \E p \in Thread \cup Worker : UploadStep(p)
    \/ \E listed \in {rows, {}} : Restart(listed)
    \/ StartupStep

Spec == Init /\ [][Next]_vars

\* The event loop keeps running the startup task, a worker keeps consuming its
\* queue, and an upload that has begun ends.
FairSpec ==
    /\ Spec
    /\ WF_vars(StartupStep)
    /\ \A w \in Worker : WF_vars(WorkerStep(w))
    /\ \A p \in Thread \cup Worker : WF_vars(UploadStep(p))

-----------------------------------------------------------------------------
(* Properties *)

\* models/repo.py:38-39: "Partial unique indexes (owner + name) are added by hand
\* in the migration": two repositories of one owner never share a name, and the
\* lookup by owner and name finds at most one row.
OneRowPerName == \A r \in rows : Addressed(r)

\* With that index they never do, however creations and forks of different
\* clients interleave: the pre-check reads committed rows only and the index
\* closes the gap.  Without it, as the head migration leaves the schema, two rows
\* share a name only where both requests were in flight together: neither a
\* deletion, a restart nor a fork lets a later request past the check.
UniqueNames ==
    \A r, q \in rows :
        meta[r].owner = meta[q].owner /\ meta[r].name = meta[q].name =>
            r = q \/ (~NameIndexed /\ {r, q} \in together)

\* On a volume that survives restarts every committed row has its directory:
\* the row is committed after the disk step and deleted before the directory.
RowsHaveStorage == ~EphemeralDisk => rows \subseteq dirs

\* On such a volume no restart, restore or concurrent deletion takes away a
\* commit that a push, an upload, a merge or a fork has acknowledged.
AcknowledgedCommitsKept ==
    ~EphemeralDisk => \A r \in rows : acked[r] \subseteq tree[r]

\* After a wipe, the startup loop has every missing repository still ahead of
\* it or under way: none is left without a directory once it is through.
SlugsDistinct == \A m, n \in Name : Slug[m] = Slug[n] => m = n
StartupCoversMissing ==
    ~Faults /\ SlugsDistinct =>
        \A r \in rows \ dirs : r \in todo \/ \E i \in restoring : i.repo = r

\* A repository that shares its archive key with no other one, now or before,
\* holds after any number of restores only commits its own clients know of; and
\* so does its archive, with nothing from a transaction that never committed.
KeyOwnedBy(r) == \A q \in Repo \ {r} : claims[q] \cap claims[r] = {}
NoForeignCommits ==
    SlugsDistinct =>
        /\ \A r \in rows \cap dirs : KeyOwnedBy(r) => tree[r] \subseteq acked[r]
        /\ \A a \in bucket : KeyOwnedBy(a.from) => a.commits \subseteq acked[a.from]

\* The first backup a creation queues reaches B2, also when workers are lost
\* on the way, unless the repository is deleted meanwhile.
QueuedBackupArrives ==
    \A r \in Repo :
        (\E k \in tasks : k.repo = r) ~> (r \notin rows \/ \E a \in bucket : a.from = r)

-----------------------------------------------------------------------------
(* The service the clients are promised, and a statement of a comment *)

\* On a volume that survives restarts the rows and their directories implement
\* HostedRepos: crashes, failures halfway through a request, restores at
\* startup and backups are invisible to the clients.
Hosted == INSTANCE HostedRepos WITH content <- [r \in rows |-> tree[r]]
ImplementsHostedRepos == Hosted!Spec

\* main.py:55: a missing repository is restored "from B2 if a backup exists".
RestoredIfBackedUp ==
    [][\A i \in restoring : StartupReinit(i) => \A a \in bucket : a.from # i.repo]_vars

=============================================================================
