------------------------------- MODULE Pages -------------------------------
(***************************************************************************)
(* PandaHub Pages: the static site of one repository.  API requests edit   *)
(* the row of table repository_pages and queue build_pages_task; Celery    *)
(* workers read the row, resolve the source branch, upload its files to    *)
(* MinIO under pages/{owner}/{repo}/{sha}/ and point the row at that sha.  *)
(* Requests, builds and pushes interleave freely.                          *)
(***************************************************************************)
EXTENDS Naturals

CONSTANTS
    RowId,      \* primary keys of repository_pages rows (uuid4)
    Branch, Commit, Folder, Page,
    Tree,       \* the pages of each commit's folders; {}: no such folder
    Request,    \* API requests, one operation each
    Worker,     \* Celery processes that consume git_ops
    Faults,     \* which services may fail: the broker, MinIO, the git disk
    MaxLost     \* bound on worker processes lost in the middle of a build

ASSUME TreeAssumption == Tree \in [Commit -> [Folder -> SUBSET Page]]

ASSUME FaultsAssumption ==
    Faults \subseteq {"broker", "minio", "disk"} /\ MaxLost \in Nat

VARIABLES
    tip,       \* commit each branch points to, if the branch exists
    row,       \* the repository's row, if there is one
    bucket,    \* objects in MinIO
    queued,    \* build_pages_task messages waiting
    req,       \* the API requests
    build,     \* the build each worker is running
    lost,      \* worker processes lost so far
    heads,     \* history: commits each branch has pointed to
    sources,   \* history: branch and folder pairs each row has held
    current,   \* history: tips of the row's branch since its last request
    lossy,     \* history: commits a file of which failed to upload
    scrubbed,  \* history: commits whose files a request has deleted
    crossed    \* history: the last build to start found another under way,
               \* or a message was refused since it started

vars == <<tip, row, bucket, queued, req, build, lost,
          heads, sources, current, lossy, scrubbed, crossed>>

git     == <<tip, heads>>
notes   == <<sources, current>>
damages == <<lossy, scrubbed, crossed>>

-----------------------------------------------------------------------------
(* Types *)

AtMostOne(S) == {T \in SUBSET S : \A x, y \in T : x = y}

\* `sha` is published_sha.
Row == [id : RowId, branch : Branch, folder : Folder,
        status : {"pending", "building", "active", "failed"}, sha : AtMostOne(Commit)]

\* An object's key is its sha and page; `folder` tells which content it has.
Object == [sha : Commit, page : Page, folder : Folder]

\* `seen` is the row as the request loaded it, `branch` and `folder` what it
\* has changed of it, {} where it left them as they were.  Once the request has
\* committed, `seen` is the row it wrote.
Call == [phase : {"new", "loaded", "scrubbed", "committed", "done"},
         kind : {"save", "disable"},
         branch : AtMostOne(Branch), folder : AtMostOne(Folder), seen : AtMostOne(Row)]
NewCall  == [phase |-> "new", kind |-> "save", branch |-> {}, folder |-> {}, seen |-> {}]
DoneCall == [NewCall EXCEPT !.phase = "done"]

\* `seen` is the row as the task loaded it, `left` the pages still to upload.
Build == [step : {"loaded", "marked", "uploading"}, seen : Row,
          sha : AtMostOne(Commit), left : SUBSET Page]

TypeOK ==
    /\ tip \in [Branch -> AtMostOne(Commit)]
    /\ row \in AtMostOne(Row)
    /\ bucket \subseteq Object
    /\ queued \in Nat
    /\ req \in [Request -> Call]
    /\ build \in [Worker -> AtMostOne(Build)]
    /\ lost \in 0..MaxLost
    /\ heads \in [Branch -> SUBSET Commit]
    /\ sources \in [RowId -> SUBSET (Branch \X Folder)]
    /\ current \subseteq Commit
    /\ lossy \subseteq Commit /\ scrubbed \subseteq Commit /\ crossed \in BOOLEAN

Init ==
    /\ tip = [b \in Branch |-> {}] /\ heads = [b \in Branch |-> {}]
    /\ row = {} /\ bucket = {} /\ queued = 0
    /\ req = [q \in Request |-> NewCall]
    /\ build = [w \in Worker |-> {}]
    /\ lost = 0
    /\ sources = [i \in RowId |-> {}] /\ current = {}
    /\ lossy = {} /\ scrubbed = {} /\ crossed = FALSE

\* An UPDATE of a row loaded as `seen` finds its target.
Matches(seen) == \E r \in row : r.id = seen.id

-----------------------------------------------------------------------------
(* Pushes *)

Push(b, c) ==
    /\ \A a \in Branch : c \notin heads[a]
    /\ tip' = [tip EXCEPT ![b] = {c}]
    /\ heads' = [heads EXCEPT ![b] = @ \cup {c}]
    /\ current' = IF \E r \in row : r.branch = b THEN current \cup {c} ELSE current
    /\ UNCHANGED <<row, bucket, queued, req, build, lost, sources, damages>>

-----------------------------------------------------------------------------
(* Requests: pages_service.enable_pages, update_pages, trigger_rebuild,    *)
(* disable_pages                                                           *)

Refuse(q) ==
    /\ req' = [req EXCEPT ![q] = DoneCall]
    /\ UNCHANGED <<git, row, bucket, queued, build, lost, notes, damages>>

\* The request assigns to the row it loaded; an assignment of the value that is
\* already there is no change.
Load(q, kind, b, f) ==
    /\ req' = [req EXCEPT ![q] =
         [phase |-> "loaded", kind |-> kind, seen |-> row,
          branch |-> {x \in b : \A r \in row : r.branch # x},
          folder |-> {x \in f : \A r \in row : r.folder # x}]]
    /\ UNCHANGED <<git, row, bucket, queued, build, lost, notes, damages>>

\* enable_pages creates the row or updates the one it finds.
LoadEnable(q) ==
    /\ req[q].phase = "new"
    /\ \E b \in Branch, f \in Folder : Load(q, "save", {b}, {f})

\* A payload may give neither; trigger_rebuild never gives one.
LoadUpdate(q) ==
    /\ req[q].phase = "new"
    /\ IF row = {} THEN Refuse(q)
       ELSE \E b \in AtMostOne(Branch), f \in AtMostOne(Folder) : Load(q, "save", b, f)

LoadDisable(q) ==
    /\ req[q].phase = "new"
    /\ IF row = {} THEN Refuse(q) ELSE Load(q, "disable", {}, {})

\* What a committed row leaves for the properties to look back at.
Record(r) ==
    /\ row' = {r}
    /\ sources' = [sources EXCEPT ![r.id] = @ \cup {<<r.branch, r.folder>>}]
    /\ current' = tip[r.branch]

Commits(q) ==
    /\ req' = [req EXCEPT ![q].phase = "committed", ![q].seen = row']
    /\ UNCHANGED <<git, bucket, queued, build, lost, damages>>

\* Fault: a status no other step knows.
CommitInsert_UnknownStatus(q) ==
    /\ req[q].phase = "loaded" /\ req[q].kind = "save" /\ req[q].seen = {}
    /\ row = {}
    /\ \E i \in RowId, b \in req[q].branch, f \in req[q].folder :
         /\ sources[i] = {}
         /\ Record([id |-> i, branch |-> b, folder |-> f, status |-> "queued", sha |-> {}])
    /\ Commits(q)

CommitInsert(q) ==
    /\ req[q].phase = "loaded" /\ req[q].kind = "save" /\ req[q].seen = {}
    /\ row = {}
    /\ \E i \in RowId, b \in req[q].branch, f \in req[q].folder :
         /\ sources[i] = {}
         /\ Record([id |-> i, branch |-> b, folder |-> f, status |-> "pending", sha |-> {}])
    /\ Commits(q)

\* The UPDATE names the columns the request or task has changed, and no other.
Written(new, now) == IF new = {} THEN now ELSE CHOOSE x \in new : TRUE

CommitUpdate(q) ==
    /\ req[q].phase = "loaded" /\ req[q].kind = "save"
    /\ \E s \in req[q].seen, r \in row :
         /\ r.id = s.id
         /\ Record([r EXCEPT !.branch = Written(req[q].branch, @),
                             !.folder = Written(req[q].folder, @),
                             !.status = Written({"pending"} \ {s.status}, @)])
    /\ Commits(q)

\* The unique constraint refuses a second row; an UPDATE of a row that is gone
\* raises.  Nothing is queued.
CommitRefused(q) ==
    /\ req[q].phase = "loaded" /\ req[q].kind = "save"
    /\ \/ req[q].seen = {} /\ row # {}
       \/ \E s \in req[q].seen : ~Matches(s)
    /\ Refuse(q)

\* Fault: no message while a build is under way.
Enqueue_SkipsWhenBuilding(q) ==
    /\ req[q].phase = "committed"
    /\ queued' = IF \E w \in Worker : build[w] # {} THEN queued ELSE queued + 1
    /\ req' = [req EXCEPT ![q] = DoneCall]
    /\ UNCHANGED <<git, row, bucket, build, lost, notes, damages>>

Enqueue(q) ==
    /\ req[q].phase = "committed"
    /\ queued' = queued + 1
    /\ req' = [req EXCEPT ![q] = DoneCall]
    /\ UNCHANGED <<git, row, bucket, build, lost, notes, damages>>

\* _enqueue_build logs a broker that cannot be reached, and goes on.
EnqueueFails(q) ==
    /\ "broker" \in Faults
    /\ req[q].phase = "committed"
    /\ req' = [req EXCEPT ![q] = DoneCall]
    /\ crossed' = TRUE
    /\ UNCHANGED <<git, row, bucket, queued, build, lost, notes, lossy, scrubbed>>

\* _delete_build_artifacts, for the sha the request loaded.
Scrub(q) ==
    /\ req[q].phase = "loaded" /\ req[q].kind = "disable"
    /\ \E s \in req[q].seen :
         /\ bucket' = {o \in bucket : o.sha \notin s.sha}
         /\ scrubbed' = scrubbed \cup s.sha
    /\ req' = [req EXCEPT ![q].phase = "scrubbed"]
    /\ UNCHANGED <<git, row, queued, build, lost, notes, lossy, crossed>>

\* A failure of MinIO is logged, and the row is deleted all the same.
ScrubFails(q) ==
    /\ "minio" \in Faults
    /\ req[q].phase = "loaded" /\ req[q].kind = "disable"
    /\ req' = [req EXCEPT ![q].phase = "scrubbed"]
    /\ UNCHANGED <<git, row, bucket, queued, build, lost, notes, damages>>

DeleteRow(q) ==
    /\ req[q].phase = "scrubbed"
    /\ row' = {r \in row : \A s \in req[q].seen : r.id # s.id}
    /\ req' = [req EXCEPT ![q] = DoneCall]
    /\ UNCHANGED <<git, bucket, queued, build, lost, notes, damages>>

\* The row is gone when the request refreshes what it committed.
RefreshFails(q) ==
    /\ req[q].phase = "committed"
    /\ \A s \in req[q].seen : ~Matches(s)
    /\ Refuse(q)

RequestStep(q) ==
    \/ CommitInsert(q) \/ CommitUpdate(q) \/ CommitRefused(q)
    \/ RefreshFails(q) \/ Enqueue(q) \/ EnqueueFails(q)
    \/ Scrub(q) \/ ScrubFails(q) \/ DeleteRow(q)

-----------------------------------------------------------------------------
(* Builds: pages_tasks.build_pages_task *)

Building == \E w \in Worker : build[w] # {}

\* A message that finds no row is acknowledged and done.
TakeNothing(w) ==
    /\ build[w] = {} /\ queued > 0 /\ row = {}
    /\ queued' = queued - 1
    /\ UNCHANGED <<git, row, bucket, req, build, lost, notes, damages>>

Take(w) ==
    /\ build[w] = {} /\ queued > 0 /\ row # {}
    /\ queued' = queued - 1
    /\ build' = [build EXCEPT ![w] =
                    {[step |-> "loaded", seen |-> r, sha |-> {}, left |-> {}] : r \in row}]
    /\ crossed' = Building
    /\ UNCHANGED <<git, row, bucket, req, lost, notes, lossy, scrubbed>>

\* The row already said "building": no UPDATE, so a deleted row goes unnoticed.
MarkBuilding(w) ==
    \E b \in build[w] :
        /\ b.step = "loaded"
        /\ Matches(b.seen) \/ b.seen.status = "building"
        /\ row' = {IF r.id = b.seen.id
                   THEN [r EXCEPT !.status = Written({"building"} \ {b.seen.status}, @)]
                   ELSE r : r \in row}
        /\ build' = [build EXCEPT ![w] = {[b EXCEPT !.step = "marked"]}]
        /\ UNCHANGED <<git, bucket, queued, req, lost, notes, damages>>

Readable(b) == \E c \in tip[b.seen.branch] : Tree[c][b.seen.folder] # {}

Resolve(w) ==
    \E b \in build[w] :
        /\ b.step = "marked" /\ Readable(b)
        /\ build' = [build EXCEPT ![w] = {[b EXCEPT
             !.step = "uploading",
             !.sha = tip[b.seen.branch],
             !.left = UNION {Tree[c][b.seen.folder] : c \in tip[b.seen.branch]}]}]
        /\ UNCHANGED <<git, row, bucket, queued, req, lost, notes, damages>>

\* Fault: the handler forgets to mark the row.
BuildFails_Unmarked(w) ==
    \E b \in build[w] :
        /\ \/ b.step = "marked" /\ (~Readable(b) \/ "disk" \in Faults)
           \/ b.step = "uploading" /\ "disk" \in Faults
        /\ build' = [build EXCEPT ![w] = {}]
        /\ UNCHANGED <<git, row, bucket, queued, req, lost, notes, damages>>

\* The branch, the folder or the directory is missing.  The handler selects the
\* repository's row anew and marks whichever row it finds; Celery does not retry.
BuildFails(w) ==
    \E b \in build[w] :
        /\ \/ b.step = "marked" /\ (~Readable(b) \/ "disk" \in Faults)
           \/ b.step = "uploading" /\ "disk" \in Faults
        /\ row' = {[r EXCEPT !.status = "failed"] : r \in row}
        /\ build' = [build EXCEPT ![w] = {}]
        /\ UNCHANGED <<git, bucket, queued, req, lost, notes, damages>>

Put(w, p) ==
    \E b \in build[w] :
        /\ p \in b.left
        /\ bucket' = {o \in bucket : ~(o.sha \in b.sha /\ o.page = p)}
                     \cup {[sha |-> c, page |-> p, folder |-> b.seen.folder] : c \in b.sha}
        /\ build' = [build EXCEPT ![w] = {[b EXCEPT !.left = @ \ {p}]}]
        /\ UNCHANGED <<git, row, queued, req, lost, notes, damages>>

\* A file that cannot be uploaded is logged and skipped.
PutFails(w, p) ==
    /\ "minio" \in Faults
    /\ \E b \in build[w] :
        /\ p \in b.left
        /\ lossy' = lossy \cup b.sha
        /\ build' = [build EXCEPT ![w] = {[b EXCEPT !.left = @ \ {p}]}]
        /\ UNCHANGED <<git, row, bucket, queued, req, lost, notes, scrubbed, crossed>>

\* Fault: the row is looked up by repository when the build is through.
Publish_ByRepository(w) ==
    \E b \in build[w] :
        /\ b.step = "uploading" /\ b.left = {}
        /\ row' = {[r EXCEPT !.status = "active", !.sha = b.sha] : r \in row}
        /\ build' = [build EXCEPT ![w] = {}]
        /\ UNCHANGED <<git, bucket, queued, req, lost, notes, damages>>

\* Fault: the row is updated before the files are uploaded.
Publish_Early(w) ==
    \E b \in build[w] :
        /\ b.step = "uploading" /\ Matches(b.seen)
        /\ row' = {[r EXCEPT !.status = "active",
                             !.sha = IF b.seen.sha = b.sha THEN @ ELSE b.sha] : r \in row}
        /\ build' = [build EXCEPT ![w] = {}]
        /\ UNCHANGED <<git, bucket, queued, req, lost, notes, damages>>

\* published_sha is written where it differs from what the task loaded.
Publish(w) ==
    \E b \in build[w] :
        /\ b.step = "uploading" /\ b.left = {} /\ Matches(b.seen)
        /\ row' = {[r EXCEPT !.status = "active",
                             !.sha = IF b.seen.sha = b.sha THEN @ ELSE b.sha] : r \in row}
        /\ build' = [build EXCEPT ![w] = {}]
        /\ UNCHANGED <<git, bucket, queued, req, lost, notes, damages>>

\* The row the task loaded is gone: its UPDATE raises, the session refuses
\* further statements, and the task ends without a trace.
RowGone(w) ==
    \E b \in build[w] :
        /\ ~Matches(b.seen)
        /\ \/ b.step = "loaded" /\ b.seen.status # "building"
           \/ b.step = "uploading" /\ b.left = {}
        /\ build' = [build EXCEPT ![w] = {}]
        /\ UNCHANGED <<git, row, bucket, queued, req, lost, notes, damages>>

\* Fault: the message is acknowledged when it is taken.
WorkerLost_AcksEarly(w) ==
    /\ build[w] # {} /\ lost < MaxLost
    /\ lost' = lost + 1
    /\ build' = [build EXCEPT ![w] = {}]
    /\ UNCHANGED <<git, row, bucket, queued, req, notes, damages>>

\* acks_late and reject_on_worker_lost: the message goes back to the queue.
WorkerLost(w) ==
    /\ build[w] # {} /\ lost < MaxLost
    /\ lost' = lost + 1
    /\ build' = [build EXCEPT ![w] = {}]
    /\ queued' = queued + 1
    /\ UNCHANGED <<git, row, bucket, req, notes, damages>>

WorkerStep(w) ==
    \/ TakeNothing(w) \/ Take(w) \/ MarkBuilding(w) \/ Resolve(w) \/ BuildFails(w)
    \/ \E p \in Page : Put(w, p) \/ PutFails(w, p)
    \/ Publish(w) \/ RowGone(w)

-----------------------------------------------------------------------------

Next ==
    \/ \E b \in Branch, c \in Commit : Push(b, c)
    \/ \E q \in Request :
         LoadEnable(q) \/ LoadUpdate(q) \/ LoadDisable(q) \/ RequestStep(q)
    \/ \E w \in Worker : WorkerStep(w) \/ WorkerLost(w)

Spec == Init /\ [][Next]_vars

\* A request that was loaded runs to its end; a worker keeps consuming.
FairSpec ==
    /\ Spec
    /\ \A q \in Request : WF_vars(RequestStep(q))
    /\ \A w \in Worker : WF_vars(WorkerStep(w))


-----------------------------------------------------------------------------
(* Properties *)

Queueing == \E q \in Request : req[q].phase = "committed"
Quiet    == queued = 0 /\ ~Queueing /\ ~Building

\* What serve_pages answers with: nothing unless the row says "active".
Served == {o \in bucket : \E r \in row : r.status = "active" /\ o.sha \in r.sha}

\* A row never waits for nothing: while it says "pending" or "building" a
\* message is queued or about to be, or a worker is building this very row.
\* The commit of the status comes before the message, lost workers give their
\* message back, and every end of a build settles the row it loaded.
UnsettledHasBuild ==
    "broker" \notin Faults =>
        \A r \in row : r.status \in {"pending", "building"} =>
            \/ queued > 0 \/ Queueing
            \/ \E w \in Worker : \E b \in build[w] : b.seen.id = r.id

\* A site shows a commit of a branch this very row has named.  A build that
\* outlives the row it loaded publishes nothing to the row that replaced it.
PublishedFromOwnConfig ==
    \A r \in row : \A c \in r.sha : \E s \in sources[r.id] : c \in heads[s[1]]

\* An active site has every file of a folder it was configured with, whatever
\* the builds that shared its prefix did, unless an upload failed or a request
\* deleted files of that commit.
PublishedPagesStored ==
    \A r \in row : \A c \in r.sha \ (lossy \cup scrubbed) :
        \E s \in sources[r.id] :
            /\ Tree[c][s[2]] # {}
            /\ \A p \in Tree[c][s[2]] : \E o \in bucket : o.sha = c /\ o.page = p

\* Once everything has run its course an active site shows a commit its branch
\* has pointed to since the last accepted request, whatever requests, pushes and
\* lost workers overlapped the last build, unless that build overlapped another
\* (nothing tells the newer one) or a request's message was refused meanwhile.
\* The next build that runs by itself makes up for both.
SettledIsCurrent ==
    Quiet /\ ~crossed => \A r \in row : r.status = "active" => r.sha \subseteq current

\* A row that was put to "pending" reaches "active" or "failed", or is deleted,
\* although workers are lost in the middle of builds.
SiteSettles ==
    (\E r \in row : r.status \in {"pending", "building"})
        ~> (\A r \in row : r.status \in {"active", "failed"})

-----------------------------------------------------------------------------
(* Statements of the comments *)

\* pages_service.py:164: "Disable Pages and delete all published artifacts".
DisableRemovesArtifacts ==
    [][\A q \in Request :
          Scrub(q) /\ Quiet /\ row = req[q].seen => bucket' = {}]_vars

=============================================================================
