------------------------------- MODULE Pushes -------------------------------
(***************************************************************************)
(* Pushes over smart HTTP to one repository, the hook that follows each,   *)
(* and the cached branch rows it keeps.  The hook runs in a thread of the  *)
(* API process after the answer to the client: hooks of several pushes     *)
(* overlap, and a restart loses them.  Files uploaded in the browser move  *)
(* a branch too and have no hook.                                          *)
(*                                                                         *)
(* Source: backend/app/api/v1/git.py, backend/app/git_engine/writer.py,    *)
(* backend/app/worker/tasks/git_tasks.py (post_receive_hook, called as a   *)
(* function), backend/app/api/v1/repos.py (upload_files).                  *)
(***************************************************************************)
EXTENDS Permissions, SequencesExt

CONSTANTS
  Branch, Tag,      \* names under refs/heads and refs/tags
  HeadBranch,       \* the branch HEAD names, default_branch of the row
  PagesBranch,      \* the source branch of the enabled Pages configuration
  Command,          \* what one push may ask for: functions from refs to kinds
  NewFile,          \* the path of the file each commit adds, a sequence of names
  PushSlots,        \* pushes and uploads under way at once
  MaxPushEvents,    \* bound: pushes, uploads, restarts, the deletion
  MaxTips           \* bound: commits

Ref == ({"heads"} \X Branch) \cup ({"tags"} \X Tag)
BranchRef(b) == <<"heads", b>>
CommitId == 1..MaxTips
Path == {NewFile[c] : c \in CommitId}

\* A push makes a commit for one ref at most; a commit for each of several refs
\* is several pushes.
Makes(kind) == kind \in {"commit", "force"}

ASSUME PushesAssumption ==
  /\ HeadBranch \in Branch
  /\ \A cmd \in Command :
        /\ DOMAIN cmd \subseteq Ref
        /\ \A r \in DOMAIN cmd : Makes(cmd[r]) \/ cmd[r] \in {"delete", "mark"}
        /\ \A r, s \in DOMAIN cmd : Makes(cmd[r]) /\ Makes(cmd[s]) => r = s
  /\ MaxTips \in Nat /\ MaxPushEvents \in Nat
  /\ \A c \in CommitId : Len(NewFile[c]) > 0

VARIABLES
  tips,        \* the commit each ref names, 0 where there is no ref
  lineage,     \* each commit and what it descends from, newest first
  contents,    \* the files of each commit
  grown,       \* commits made
  present,     \* the directory of the repository is there
  hosted,      \* the row of the repository is there
  archived,    \* the refs in its latest archive
  cache,       \* table branches: last_commit_sha of each row, NoRow without one
  drift,       \* branches whose row the code does not promise to be current
  pushing,     \* the pushes and uploads under way, to the end of their hooks
  told,        \* what the webhooks were told: refs and commits
  deploys,     \* commits whose push queued a Pages build
  pushed       \* pushes, uploads, restarts and deletions so far

gitVars == <<tips, lineage, contents, grown>>
diskVars == <<present, hosted, archived>>
pushVars == <<gitVars, diskVars, cache, drift, pushing, told, deploys, pushed>>

NoRow == MaxTips + 1
NoUpdate == [r \in {} |-> 0]
NoPush == [step |-> "idle", seen |-> [r \in Ref |-> 0], updates |-> NoUpdate, had |-> {},
           skipped |-> {}, alone |-> {}]

\* Whose hook has still to write its rows.
InFlight(q) == pushing[q].step \in {"hooked", "selected"}
Moved(updates) == {b \in Branch : BranchRef(b) \in DOMAIN updates}

PushesInit ==
  /\ tips = [r \in Ref |-> 0] /\ grown = 0
  /\ lineage = [c \in CommitId |-> <<>>] /\ contents = [c \in CommitId |-> {}]
  /\ present = TRUE /\ hosted = TRUE /\ archived = tips
  /\ cache = [b \in Branch |-> NoRow] /\ drift = {}
  /\ pushing = [q \in PushSlots |-> NoPush] /\ told = {} /\ deploys = {}
  /\ pushed = 0

Begins(q, push) ==
  /\ pushing[q].step = "idle" /\ \A r \in PushSlots : r < q => pushing[r].step # "idle"
  /\ pushed < MaxPushEvents
  /\ pushing' = [pushing EXCEPT ![q] = push]
  /\ pushed' = pushed + 1
Continues(q, step) == pushing' = [pushing EXCEPT ![q].step = step]

\* _insert_blob: a file in the place of a directory replaces what is in it,
\* a directory in the place of a file replaces the file.
InsertBlob(files, path) ==
  {p \in files : ~IsPrefix(p, path) /\ ~IsPrefix(path, p)} \cup {path}

FilesOf(c) == IF c = 0 THEN {} ELSE contents[c]

\* The commit `grown + 1`, made from `parent` (0: a root): its files and one more.
Commits(parent) ==
  /\ grown < MaxTips /\ grown' = grown + 1
  /\ lineage' = [lineage EXCEPT ![grown + 1] =
                    <<grown + 1>> \o (IF parent = 0 THEN <<>> ELSE lineage[parent])]
  /\ contents' = [contents EXCEPT ![grown + 1] =
                    InsertBlob(FilesOf(parent), NewFile[grown + 1])]

(***************************************************************************)
(* info/refs and git-receive-pack.  Each request resolves the row, asks    *)
(* for WRITE and needs the directory; git changes a ref only when it still *)
(* names what the client was shown, and ends well when it refuses one.     *)
(***************************************************************************)
\* _resolve_and_check: 404, 401 or 403 otherwise.
ResolveAndCheck(u, level) == hosted /\ Permitted(u, level)

\* git http-backend has a directory to work on; 503 otherwise.
Backend == present

InfoRefs(q, u) ==
  /\ ResolveAndCheck(u, "write") /\ Backend
  /\ Begins(q, [NoPush EXCEPT !.step = "advertised", !.seen = tips])
  /\ UNCHANGED <<gitVars, diskVars, cache, drift, told, deploys>>

\* What parse_receive_pack_output makes of the output.  Without lines it
\* understands the push is not seen to have changed anything.
ParsedUpdates(updates, reported) == IF reported THEN updates ELSE NoUpdate

ReceivePack(q, cmd, reported) ==
  LET shown == pushing[q].seen
      done == {r \in DOMAIN cmd : tips[r] = shown[r]}
      updates == [r \in done |-> CASE cmd[r] = "delete" -> 0
                                   [] cmd[r] = "mark"   -> shown[BranchRef(HeadBranch)]
                                   [] OTHER             -> grown + 1]
      alone == {b \in Moved(updates) :
                  \A o \in PushSlots \ {q} : InFlight(o) => b \notin Moved(pushing[o].updates)}
      parent == CHOOSE c \in 0..MaxTips :
                  \A r \in DOMAIN cmd : Makes(cmd[r]) => c = IF cmd[r] = "commit" THEN shown[r] ELSE 0
  IN
  /\ pushing[q].step = "advertised" /\ hosted /\ Backend
  /\ \A r \in DOMAIN cmd : /\ cmd[r] = "delete" => shown[r] # 0
                           /\ cmd[r] = "mark" => shown[BranchRef(HeadBranch)] # 0
  /\ IF \E r \in DOMAIN cmd : Makes(cmd[r])
     THEN Commits(parent)
     ELSE UNCHANGED <<lineage, contents, grown>>
  /\ tips' = [r \in Ref |-> IF r \in done THEN updates[r] ELSE tips[r]]
  /\ pushing' = [o \in PushSlots |->
        IF o # q THEN [pushing[o] EXCEPT !.alone = @ \ Moved(updates)]
        ELSE [NoPush EXCEPT !.step = "hooked",
                 !.updates = ParsedUpdates(updates, reported),
                 !.alone = IF reported THEN alone ELSE {}]]
  /\ drift' = drift \cup (IF reported THEN Moved(updates) \ alone ELSE Moved(updates))
  /\ UNCHANGED <<diskVars, cache, told, deploys, pushed>>

\* The row or the directory is gone, or git ends with an error: no hook.
RefusePush(q) ==
  /\ pushing[q].step = "advertised"
  /\ pushing' = [pushing EXCEPT ![q] = NoPush]
  /\ UNCHANGED <<gitVars, diskVars, cache, drift, told, deploys, pushed>>

(***************************************************************************)
(* post_receive_hook, in the executor.                                     *)
(***************************************************************************)
\* get_commit_detail
Readable(c) == present /\ c \in 1..grown

\* sync_branch_cache_from_refs, for branches only and leaving out a tip that
\* cannot be read; then the rows are selected.  Without the row of the
\* repository the hook is over, and its Pages configuration went with it.
SyncBranchCache(q) ==
  LET updates == pushing[q].updates
      lost == {b \in Moved(updates) : updates[BranchRef(b)] # 0 /\ ~Readable(updates[BranchRef(b)])}
  IN
  /\ pushing[q].step = "hooked"
  /\ pushing' = [pushing EXCEPT ![q] =
        IF hosted THEN [@ EXCEPT !.step = "selected", !.had = {b \in Branch : cache[b] # NoRow},
                                 !.skipped = lost]
        ELSE NoPush]
  /\ drift' = drift \cup lost
  /\ UNCHANGED <<gitVars, diskVars, cache, told, deploys, pushed>>

ToSync(q) == Moved(pushing[q].updates) \ pushing[q].skipped

\* A row that appeared since breaks uq_branch_per_repo, one that went away
\* makes the update match nothing: the transaction fails as a whole.
Conflicting(q) ==
  \/ ~hosted
  \/ \E b \in ToSync(q) :
        /\ pushing[q].updates[BranchRef(b)] # 0
        /\ (b \in pushing[q].had) # (cache[b] # NoRow)

\* Fault: rows of deleted branches stay.
CommitRows_KeepsDeleted(q) ==
  LET updates == pushing[q].updates IN
  /\ pushing[q].step = "selected" /\ ~Conflicting(q)
  /\ cache' = [b \in Branch |->
        IF b \in ToSync(q) /\ updates[BranchRef(b)] # 0 THEN updates[BranchRef(b)] ELSE cache[b]]
  /\ drift' = drift \ (pushing[q].alone \cap ToSync(q))
  /\ Continues(q, "committed")
  /\ UNCHANGED <<gitVars, diskVars, told, deploys, pushed>>

CommitRows(q) ==
  LET updates == pushing[q].updates IN
  /\ pushing[q].step = "selected" /\ ~Conflicting(q)
  /\ cache' = [b \in Branch |->
        IF b \notin ToSync(q) THEN cache[b]
        ELSE IF updates[BranchRef(b)] = 0 THEN NoRow ELSE updates[BranchRef(b)]]
  /\ drift' = drift \ (pushing[q].alone \cap ToSync(q))
  /\ Continues(q, "committed")
  /\ UNCHANGED <<gitVars, diskVars, told, deploys, pushed>>

\* Any error of the database; retry only raises it again, the caller logs it.
HookFails(q) ==
  /\ pushing[q].step = "selected"
  /\ drift' = drift \cup Moved(pushing[q].updates)
  /\ Continues(q, "over")
  /\ UNCHANGED <<gitVars, diskVars, cache, told, deploys, pushed>>

WebhookPayload(updates) == {<<r, updates[r]>> : r \in DOMAIN updates}

\* The active webhooks are told, whatever each of them answers; a backup that
\* fails is only logged.
DeliverAndBackUp(q, works) ==
  /\ pushing[q].step = "committed"
  /\ told' = told \cup WebhookPayload(pushing[q].updates)
  /\ archived' = IF works /\ hosted /\ present THEN tips ELSE archived
  /\ Continues(q, "over")
  /\ UNCHANGED <<gitVars, present, hosted, cache, drift, deploys, pushed>>

\* The rest of _fire_post_receive_hook: it runs after a failed hook as well.
DeployPages(q) ==
  LET updates == pushing[q].updates IN
  /\ pushing[q].step = "over"
  /\ deploys' = IF hosted /\ PagesBranch \in Moved(updates) /\ updates[BranchRef(PagesBranch)] # 0
                THEN deploys \cup {updates[BranchRef(PagesBranch)]} ELSE deploys
  /\ pushing' = [pushing EXCEPT ![q] = NoPush]
  /\ UNCHANGED <<gitVars, diskVars, cache, drift, told, pushed>>

(***************************************************************************)
(* upload_files, for administrators: the parent is looked up, then libgit2 *)
(* writes the commit and refuses a branch that has another tip by then.    *)
(***************************************************************************)
ReadParent(q, u, b) ==
  LET parent == IF tips[BranchRef(b)] # 0 THEN tips[BranchRef(b)] ELSE tips[BranchRef(HeadBranch)] IN
  /\ ResolveAndCheck(u, "admin") /\ present
  /\ Begins(q, [NoPush EXCEPT !.step = "uploading", !.updates = [r \in {BranchRef(b)} |-> parent]])
  /\ UNCHANGED <<gitVars, diskVars, cache, drift, told, deploys>>

CreateCommit(q, b) ==
  LET parent == pushing[q].updates[BranchRef(b)] IN
  /\ pushing[q].step = "uploading" /\ Moved(pushing[q].updates) = {b}
  /\ pushing' = [o \in PushSlots |->
        IF o = q THEN NoPush ELSE [pushing[o] EXCEPT !.alone = @ \ {b}]]
  /\ IF ~present \/ tips[BranchRef(b)] \notin {0, parent}
     THEN UNCHANGED <<gitVars, drift>>
     ELSE /\ Commits(parent)
          /\ tips' = [tips EXCEPT ![BranchRef(b)] = grown + 1]
          /\ drift' = drift \cup {b}
  /\ UNCHANGED <<diskVars, cache, told, deploys, pushed>>

(***************************************************************************)
(* The API starts again on an empty disk and restores the archive; the     *)
(* repository is deleted.  Both are modelled in full by RepoStorage.       *)
(***************************************************************************)
Redeploy ==
  /\ present /\ pushed < MaxPushEvents /\ pushed' = pushed + 1
  /\ present' = FALSE
  /\ pushing' = [q \in PushSlots |-> NoPush]
  /\ drift' = drift \cup UNION {Moved(pushing[q].updates) : q \in {o \in PushSlots : InFlight(o)}}
  /\ UNCHANGED <<gitVars, hosted, archived, cache, told, deploys>>

RestoreRefs ==
  /\ ~present /\ hosted
  /\ present' = TRUE /\ tips' = archived
  /\ drift' = drift \cup {b \in Branch : tips[BranchRef(b)] # archived[BranchRef(b)]}
  /\ UNCHANGED <<lineage, contents, grown, hosted, archived, cache, pushing, told, deploys,
                 pushed>>

Unhost ==
  /\ hosted /\ pushed < MaxPushEvents /\ pushed' = pushed + 1
  /\ hosted' = FALSE /\ present' = FALSE
  /\ cache' = [b \in Branch |-> NoRow]
  /\ UNCHANGED <<gitVars, archived, drift, pushing, told, deploys>>

-----------------------------------------------------------------------------
\* `Reports`: whether the output of a push can be understood.
GitMoves(q, Reports) ==
  \/ \E u \in Actor : InfoRefs(q, u)
  \/ \E cmd \in Command, reported \in Reports : ReceivePack(q, cmd, reported)
  \/ RefusePush(q)
  \/ \E u \in Actor, b \in Branch : ReadParent(q, u, b)
  \/ \E b \in Branch : CreateCommit(q, b)

PushesNext ==
  \/ \E q \in PushSlots :
       \/ GitMoves(q, BOOLEAN)
       \/ SyncBranchCache(q) \/ CommitRows(q) \/ HookFails(q) \/ DeployPages(q)
       \/ \E works \in BOOLEAN : DeliverAndBackUp(q, works)
  \/ Redeploy \/ RestoreRefs \/ Unhost

-----------------------------------------------------------------------------
PushesTypeOK ==
  /\ tips \in [Ref -> 0..MaxTips] /\ archived \in [Ref -> 0..MaxTips] /\ grown \in 0..MaxTips
  /\ \A c \in CommitId : contents[c] \subseteq Path /\ Len(lineage[c]) <= c
  /\ cache \in [Branch -> 1..NoRow] /\ drift \subseteq Branch
  /\ present => hosted
  /\ \A q \in PushSlots : pushing[q].had \subseteq Branch /\ pushing[q].alone \subseteq Branch

\* Once the hooks of a branch are through, its cached row names the commit the
\* branch has, or is gone with it: unless its last moves overlapped, reported
\* nothing, lost their hook, or had none: commits from the browser, archives
\* restored, and merges, which are in PullRequests and move the target the way
\* a commit from the browser does.  The next push that comes alone makes up for
\* any of these.
CalmCacheCurrent ==
  hosted =>
    \A b \in Branch \ drift :
      (\A q \in PushSlots : InFlight(q) => b \notin Moved(pushing[q].updates)) =>
        cache[b] = IF tips[BranchRef(b)] = 0 THEN NoRow ELSE tips[BranchRef(b)]
=============================================================================
