----------------------- MODULE RepoStorageRefinement -----------------------
(***************************************************************************)
(* On a disk that survives restarts, RepoStorage implements HostedRepos.   *)
(***************************************************************************)
EXTENDS RepoStorageProofs

-----------------------------------------------------------------------------
(* Where the commits of a request in flight come from *)

Live(r) == r \in rows \/ pc[r] = "inited"
IsFork(r) == meta[r].source # {}

LiveTreesMinted == \A r \in Repo : Live(r) => tree[r] \subseteq minted

\* A creation that has written its root commit shares it with nobody.
FreshContent ==
    \A r, q \in Repo :
        pc[r] = "inited" /\ ~IsFork(r) /\ Live(q) /\ q # r => tree[r] \cap tree[q] = {}

\* The source of a fork in flight is a committed row: its row is locked.
ForkHasSource ==
    \A r \in Repo :
        InFlight(r) /\ IsFork(r) =>
            \E s \in rows : /\ meta[r].source = {s}
                            /\ pc[r] = "inited" => tree[r] \subseteq tree[s]

Provenance == LiveTreesMinted /\ FreshContent /\ ForkHasSource

RInv == IInv /\ Provenance

\* The variables Provenance reads.
provenance == <<pc, meta, rows, tree, minted>>

hosted == [r \in rows |-> tree[r]]

LEMMA InitProvenance == Init => Provenance
BY DEF Init, Provenance, LiveTreesMinted, FreshContent, ForkHasSource, Live, IsFork, InFlight

LEMMA QuietProvenance == Provenance /\ UNCHANGED provenance => Provenance'
BY DEF provenance, Provenance, LiveTreesMinted, FreshContent, ForkHasSource, Live, IsFork,
       InFlight

LEMMA MakeRepositoryProvenance ==
    ASSUME RInv, NEW r \in Repo, MakeRepository(r)
    PROVE  Provenance'
<1> USE DEF RInv, IInv, Placement, Provenance
<1> /\ pc \in [Repo -> {"unused", "flushed", "inited", "committed", "settled"}]
    /\ meta \in [Repo -> Meta] /\ rows \subseteq Repo
    /\ tree \in [Path -> SUBSET Commit] /\ Repo \subseteq Path
  BY DEF TypeOK, Path
<1>1. ASSUME NEW m \in Meta, Flush(r, m),
             m.source # {} => \E s \in rows : m.source = {s}
      PROVE  Provenance'
  <2>1. /\ pc[r] = "unused" /\ r \notin rows
        /\ pc' = [pc EXCEPT ![r] = "flushed"] /\ meta' = [meta EXCEPT ![r] = m]
        /\ UNCHANGED <<rows, tree, minted>>
    BY <1>1 DEF Flush, RequestsInOrder, disk, history
  <2>2. LiveTreesMinted' /\ FreshContent'
    BY <2>1 DEF LiveTreesMinted, FreshContent, Live, IsFork
  <2>3. ForkHasSource'
    BY <1>1, <2>1 DEF ForkHasSource, InFlight, IsFork
  <2> QED BY <2>2, <2>3
<1>2. CASE \E u \in User, o \in Owner, n \in Name : CreateFlush(r, u, o, n)
  <2> PICK u \in User, o \in Owner, n \in Name : CreateFlush(r, u, o, n)
    BY <1>2
  <2>1. [owner |-> o, name |-> n, login |-> handle[u], source |-> {}] \in Meta
    BY DEF TypeOK, Meta, Owner
  <2> QED BY <2>1, <1>1 DEF CreateFlush
<1>3. CASE \E u \in User, o \in Owner, s \in Repo : ForkFlush(r, u, o, s)
  <2> PICK u \in User, o \in Owner, s \in Repo : ForkFlush(r, u, o, s)
    BY <1>3
  <2>1. [owner |-> o, name |-> meta[s].name, login |-> handle[u], source |-> {s}] \in Meta
    BY MetaType DEF TypeOK, Meta, Owner
  <2> QED BY <2>1, <1>1 DEF ForkFlush
<1>4. ASSUME NEW new \in SUBSET Commit, InitBare(r, new) PROVE Provenance'
  <2>1. /\ pc[r] = "flushed" /\ ~IsFork(r) /\ r \notin rows /\ new \cap minted = {}
        /\ pc' = [pc EXCEPT ![r] = "inited"]
        /\ tree' = [tree EXCEPT ![r] = new] /\ minted' = minted \cup new
        /\ UNCHANGED <<meta, rows>>
    BY <1>4 DEF InitBare, IsFork, RequestsInOrder
  <2>2. LiveTreesMinted'
    BY <2>1 DEF LiveTreesMinted, Live
  <2>3. FreshContent'
    BY <2>1 DEF FreshContent, LiveTreesMinted, Live, IsFork
  <2>4. ForkHasSource'
    BY <2>1 DEF ForkHasSource, InFlight, IsFork, RequestsInOrder
  <2> QED BY <2>2, <2>3, <2>4
<1>5. CASE CloneBare(r)
  <2>1. /\ pc[r] = "flushed" /\ IsFork(r) /\ r \notin rows
        /\ pc' = [pc EXCEPT ![r] = "inited"]
        /\ UNCHANGED <<meta, rows, minted>>
    BY <1>5 DEF CloneBare, IsFork, RequestsInOrder, history
  <2>2. PICK s \in rows : meta[r].source = {s}
    BY <2>1 DEF ForkHasSource, InFlight
  <2>3. s # r /\ pc[s] # "inited" /\ tree' = [tree EXCEPT ![r] = tree[s]]
    <3>1. UNION {tree[x] : x \in meta[r].source} = tree[s]
      BY <2>2
    <3>2. s # r /\ pc[s] # "inited"
      BY <2>1, <2>2 DEF RequestsInOrder
    <3> QED BY <1>5, <3>1, <3>2 DEF CloneBare
  <2>4. LiveTreesMinted'
    BY <2>1, <2>2, <2>3 DEF LiveTreesMinted, Live
  <2>5. FreshContent'
    BY <2>1, <2>2, <2>3 DEF FreshContent, Live, IsFork
  <2>6. ForkHasSource'
    BY <2>1, <2>2, <2>3 DEF ForkHasSource, InFlight, IsFork
  <2> QED BY <2>4, <2>5, <2>6
<1>6. ASSUME pc[r] \in {"flushed", "inited", "committed"}, pc' = [pc EXCEPT ![r] = "settled"],
             UNCHANGED <<meta, rows, tree, minted>>
      PROVE  Provenance'
  BY <1>6 DEF LiveTreesMinted, FreshContent, ForkHasSource, Live, IsFork, InFlight
<1>7. ASSUME NEW left \in SUBSET {r}, DiskStepFails(r, left) PROVE Provenance'
  BY <1>6, <1>7 DEF DiskStepFails, history
<1>8. CASE CommitRow(r)
  <2>1. /\ pc[r] = "inited" /\ rows' = rows \cup {r}
        /\ \E st \in {"committed", "settled"} : pc' = [pc EXCEPT ![r] = st]
        /\ UNCHANGED <<meta, tree, minted>>
    BY <1>8 DEF CommitRow, disk
  <2>2. LiveTreesMinted' /\ FreshContent'
    BY <2>1 DEF LiveTreesMinted, FreshContent, Live, IsFork
  <2>3. ForkHasSource'
    BY <2>1 DEF ForkHasSource, InFlight, IsFork
  <2> QED BY <2>2, <2>3
<1>9. CASE CommitFails(r)
  BY <1>6, <1>9 DEF CommitFails, disk, history
<1>10. ASSUME NEW sent \in BOOLEAN, QueueBackup(r, sent) PROVE Provenance'
  BY <1>6, <1>10 DEF QueueBackup, disk, history
<1> QED BY <1>2, <1>3, <1>4, <1>5, <1>7, <1>8, <1>9, <1>10 DEF MakeRepository

LEMMA WriteDropProvenance ==
    ASSUME RInv, NEW r \in Repo, WriteCommit(r) \/ DropRepository(r)
    PROVE  Provenance'
<1> USE DEF RInv, IInv, Placement, Provenance, IsFork
<1> /\ meta \in [Repo -> Meta] /\ rows \subseteq Repo
    /\ tree \in [Path -> SUBSET Commit] /\ Repo \subseteq Path
  BY DEF TypeOK, Path
<1>1. ASSUME NEW c \in Commit, AddCommit(r, c), UNCHANGED <<pc, meta, rows>>
      PROVE  Provenance'
  <2>1. /\ r \in rows /\ pc[r] # "inited" /\ c \notin minted
        /\ tree' = [tree EXCEPT ![r] = @ \cup {c}] /\ minted' = minted \cup {c}
    BY <1>1 DEF AddCommit, RequestsInOrder
  <2>2. LiveTreesMinted'
    BY <1>1, <2>1 DEF LiveTreesMinted, Live
  <2>3. FreshContent'
    BY <1>1, <2>1 DEF FreshContent, LiveTreesMinted, Live
  <2>4. ForkHasSource'
    BY <1>1, <2>1 DEF ForkHasSource, InFlight
  <2> QED BY <2>2, <2>3, <2>4
<1>2. CASE WriteCommit(r)
  BY <1>1, <1>2 DEF WriteCommit, Push, WebCommit, request
<1>3. CASE DeleteRow(r)
  BY <1>3 DEF DeleteRow, LiveTreesMinted, FreshContent, ForkHasSource, Live, InFlight,
     request, disk, history
<1>4. ASSUME NEW ok \in BOOLEAN, RemoveDirectory(r, ok) PROVE Provenance'
  <2>1. r \notin rows /\ pc[r] \notin {"flushed", "inited"}
    BY <1>4 DEF RemoveDirectory, DeletedOnce, RequestsInOrder
  <2>2. /\ UNCHANGED <<pc, meta, rows, minted>>
        /\ \A q \in Repo : q # r => tree'[q] = tree[q]
    BY <1>4 DEF RemoveDirectory, request, history
  <2> QED BY <2>1, <2>2 DEF LiveTreesMinted, FreshContent, ForkHasSource, Live, InFlight
<1> QED BY <1>2, <1>3, <1>4 DEF DropRepository

LEMMA OwnerProvenance ==
    ASSUME RInv,
           \/ \E u \in User, h \in Handle : RenameUser(u, h)
           \/ \E o \in Org : DeleteOrg(o)
    PROVE  Provenance'
<1>1. ASSUME NEW u \in User, NEW h \in Handle, RenameUser(u, h) PROVE Provenance'
  BY <1>1, QuietProvenance DEF RInv, RenameUser, provenance, request, disk, history
<1>2. ASSUME NEW o \in Org, DeleteOrg(o) PROVE Provenance'
  <2>1. rows' = {q \in rows : meta[q].owner # o} /\ UNCHANGED <<pc, meta, tree, minted>>
    BY <1>2 DEF DeleteOrg, request, disk, history
  <2>2. LiveTreesMinted' /\ FreshContent'
    BY <2>1 DEF RInv, Provenance, LiveTreesMinted, FreshContent, Live, IsFork
  <2>3. ForkHasSource'
    BY <1>2, <2>1 DEF RInv, Provenance, ForkHasSource, DeleteOrg, InFlight, IsFork
  <2> QED BY <2>2, <2>3 DEF Provenance
<1> QED BY <1>1, <1>2

LEMMA BackupProvenance ==
    ASSUME RInv,
           \/ \E t \in Thread : HookStep(t)
           \/ \E w \in Worker : WorkerStep(w) \/ WorkerLost(w)
           \/ \E p \in Thread \cup Worker : UploadStep(p)
    PROVE  UNCHANGED provenance
BY DEF HookStep, WorkerStep, WorkerLost, UploadStep, HookPack, WorkerTake, WorkerPack,
   WorkerFindsNoDirectory, PutObject, PutFails, provenance, request, disk, history

\* A restart ends every request and leaves the disk alone.
LEMMA RestartProvenance ==
    ASSUME RInv, ~EphemeralDisk, NEW listed \in {rows, {}}, Restart(listed)
    PROVE  Provenance'
<1>1. /\ pc' = [r \in Repo |-> IF pc[r] = "unused" THEN "unused" ELSE "settled"]
      /\ UNCHANGED <<meta, rows, tree, minted>>
  BY DEF Restart, history
<1> QED BY <1>1 DEF RInv, Provenance, LiveTreesMinted, FreshContent, ForkHasSource, Live,
        IsFork, InFlight

\* The startup loop writes to names and to directories that are missing, and
\* a committed row or a request in flight misses none.
LEMMA StartupKeepsLive ==
    ASSUME RInv, ~EphemeralDisk, StartupStep
    PROVE  /\ UNCHANGED <<pc, meta, rows, minted>>
           /\ \A r \in Repo : Live(r) => tree'[r] = tree[r]
<1> USE DEF RInv, IInv
<1>1. ASSUME NEW r \in Repo, Live(r) PROVE r \in dirs
  BY <1>1 DEF Live, Placement, RequestsInOrder, RowsHaveStorage
<1>2. ASSUME NEW r \in todo,
             \/ StartupSkip(r) \/ StartupGiveUp(r)
             \/ \E found \in BOOLEAN : StartupProbe(r, found)
      PROVE  UNCHANGED provenance
  BY <1>2 DEF StartupSkip, StartupGiveUp, StartupProbe, provenance, request, disk, history
<1>3. ASSUME NEW i \in restoring, StartupRestoreFails(i) PROVE UNCHANGED provenance
  BY <1>3 DEF StartupRestoreFails, provenance, request, disk, history
<1>4. ASSUME NEW i \in restoring, NEW a \in bucket, StartupRestore(i, a),
             NEW r \in Repo \cap dirs
      PROVE  tree'[r] = tree[r]
  <2>1. i.repo \in Repo /\ a.arcname \in Name
    BY DEF TypeOK, Iteration, Archive
  <2>2. meta[i.repo].name \in Name
    BY <2>1, MetaType
  <2>3. r \in Path /\ r # a.arcname /\ r # meta[i.repo].name
    BY <2>1, <2>2, PathsAssumption DEF Path
  <2> QED BY <1>4, <2>1, <2>3 DEF StartupRestore, TypeOK
<1>5. ASSUME NEW i \in restoring, StartupReinit(i), NEW r \in Repo \cap dirs
      PROVE  tree'[r] = tree[r]
  BY <1>5 DEF StartupReinit, TypeOK, Path
<1>6. UNCHANGED <<pc, meta, rows, minted>>
  BY DEF StartupStep, StartupSkip, StartupGiveUp, StartupProbe, StartupRestore,
     StartupRestoreFails, StartupReinit, request, history
<1>7. ASSUME NEW r \in Repo, Live(r) PROVE tree'[r] = tree[r]
  BY <1>1, <1>2, <1>3, <1>4, <1>5, <1>7 DEF StartupStep, provenance
<1> QED BY <1>6, <1>7

LEMMA StepProvenance ==
    ASSUME RInv, ~EphemeralDisk, [Next]_vars
    PROVE  Provenance'
<1>1. CASE UNCHANGED vars
  BY <1>1, QuietProvenance DEF RInv, vars, provenance
<1>2. CASE StartupStep
  <2>1. /\ UNCHANGED <<pc, meta, rows, minted>>
        /\ \A r \in Repo : Live(r) => tree'[r] = tree[r]
    BY <1>2, StartupKeepsLive
  <2>2. rows \subseteq Repo
    BY DEF RInv, IInv, TypeOK
  <2> QED BY <2>1, <2>2 DEF RInv, Provenance, LiveTreesMinted, FreshContent, ForkHasSource,
          Live, IsFork, InFlight
<1>3. CASE Next
  BY <1>2, <1>3, MakeRepositoryProvenance, WriteDropProvenance, OwnerProvenance,
     BackupProvenance, QuietProvenance, RestartProvenance DEF RInv, Next
<1> QED BY <1>1, <1>3

-----------------------------------------------------------------------------
(* Every step of RepoStorage is a step of HostedRepos or a stutter *)

LEMMA Stutters ==
    ASSUME rows' = rows, \A r \in rows : tree'[r] = tree[r]
    PROVE  hosted' = hosted
BY DEF hosted

LEMMA CommitRefines ==
    ASSUME RInv, NEW r \in Repo, CommitRow(r)
    PROVE  Hosted!Next
<1> USE DEF RInv, IInv, Placement, Provenance
<1>1. /\ pc[r] = "inited" /\ r \notin rows /\ rows' = rows \cup {r} /\ UNCHANGED tree
      /\ tree[r] \in SUBSET Commit /\ rows \subseteq Repo
  BY DEF CommitRow, disk, TypeOK, Path, RequestsInOrder
<1>2. PICK C \in SUBSET Commit : C = tree[r]
  BY <1>1
<1>3. hosted' = [s \in rows \cup {r} |-> IF s = r THEN C ELSE hosted[s]]
  BY <1>1, <1>2 DEF hosted
<1>4. CASE ~IsFork(r)
  <2>1. C \cap UNION {hosted[s] : s \in rows} = {}
    BY <1>1, <1>2, <1>4 DEF FreshContent, Live, hosted
  <2>2. Hosted!Create(r, C)
    BY <1>1, <1>3, <2>1 DEF hosted, Hosted!Create, Hosted!Existing, Hosted!Known, Hosted!With
  <2> QED BY <2>2 DEF Hosted!Next
<1>5. CASE IsFork(r)
  <2>1. PICK s \in Repo : s \in rows /\ C \subseteq tree[s]
    BY <1>1, <1>2, <1>5 DEF ForkHasSource, InFlight
  <2>2. Hosted!Fork(r, s, C)
    BY <1>1, <1>3, <2>1 DEF hosted, Hosted!Fork, Hosted!Existing, Hosted!With
  <2> QED BY <2>2 DEF Hosted!Next
<1> QED BY <1>4, <1>5

LEMMA WriteRefines ==
    ASSUME RInv, NEW r \in Repo, NEW c \in Commit, AddCommit(r, c), UNCHANGED rows
    PROVE  Hosted!Next
<1> USE DEF RInv, IInv, Placement, Provenance
<1>1. /\ r \in rows /\ rows \subseteq Repo /\ c \notin minted
      /\ tree' = [tree EXCEPT ![r] = @ \cup {c}]
      /\ tree \in [Path -> SUBSET Commit] /\ Repo \subseteq Path
  BY DEF AddCommit, TypeOK, Path
<1>2. c \notin UNION {hosted[s] : s \in rows}
  BY <1>1 DEF LiveTreesMinted, Live, hosted
<1>3. hosted' = [s \in rows \cup {r} |-> IF s = r THEN hosted[r] \cup {c} ELSE hosted[s]]
  BY <1>1 DEF hosted
<1>4. Hosted!Write(r, c)
  BY <1>1, <1>2, <1>3 DEF hosted, Hosted!Write, Hosted!Existing, Hosted!Known, Hosted!With
<1> QED BY <1>4 DEF Hosted!Next

LEMMA DeleteRefines ==
    ASSUME NEW D \in SUBSET Repo, rows' = rows \ D, UNCHANGED tree
    PROVE  Hosted!Next
<1>1. Hosted!Delete(D)
  BY DEF hosted, Hosted!Delete, Hosted!Existing
<1> QED BY <1>1 DEF Hosted!Next

LEMMA StepRefines ==
    ASSUME RInv, ~EphemeralDisk, [Next]_vars
    PROVE  [Hosted!Next]_hosted
<1> rows \subseteq Repo /\ Repo \subseteq Path
  BY DEF RInv, IInv, TypeOK, Path
<1>1. CASE UNCHANGED vars
  BY <1>1, Stutters DEF vars
<1>2. ASSUME NEW r \in Repo, MakeRepository(r) PROVE [Hosted!Next]_hosted
  <2>1. CASE CommitRow(r)
    BY <2>1, CommitRefines
  <2>2. CASE ~CommitRow(r)
    <3>1. r \notin rows \/ UNCHANGED tree
      BY <1>2 DEF MakeRepository, CreateFlush, ForkFlush, Flush, InitBare, CloneBare,
         DiskStepFails, CommitRow, CommitFails, QueueBackup, RInv, IInv, Placement,
         RequestsInOrder, disk
    <3>2. UNCHANGED rows
      BY <1>2, <2>2 DEF MakeRepository, CreateFlush, ForkFlush, Flush, InitBare, CloneBare,
         DiskStepFails, CommitFails, QueueBackup
    <3>3. \A s \in rows : tree'[s] = tree[s]
      BY <1>2, <2>2, <3>1 DEF MakeRepository, CreateFlush, ForkFlush, Flush, InitBare,
         CloneBare, DiskStepFails, CommitFails, QueueBackup, RInv, IInv, TypeOK, disk
    <3> QED BY <3>2, <3>3, Stutters
  <2> QED BY <2>1, <2>2
<1>3. ASSUME NEW r \in Repo, WriteCommit(r) PROVE [Hosted!Next]_hosted
  BY <1>3, WriteRefines DEF WriteCommit, Push, WebCommit
<1>4. ASSUME NEW r \in Repo, DropRepository(r) PROVE [Hosted!Next]_hosted
  <2>1. CASE DeleteRow(r)
    BY <2>1, DeleteRefines DEF DeleteRow, disk
  <2>2. ASSUME NEW ok \in BOOLEAN, RemoveDirectory(r, ok) PROVE [Hosted!Next]_hosted
    <3>1. r \notin rows /\ UNCHANGED rows
      BY <2>2 DEF RemoveDirectory, RInv, IInv, Placement, DeletedOnce
    <3>2. \A s \in rows : tree'[s] = tree[s]
      BY <2>2, <3>1 DEF RemoveDirectory, RInv, IInv, TypeOK
    <3> QED BY <3>1, <3>2, Stutters
  <2> QED BY <1>4, <2>1, <2>2 DEF DropRepository
<1>5. ASSUME NEW u \in User, NEW h \in Handle, RenameUser(u, h) PROVE [Hosted!Next]_hosted
  BY <1>5, Stutters DEF RenameUser, disk
<1>6. ASSUME NEW o \in Org, DeleteOrg(o) PROVE [Hosted!Next]_hosted
  <2> DEFINE D == {r \in Repo : meta[r].owner = o}
  <2>1. rows' = rows \ D /\ UNCHANGED tree
    BY <1>6 DEF DeleteOrg, disk
  <2> QED BY <2>1, DeleteRefines
<1>7. ASSUME \/ \E t \in Thread : HookStep(t)
             \/ \E w \in Worker : WorkerStep(w) \/ WorkerLost(w)
             \/ \E p \in Thread \cup Worker : UploadStep(p)
      PROVE  [Hosted!Next]_hosted
  BY <1>7, BackupProvenance, Stutters DEF provenance
<1>8. ASSUME NEW listed \in {rows, {}}, Restart(listed) PROVE [Hosted!Next]_hosted
  BY <1>8, Stutters DEF Restart
<1>9. CASE StartupStep
  BY <1>9, StartupKeepsLive, Stutters DEF Live
<1> QED BY <1>1, <1>2, <1>3, <1>4, <1>5, <1>6, <1>7, <1>8, <1>9 DEF Next

\* On a volume that survives restarts, whatever fails and wherever a restart
\* strikes, clients see HostedRepos: repositories that only pushes, uploads,
\* merges, forks and deletions change.
THEOREM Refinement ==
    ASSUME ~EphemeralDisk
    PROVE  Spec => ImplementsHostedRepos
<1>1. Init => Hosted!Init
  BY DEF Init, Hosted!Init
<1>2. Init => RInv
  BY InitType, InitPlacement, InitProvenance DEF RInv, IInv
<1>3. RInv /\ [Next]_vars => RInv'
  BY StepType, StepPlacement, StepProvenance DEF RInv, IInv
<1>4. RInv /\ [Next]_vars => [Hosted!Next]_hosted
  BY StepRefines
<1> QED BY <1>1, <1>2, <1>3, <1>4, PTL DEF Spec, ImplementsHostedRepos, Hosted!Spec, hosted

=============================================================================
