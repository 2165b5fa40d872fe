------------------------- MODULE RepoStorageProofs -------------------------
(***************************************************************************)
(* Proofs about RepoStorage for any number of repositories, owners, names, *)
(* commits, threads and workers, and either kind of disk.                  *)
(***************************************************************************)
EXTENDS RepoStorage, TLAPS

-----------------------------------------------------------------------------
(* The inductive invariant.  The committed rows alone say too little: what *)
(* makes them safe is where the requests in flight stand.                  *)

\* A row about to be committed has its directory; rows and rows just deleted
\* belong to requests that are past their commit.
RequestsInOrder ==
    \A r \in Repo :
        /\ pc[r] = "inited" => r \in dirs
        /\ r \in rows \cup doomed => pc[r] \in {"committed", "settled"}

DeletedOnce == rows \cap doomed = {}

\* Where the index exists, names are unique among committed and flushed rows
\* together; without it those that share one were in flight together.
HoldsName(r) == r \in rows \/ InFlight(r)
NamesReserved ==
    \A r, q \in Repo :
        /\ HoldsName(r) /\ HoldsName(q)
        /\ meta[r].owner = meta[q].owner /\ meta[r].name = meta[q].name
        => r = q \/ (~NameIndexed /\ {r, q} \in together)

Placement ==
    /\ RequestsInOrder /\ DeletedOnce /\ NamesReserved
    /\ RowsHaveStorage /\ AcknowledgedCommitsKept

IInv == TypeOK /\ Placement

\* The variables Placement reads.
placement == <<pc, meta, together, rows, dirs, tree, doomed, acked>>

-----------------------------------------------------------------------------
(* Type correctness *)

LEMMA AnyMetaType == AnyMeta \in Meta
<1>1. PICK u \in User, n \in Name : TRUE
  BY OwnersAssumption
<1>2. FirstHandle[u] \in Handle
  BY <1>1, OwnersAssumption DEF Owner
<1>3. [owner |-> u, name |-> n, login |-> FirstHandle[u], source |-> {}] \in Meta
  BY <1>1, <1>2 DEF Meta, Owner
<1> QED BY <1>3 DEF AnyMeta

LEMMA InitType == Init => TypeOK
<1> SUFFICES ASSUME Init PROVE TypeOK
  OBVIOUS
<1>1. AnyMeta \in Meta
  BY AnyMetaType
<1> QED BY <1>1, OwnersAssumption, FlagsAssumption DEF Init, TypeOK, Path

\* An archive packed now is an Archive.
LEMMA PackedType ==
    ASSUME TypeOK, NEW r \in Repo, NEW h \in Handle, NEW n \in Name
    PROVE  ArchiveOf(r, h, n) \in Archive /\ ObjectKey(h, n) \in Key
BY DEF TypeOK, ArchiveOf, Archive, ObjectKey, Key, Path

\* The row a repository holds is a Meta, its owner has a name.
LEMMA MetaType ==
    ASSUME TypeOK, NEW r \in Repo
    PROVE  /\ meta[r].owner \in Owner /\ meta[r].name \in Name
           /\ meta[r].login \in Handle /\ meta[r].source \subseteq Repo
           /\ handle[meta[r].owner] \in Handle
           /\ KeyNow(r) \in Key
BY DEF TypeOK, Meta, KeyNow, ObjectKey, Key

LEMMA FlushType ==
    ASSUME TypeOK, NEW r \in Repo, NEW m \in Meta, Flush(r, m)
    PROVE  TypeOK'
BY DEF TypeOK, Flush, people, disk, queue, startup, history

LEMMA MakeRepositoryType ==
    ASSUME TypeOK, NEW r \in Repo, MakeRepository(r)
    PROVE  TypeOK'
<1>1. CASE \E u \in User, o \in Owner, n \in Name : CreateFlush(r, u, o, n)
  <2> PICK u \in User, o \in Owner, n \in Name : CreateFlush(r, u, o, n)
    BY <1>1
  <2>1. [owner |-> o, name |-> n, login |-> handle[u], source |-> {}] \in Meta
    BY DEF TypeOK, Meta, Owner
  <2> QED BY <2>1, FlushType DEF CreateFlush
<1>2. CASE \E u \in User, o \in Owner, s \in Repo : ForkFlush(r, u, o, s)
  <2> PICK u \in User, o \in Owner, s \in Repo : ForkFlush(r, u, o, s)
    BY <1>2
  <2>1. [owner |-> o, name |-> meta[s].name, login |-> handle[u], source |-> {s}] \in Meta
    BY MetaType DEF TypeOK, Meta, Owner
  <2> QED BY <2>1, FlushType DEF ForkFlush
<1>3. ASSUME NEW new \in SUBSET Commit, InitBare(r, new) PROVE TypeOK'
  BY <1>3 DEF TypeOK, InitBare, people, queue, startup, Path
<1>4. CASE CloneBare(r)
  <2>1. UNION {tree[s] : s \in meta[r].source} \subseteq Commit
    BY MetaType DEF TypeOK, Path
  <2> QED BY <1>4, <2>1 DEF TypeOK, CloneBare, people, queue, startup, history, Path
<1>5. ASSUME NEW left \in SUBSET {r}, DiskStepFails(r, left) PROVE TypeOK'
  BY <1>5 DEF TypeOK, DiskStepFails, people, queue, startup, history, Path
<1>6. CASE CommitRow(r)
  BY <1>6 DEF TypeOK, CommitRow, people, disk, queue, startup, Path
<1>7. CASE CommitFails(r)
  BY <1>7 DEF TypeOK, CommitFails, people, disk, queue, startup, history
<1>8. ASSUME NEW sent \in BOOLEAN, QueueBackup(r, sent) PROVE TypeOK'
  <2>1. [repo |-> r, owner |-> meta[r].login, name |-> meta[r].name] \in Task
    BY MetaType DEF Task
  <2> QED BY <1>8, <2>1 DEF TypeOK, QueueBackup, people, disk, startup, history
<1> QED BY <1>1, <1>2, <1>3, <1>4, <1>5, <1>6, <1>7, <1>8 DEF MakeRepository

LEMMA WriteDropType ==
    ASSUME TypeOK, NEW r \in Repo, WriteCommit(r) \/ DropRepository(r)
    PROVE  TypeOK'
<1>1. ASSUME NEW c \in Commit, WebCommit(r, c) PROVE TypeOK'
  BY <1>1 DEF TypeOK, WebCommit, AddCommit, request, people, queue, startup, Path
<1>2. ASSUME NEW c \in Commit, NEW t \in Thread, Push(r, c, t) PROVE TypeOK'
  BY <1>2 DEF TypeOK, Push, AddCommit, request, people, queue, startup, Path
<1>3. CASE DeleteRow(r)
  BY <1>3 DEF TypeOK, DeleteRow, request, people, disk, queue, startup, history
<1>4. ASSUME NEW ok \in BOOLEAN, RemoveDirectory(r, ok) PROVE TypeOK'
  BY <1>4 DEF TypeOK, RemoveDirectory, request, people, queue, startup, history, Path
<1> QED BY <1>1, <1>2, <1>3, <1>4 DEF WriteCommit, DropRepository

LEMMA OwnerType ==
    ASSUME TypeOK,
           \/ \E u \in User, h \in Handle : RenameUser(u, h)
           \/ \E o \in Org : DeleteOrg(o)
    PROVE  TypeOK'
<1>1. ASSUME NEW u \in User, NEW h \in Handle, RenameUser(u, h) PROVE TypeOK'
  BY <1>1 DEF TypeOK, RenameUser, request, disk, queue, startup, history, Owner
<1>2. ASSUME NEW o \in Org, DeleteOrg(o) PROVE TypeOK'
  BY <1>2 DEF TypeOK, DeleteOrg, request, disk, queue, startup, history
<1> QED BY <1>1, <1>2

LEMMA BackupType ==
    ASSUME TypeOK,
           \/ \E t \in Thread : HookStep(t)
           \/ \E w \in Worker : WorkerStep(w) \/ WorkerLost(w)
           \/ \E p \in Thread \cup Worker : UploadStep(p)
    PROVE  TypeOK'
<1>1. ASSUME NEW t \in Thread, NEW r \in Repo, HookPack(t, r) PROVE TypeOK'
  <2>1. /\ ArchiveOf(r, handle[meta[r].owner], meta[r].name) \in Archive
        /\ KeyNow(r) \in Key
    BY MetaType, PackedType
  <2> QED BY <1>1, <2>1 DEF TypeOK, HookPack, request, people, disk, queue, startup
<1>2. ASSUME NEW w \in Worker, NEW k \in tasks, WorkerTake(w, k) PROVE TypeOK'
  BY <1>2 DEF TypeOK, WorkerTake, request, people, disk, startup, history
<1>3. ASSUME NEW w \in Worker, NEW k \in taken[w], WorkerPack(w, k) PROVE TypeOK'
  <2>1. k \in Task
    BY DEF TypeOK
  <2>2. k.repo \in Repo /\ k.owner \in Handle /\ k.name \in Name
    BY <2>1 DEF Task
  <2>3. /\ ArchiveOf(k.repo, k.owner, k.name) \in Archive
        /\ ObjectKey(k.owner, k.name) \in Key
    BY <2>2, PackedType
  <2> QED BY <1>3, <2>2, <2>3 DEF TypeOK, WorkerPack, request, people, disk, queue, startup
<1>4. ASSUME NEW w \in Worker, NEW k \in taken[w], WorkerFindsNoDirectory(w, k) PROVE TypeOK'
  BY <1>4 DEF TypeOK, WorkerFindsNoDirectory, request, people, disk, startup, history
<1>5. ASSUME NEW w \in Worker, WorkerLost(w) PROVE TypeOK'
  BY <1>5, FlagsAssumption DEF TypeOK, WorkerLost, request, people, disk, startup, history
<1>6. ASSUME NEW p \in Thread \cup Worker, NEW a \in upload[p], PutObject(p, a) PROVE TypeOK'
  BY <1>6 DEF TypeOK, PutObject, Acknowledge, request, people, disk, startup, history
<1>7. ASSUME NEW p \in Thread \cup Worker, NEW a \in upload[p], PutFails(p, a) PROVE TypeOK'
  BY <1>7 DEF TypeOK, PutFails, Acknowledge, request, people, disk, startup, history
<1> QED BY <1>1, <1>2, <1>3, <1>4, <1>5, <1>6, <1>7 DEF HookStep, WorkerStep, UploadStep

LEMMA RestartType ==
    ASSUME TypeOK, NEW listed \in {rows, {}}, Restart(listed)
    PROVE  TypeOK'
BY FlagsAssumption DEF TypeOK, Restart, people, queue, history, Path

LEMMA StartupType ==
    ASSUME TypeOK, StartupStep
    PROVE  TypeOK'
<1>1. ASSUME NEW r \in todo, StartupSkip(r) \/ StartupGiveUp(r) PROVE TypeOK'
  BY <1>1 DEF TypeOK, StartupSkip, StartupGiveUp, request, people, disk, queue, history
<1>2. ASSUME NEW r \in todo, NEW found \in BOOLEAN, StartupProbe(r, found) PROVE TypeOK'
  <2>1. r \in Repo /\ KeyNow(r) \in Key
    BY MetaType DEF TypeOK
  <2> QED BY <1>2, <2>1 DEF TypeOK, StartupProbe, Iteration, request, people, disk, queue
<1>3. ASSUME NEW i \in restoring, NEW a \in bucket, StartupRestore(i, a) PROVE TypeOK'
  <2>1. i.repo \in Repo /\ a.arcname \in Name /\ a.commits \subseteq Commit
    BY DEF TypeOK, Iteration, Archive
  <2>2. meta[i.repo].name \in Name
    BY <2>1, MetaType
  <2>3. dirs' \subseteq Path
    BY <1>3, <2>1, <2>2 DEF StartupRestore, TypeOK, Path
  <2>4. tree' \in [Path -> SUBSET Commit]
    BY <1>3, <2>1, <2>2 DEF StartupRestore, TypeOK, Path
  <2> QED BY <1>3, <2>3, <2>4
          DEF TypeOK, StartupRestore, request, people, queue, history
<1>4. ASSUME NEW i \in restoring, StartupRestoreFails(i) PROVE TypeOK'
  BY <1>4 DEF TypeOK, StartupRestoreFails, request, people, disk, queue, history
<1>5. ASSUME NEW i \in restoring, StartupReinit(i) PROVE TypeOK'
  BY <1>5 DEF TypeOK, StartupReinit, Iteration, request, people, queue, history, Path
<1> QED BY <1>1, <1>2, <1>3, <1>4, <1>5 DEF StartupStep

LEMMA StepType == TypeOK /\ [Next]_vars => TypeOK'
<1> SUFFICES ASSUME TypeOK, [Next]_vars PROVE TypeOK'
  OBVIOUS
<1>1. CASE UNCHANGED vars
  BY <1>1 DEF TypeOK, vars
<1>2. CASE Next
  BY <1>2, MakeRepositoryType, WriteDropType, OwnerType, BackupType, RestartType,
     StartupType DEF Next
<1> QED BY <1>1, <1>2

\* Every variable keeps its type in every reachable state.
THEOREM TypeCorrect == Spec => []TypeOK
<1>1. Init => TypeOK
  BY InitType
<1>2. TypeOK /\ [Next]_vars => TypeOK'
  BY StepType
<1> QED BY <1>1, <1>2, PTL DEF Spec

-----------------------------------------------------------------------------
(* Placement *)

LEMMA InitPlacement == Init => Placement
BY DEF Init, Placement, RequestsInOrder, DeletedOnce, NamesReserved, HoldsName,
       InFlight, RowsHaveStorage, AcknowledgedCommitsKept

LEMMA QuietPlacement == Placement /\ UNCHANGED placement => Placement'
BY DEF placement, Placement, RequestsInOrder, DeletedOnce, NamesReserved, HoldsName,
       InFlight, RowsHaveStorage, AcknowledgedCommitsKept

\* A flush reserves a name that no committed and no flushed row has.
LEMMA FlushPlacement ==
    ASSUME IInv, NEW r \in Repo, NEW m \in Meta, Flush(r, m)
    PROVE  Placement'
<1> USE DEF IInv, Placement
<1>1. r \notin rows \cup doomed /\ ~InFlight(r)
  BY DEF Flush, RequestsInOrder, InFlight
<1>2. /\ pc' = [pc EXCEPT ![r] = "flushed"] /\ meta' = [meta EXCEPT ![r] = m]
      /\ pc \in [Repo -> {"unused", "flushed", "inited", "committed", "settled"}]
      /\ meta \in [Repo -> Meta]
      /\ UNCHANGED <<rows, doomed, dirs, tree, acked>>
      /\ together' = together \cup {{r, q} : q \in {q \in Repo : InFlight(q)}}
  BY DEF Flush, TypeOK, disk, history
<1>3. RequestsInOrder' /\ DeletedOnce'
  BY <1>1, <1>2 DEF RequestsInOrder, DeletedOnce
<1>4. NamesReserved'
  <2> DEFINE Apart(x, y) == x = y \/ (~NameIndexed /\ {x, y} \in together')
  <2> SUFFICES ASSUME NEW x \in Repo, NEW y \in Repo, HoldsName(x)', HoldsName(y)',
                      meta'[x].owner = meta'[y].owner, meta'[x].name = meta'[y].name
               PROVE  Apart(x, y)
    BY DEF NamesReserved
  <2>1. ASSUME NEW z \in Repo, z # r, HoldsName(z)'
        PROVE  HoldsName(z) /\ meta'[z] = meta[z]
    BY <1>2, <2>1 DEF HoldsName, InFlight
  <2>2. ASSUME NEW z \in Repo, z # r, HoldsName(z)', meta[z].owner = m.owner, meta[z].name = m.name
        PROVE  Apart(r, z) /\ Apart(z, r)
    <3>1. InFlight(z) /\ ~NameIndexed
      BY <2>1, <2>2 DEF HoldsName, Flush, NameAvailable, IndexFree
    <3>2. {r, z} \in together' /\ {z, r} = {r, z}
      BY <1>2, <3>1
    <3> QED BY <3>1, <3>2
  <2>3. CASE x # r /\ y # r
    <3>1. x = y \/ (~NameIndexed /\ {x, y} \in together)
      BY <2>1, <2>3 DEF NamesReserved
    <3> QED BY <1>2, <3>1
  <2> HIDE DEF Apart
  <2>4. CASE x = r /\ y # r
    BY <1>2, <2>1, <2>2, <2>4
  <2>5. CASE x # r /\ y = r
    BY <1>2, <2>1, <2>2, <2>5
  <2>6. CASE x = r /\ y = r
    BY <2>6 DEF Apart
  <2> QED BY <2>3, <2>4, <2>5, <2>6
<1>5. RowsHaveStorage' /\ AcknowledgedCommitsKept'
  BY <1>2 DEF RowsHaveStorage, AcknowledgedCommitsKept
<1> QED BY <1>3, <1>4, <1>5

LEMMA MakeRepositoryPlacement ==
    ASSUME IInv, NEW r \in Repo, MakeRepository(r)
    PROVE  Placement'
<1> USE DEF IInv, Placement
<1> /\ pc \in [Repo -> {"unused", "flushed", "inited", "committed", "settled"}]
    /\ rows \subseteq Repo
    /\ tree \in [Path -> SUBSET Commit] /\ Repo \subseteq Path
    /\ acked \in [Repo -> SUBSET Commit]
  BY DEF TypeOK, Path
<1> USE DEF RequestsInOrder, DeletedOnce, RowsHaveStorage, AcknowledgedCommitsKept
<1>1. CASE \E u \in User, o \in Owner, n \in Name : CreateFlush(r, u, o, n)
  <2> PICK u \in User, o \in Owner, n \in Name : CreateFlush(r, u, o, n)
    BY <1>1
  <2>1. [owner |-> o, name |-> n, login |-> handle[u], source |-> {}] \in Meta
    BY DEF TypeOK, Meta, Owner
  <2> QED BY <2>1, FlushPlacement DEF CreateFlush
<1>2. CASE \E u \in User, o \in Owner, s \in Repo : ForkFlush(r, u, o, s)
  <2> PICK u \in User, o \in Owner, s \in Repo : ForkFlush(r, u, o, s)
    BY <1>2
  <2>1. [owner |-> o, name |-> meta[s].name, login |-> handle[u], source |-> {s}] \in Meta
    BY MetaType DEF TypeOK, Meta, Owner
  <2> QED BY <2>1, FlushPlacement DEF ForkFlush
<1>3. ASSUME pc[r] = "flushed", pc'[r] = "inited", NEW T \in SUBSET Commit,
             pc' = [pc EXCEPT ![r] = "inited"], dirs' = dirs \cup {r},
             tree' = [tree EXCEPT ![r] = T], UNCHANGED <<meta, together, rows, doomed, acked>>
      PROVE  Placement'
  <2>1. NamesReserved'
    BY <1>3 DEF NamesReserved, HoldsName, InFlight
  <2> QED BY <1>3, <2>1
<1>4. ASSUME NEW new \in SUBSET Commit, InitBare(r, new) PROVE Placement'
  BY <1>3, <1>4 DEF InitBare
<1>5. CASE CloneBare(r)
  <2>1. UNION {tree[s] : s \in meta[r].source} \in SUBSET Commit
    BY MetaType DEF TypeOK, Path
  <2> QED BY <1>3, <1>5, <2>1 DEF CloneBare, history
<1>6. ASSUME NEW left \in SUBSET {r}, DiskStepFails(r, left) PROVE Placement'
  <2>1. NamesReserved'
    BY <1>6 DEF NamesReserved, HoldsName, InFlight, DiskStepFails
  <2> QED BY <1>6, <2>1 DEF DiskStepFails, history
<1>7. CASE CommitRow(r)
  <2>1. NamesReserved'
    BY <1>7 DEF NamesReserved, HoldsName, InFlight, CommitRow
  <2> QED BY <1>7, <2>1 DEF CommitRow, disk
<1>8. CASE CommitFails(r)
  <2>1. NamesReserved'
    BY <1>8 DEF NamesReserved, HoldsName, InFlight, CommitFails
  <2> QED BY <1>8, <2>1 DEF CommitFails, disk, history
<1>9. ASSUME NEW sent \in BOOLEAN, QueueBackup(r, sent) PROVE Placement'
  <2>1. NamesReserved'
    BY <1>9 DEF NamesReserved, HoldsName, InFlight, QueueBackup
  <2> QED BY <1>9, <2>1 DEF QueueBackup, disk, history
<1> QED BY <1>1, <1>2, <1>4, <1>5, <1>6, <1>7, <1>8, <1>9 DEF MakeRepository

LEMMA WriteDropPlacement ==
    ASSUME IInv, NEW r \in Repo, WriteCommit(r) \/ DropRepository(r)
    PROVE  Placement'
<1> USE DEF IInv, Placement, RequestsInOrder, DeletedOnce, RowsHaveStorage,
            AcknowledgedCommitsKept
<1> /\ rows \subseteq Repo
    /\ tree \in [Path -> SUBSET Commit] /\ Repo \subseteq Path
    /\ acked \in [Repo -> SUBSET Commit]
  BY DEF TypeOK, Path
<1>1. ASSUME NEW c \in Commit, AddCommit(r, c), UNCHANGED <<pc, meta, together, rows, doomed, dirs>>
      PROVE  Placement'
  BY <1>1 DEF AddCommit, NamesReserved, HoldsName, InFlight
<1>2. CASE WriteCommit(r)
  BY <1>1, <1>2 DEF WriteCommit, Push, WebCommit, request
<1>3. CASE DeleteRow(r)
  BY <1>3 DEF DeleteRow, NamesReserved, HoldsName, InFlight, request, disk, history
<1>4. ASSUME NEW ok \in BOOLEAN, RemoveDirectory(r, ok) PROVE Placement'
  BY <1>4 DEF RemoveDirectory, NamesReserved, HoldsName, InFlight, request, history
<1> QED BY <1>2, <1>3, <1>4 DEF DropRepository

LEMMA OwnerPlacement ==
    ASSUME IInv,
           \/ \E u \in User, h \in Handle : RenameUser(u, h)
           \/ \E o \in Org : DeleteOrg(o)
    PROVE  Placement'
<1>1. ASSUME NEW u \in User, NEW h \in Handle, RenameUser(u, h) PROVE Placement'
  BY <1>1, QuietPlacement DEF IInv, RenameUser, placement, request, disk, history
<1>2. ASSUME NEW o \in Org, DeleteOrg(o) PROVE Placement'
  BY <1>2 DEF DeleteOrg, IInv, Placement, RequestsInOrder, DeletedOnce, NamesReserved,
     HoldsName, InFlight, RowsHaveStorage, AcknowledgedCommitsKept, request, disk, history
<1> QED BY <1>1, <1>2

\* Hooks, workers and uploads read directories and write to the bucket only.
LEMMA BackupPlacement ==
    ASSUME IInv,
           \/ \E t \in Thread : HookStep(t)
           \/ \E w \in Worker : WorkerStep(w) \/ WorkerLost(w)
           \/ \E p \in Thread \cup Worker : UploadStep(p)
    PROVE  Placement'
<1>1. UNCHANGED placement
  BY DEF HookStep, WorkerStep, WorkerLost, UploadStep, HookPack, WorkerTake, WorkerPack,
     WorkerFindsNoDirectory, PutObject, PutFails, placement, request, disk, history
<1> QED BY <1>1, QuietPlacement DEF IInv

LEMMA RestartPlacement ==
    ASSUME IInv, NEW listed \in {rows, {}}, Restart(listed)
    PROVE  Placement'
<1> USE DEF IInv, Placement
<1>1. /\ pc' = [r \in Repo |-> IF pc[r] = "unused" THEN "unused" ELSE "settled"]
      /\ doomed' = {} /\ UNCHANGED <<meta, together, rows, acked>>
      /\ ~EphemeralDisk => UNCHANGED <<dirs, tree>>
  BY DEF Restart, history
<1>2. RequestsInOrder' /\ DeletedOnce'
  BY <1>1 DEF RequestsInOrder, DeletedOnce
<1>3. NamesReserved'
  BY <1>1 DEF NamesReserved, HoldsName, InFlight
<1>4. RowsHaveStorage' /\ AcknowledgedCommitsKept'
  BY <1>1 DEF RowsHaveStorage, AcknowledgedCommitsKept
<1> QED BY <1>2, <1>3, <1>4

\* The startup loop fills in directories that are missing and leaves the
\* others alone: extraction writes to a name, never to a repository's path.
LEMMA StartupPlacement ==
    ASSUME IInv, StartupStep
    PROVE  Placement'
<1> USE DEF IInv
<1>1. ASSUME NEW r \in todo,
             \/ StartupSkip(r) \/ StartupGiveUp(r)
             \/ \E found \in BOOLEAN : StartupProbe(r, found)
      PROVE  Placement'
  <2>1. UNCHANGED placement
    BY <1>1 DEF StartupSkip, StartupGiveUp, StartupProbe, placement, request, disk, history
  <2> QED BY <2>1, QuietPlacement
<1>2. ASSUME NEW i \in restoring, StartupRestoreFails(i) PROVE Placement'
  <2>1. UNCHANGED placement
    BY <1>2 DEF StartupRestoreFails, placement, request, disk, history
  <2> QED BY <2>1, QuietPlacement
<1>3. ASSUME UNCHANGED <<pc, meta, together, rows, doomed, acked>>,
             \A r \in Repo \cap dirs : r \in dirs' /\ tree'[r] = tree[r]
      PROVE  Placement'
  <2>1. rows \subseteq Repo
    BY DEF TypeOK
  <2> QED BY <1>3, <2>1 DEF Placement, RequestsInOrder, DeletedOnce, NamesReserved,
          HoldsName, InFlight, RowsHaveStorage, AcknowledgedCommitsKept
<1>4. ASSUME NEW i \in restoring, NEW a \in bucket, StartupRestore(i, a) PROVE Placement'
  <2>1. i.repo \in Repo /\ a.arcname \in Name
    BY DEF TypeOK, Iteration, Archive
  <2>2. meta[i.repo].name \in Name
    BY <2>1, MetaType
  <2>3. ASSUME NEW r \in Repo \cap dirs PROVE r \in dirs' /\ tree'[r] = tree[r]
    <3>1. r \in Path /\ r # a.arcname /\ r # meta[i.repo].name
      BY <2>1, <2>2, PathsAssumption DEF Path
    <3> QED BY <1>4, <2>1, <3>1 DEF StartupRestore, TypeOK
  <2> QED BY <1>3, <1>4, <2>3 DEF StartupRestore, request, history
<1>5. ASSUME NEW i \in restoring, StartupReinit(i) PROVE Placement'
  <2>1. ASSUME NEW r \in Repo \cap dirs PROVE r \in dirs' /\ tree'[r] = tree[r]
    BY <1>5 DEF StartupReinit, TypeOK, Path
  <2> QED BY <1>3, <1>5, <2>1 DEF StartupReinit, request, history
<1> QED BY <1>1, <1>2, <1>4, <1>5 DEF StartupStep

LEMMA StepPlacement == IInv /\ [Next]_vars => Placement'
<1> SUFFICES ASSUME IInv, [Next]_vars PROVE Placement'
  OBVIOUS
<1>1. CASE UNCHANGED vars
  BY <1>1, QuietPlacement DEF IInv, vars, placement
<1>2. CASE Next
  BY <1>2, MakeRepositoryPlacement, WriteDropPlacement, OwnerPlacement, BackupPlacement,
     RestartPlacement, StartupPlacement DEF Next
<1> QED BY <1>1, <1>2

\* The inductive invariant holds in every reachable state.
THEOREM Invariance == Spec => []IInv
<1>1. Init => IInv
  BY InitType, InitPlacement DEF IInv
<1>2. IInv /\ [Next]_vars => IInv'
  BY StepType, StepPlacement DEF IInv
<1> QED BY <1>1, <1>2, PTL DEF Spec

\* Whatever the schema: two committed repositories of an owner share a name only
\* where the unique index is missing and the requests that made them were in
\* flight together.
THEOREM NamesAreUnique == Spec => []UniqueNames
<1>1. IInv => UniqueNames
  BY DEF IInv, Placement, TypeOK, NamesReserved, HoldsName, UniqueNames
<1> QED BY <1>1, Invariance, PTL

\* On a volume that survives restarts, a committed row has its directory at
\* every moment, restarts and startup restores included.
THEOREM StorageFollowsRows == Spec => []RowsHaveStorage
<1>1. IInv => RowsHaveStorage
  BY DEF IInv, Placement
<1> QED BY <1>1, Invariance, PTL

\* On such a volume no acknowledged commit is ever lost from a repository
\* that still exists.
THEOREM NoCommitLost == Spec => []AcknowledgedCommitsKept
<1>1. IInv => AcknowledgedCommitsKept
  BY DEF IInv, Placement
<1> QED BY <1>1, Invariance, PTL

-----------------------------------------------------------------------------
(* Where commits come from.  A repository that shares its key with no other *)
(* is only ever restored from what was packed from itself; for that, every  *)
(* archive and every iteration of the startup loop must know its origin.    *)

Past == {"committed", "settled"}

\* Everything that may still pack, restore or remove the directory of r.
Trusted(r) ==
    \/ r \in rows \cup doomed \cup todo
    \/ pc[r] = "committed"
    \/ \E i \in restoring : i.repo = r
    \/ \E k \in tasks : k.repo = r
    \/ \E w \in Worker : \E k \in taken[w] : k.repo = r
    \/ \E t \in Thread : r \in hook[t]

TrustedKnown ==
    \A r \in Repo : Trusted(r) =>
        /\ pc[r] \in Past
        /\ SlugsDistinct /\ KeyOwnedBy(r) => tree[r] \subseteq acked[r]

\* Archives in the bucket, and those packed and on their way.
Packed(a) == a \in bucket \/ \E p \in Thread \cup Worker : a \in upload[p]

ArchivesKnown ==
    \A a \in Archive : Packed(a) =>
        /\ pc[a.from] \in Past
        /\ a.key \in claims[a.from] /\ a.key[2] = Slug[a.arcname]
        /\ SlugsDistinct /\ KeyOwnedBy(a.from) => a.commits \subseteq acked[a.from]

\* The loop restores one repository at a time, and only where none is.
IterationsKnown ==
    /\ \A i, j \in restoring : i = j
    /\ \A i \in restoring :
          /\ i.repo \notin dirs
          /\ i.key \in claims[i.repo] /\ i.key[2] = Slug[meta[i.repo].name]

\* With distinct slugs no extraction is left under its name.
NothingUnderNames == SlugsDistinct => dirs \cap Name = {}

Origins == TrustedKnown /\ ArchivesKnown /\ IterationsKnown /\ NothingUnderNames

\* What every step respects.
Onward ==
    \A r \in Repo :
        /\ claims[r] \subseteq claims'[r]
        /\ pc[r] \in Past => pc'[r] \in Past /\ acked[r] \subseteq acked'[r] /\ meta'[r] = meta[r]

LEMMA OwnedBefore ==
    ASSUME Onward, NEW r \in Repo, KeyOwnedBy(r)'
    PROVE  KeyOwnedBy(r)
BY DEF Onward, KeyOwnedBy

LEMMA TrustedStays ==
    ASSUME TrustedKnown, Onward,
           \A r \in Repo : Trusted(r)' =>
               \/ Trusted(r) /\ tree'[r] \subseteq tree[r] \cup acked'[r]
               \/ pc'[r] \in Past /\ tree'[r] \subseteq acked'[r]
    PROVE  TrustedKnown'
<1> SUFFICES ASSUME NEW r \in Repo, Trusted(r)'
             PROVE  pc'[r] \in Past /\ (SlugsDistinct /\ KeyOwnedBy(r)' => tree'[r] \subseteq acked'[r])
  BY DEF TrustedKnown
<1>1. CASE pc'[r] \in Past /\ tree'[r] \subseteq acked'[r]
  BY <1>1
<1>2. CASE Trusted(r) /\ tree'[r] \subseteq tree[r] \cup acked'[r]
  BY <1>2, OwnedBefore DEF TrustedKnown, Onward
<1> QED BY <1>1, <1>2

\* A new archive is packed from a trusted repository, under a key it claims.
Freshly(a) ==
    /\ Trusted(a.from) /\ a.commits \subseteq tree[a.from]
    /\ a.key \in claims'[a.from] /\ a.key[2] = Slug[a.arcname]

LEMMA ArchivesStay ==
    ASSUME TrustedKnown, ArchivesKnown, Onward,
           \A a \in Archive : Packed(a)' => Packed(a) \/ Freshly(a)
    PROVE  ArchivesKnown'
<1> SUFFICES ASSUME NEW a \in Archive, Packed(a)'
             PROVE  /\ pc'[a.from] \in Past
                    /\ a.key \in claims'[a.from] /\ a.key[2] = Slug[a.arcname]
                    /\ SlugsDistinct /\ KeyOwnedBy(a.from)' => a.commits \subseteq acked'[a.from]
  BY DEF ArchivesKnown
<1>1. a.from \in Repo
  BY DEF Archive
<1>2. CASE Packed(a)
  BY <1>1, <1>2, OwnedBefore DEF ArchivesKnown, Onward
<1>3. CASE Freshly(a)
  BY <1>1, <1>3, OwnedBefore DEF TrustedKnown, Onward, Freshly
<1> QED BY <1>2, <1>3

LEMMA IterationsStay ==
    ASSUME TypeOK, TrustedKnown, IterationsKnown, Onward, restoring' \subseteq restoring,
           \A r \in Repo : r \in dirs' \ dirs => pc[r] \notin Past
    PROVE  IterationsKnown'
<1>1. \A i \in restoring : i.repo \in Repo /\ Trusted(i.repo)
  BY DEF TypeOK, Iteration, Trusted
<1>2. \A i \in restoring : pc[i.repo] \in Past
  BY <1>1 DEF TrustedKnown
<1> QED BY <1>1, <1>2 DEF IterationsKnown, Onward

-----------------------------------------------------------------------------
(* Making a repository *)

LEMMA MakeRepositoryOnward ==
    ASSUME IInv, NEW r \in Repo, MakeRepository(r)
    PROVE  Onward
<1> /\ pc \in [Repo -> {"unused", "flushed", "inited", "committed", "settled"}]
    /\ meta \in [Repo -> Meta] /\ acked \in [Repo -> SUBSET Commit]
  BY DEF IInv, TypeOK
<1> USE DEF Onward, Past, history
<1>1. ASSUME NEW m \in Meta, Flush(r, m) PROVE Onward
  BY <1>1 DEF Flush
<1>2. CASE \E u \in User, o \in Owner, n \in Name : CreateFlush(r, u, o, n)
  BY <1>2 DEF CreateFlush, Flush
<1>3. CASE \E u \in User, o \in Owner, s \in Repo : ForkFlush(r, u, o, s)
  BY <1>3 DEF ForkFlush, Flush
<1>4. ASSUME NEW new, InitBare(r, new) PROVE Onward
  BY <1>4 DEF InitBare
<1>5. CASE CloneBare(r)
  BY <1>5 DEF CloneBare
<1>6. ASSUME NEW left, DiskStepFails(r, left) PROVE Onward
  BY <1>6 DEF DiskStepFails
<1>7. CASE CommitRow(r)
  BY <1>7 DEF CommitRow
<1>8. CASE CommitFails(r)
  BY <1>8 DEF CommitFails
<1>9. ASSUME NEW sent, QueueBackup(r, sent) PROVE Onward
  BY <1>9 DEF QueueBackup
<1> QED BY <1>2, <1>3, <1>4, <1>5, <1>6, <1>7, <1>8, <1>9 DEF MakeRepository

LEMMA MakeRepositoryTrust ==
    ASSUME IInv, TrustedKnown, NEW r \in Repo, MakeRepository(r)
    PROVE  TrustedKnown'
<1> /\ pc \in [Repo -> {"unused", "flushed", "inited", "committed", "settled"}]
    /\ tree \in [Path -> SUBSET Commit] /\ Repo \subseteq Path
    /\ acked \in [Repo -> SUBSET Commit]
  BY DEF IInv, TypeOK, Path
<1> Onward
  BY MakeRepositoryOnward
<1>1. \/ /\ UNCHANGED <<rows, tasks>> /\ pc[r] \notin Past /\ pc'[r] # "committed"
         /\ \A q \in Repo \ {r} : pc'[q] = pc[q] /\ tree'[q] = tree[q]
      \/ CommitRow(r) \/ \E sent \in BOOLEAN : QueueBackup(r, sent)
  <2>1. CASE \/ \E u \in User, o \in Owner, n \in Name : CreateFlush(r, u, o, n)
             \/ \E u \in User, o \in Owner, s \in Repo : ForkFlush(r, u, o, s)
    BY <2>1 DEF CreateFlush, ForkFlush, Flush, disk, queue, Past
  <2>2. CASE InitBare(r, {}) \/ \E c \in Commit : InitBare(r, {c})
    BY <2>2 DEF InitBare, queue, Past
  <2>3. CASE CloneBare(r)
    BY <2>3 DEF CloneBare, queue, Past
  <2>4. CASE (\E left \in SUBSET {r} : DiskStepFails(r, left)) \/ CommitFails(r)
    BY <2>4 DEF DiskStepFails, CommitFails, disk, queue, Past
  <2> QED BY <2>1, <2>2, <2>3, <2>4 DEF MakeRepository
<1>2. UNCHANGED <<doomed, todo, restoring, taken, hook>>
  BY DEF MakeRepository, CreateFlush, ForkFlush, Flush, InitBare, CloneBare, DiskStepFails, CommitFails,
         CommitRow, QueueBackup, queue, startup
<1>3. CASE /\ UNCHANGED <<rows, tasks>> /\ pc[r] \notin Past /\ pc'[r] # "committed"
           /\ \A q \in Repo \ {r} : pc'[q] = pc[q] /\ tree'[q] = tree[q]
  <2>1. ASSUME NEW q \in Repo, Trusted(q)' PROVE Trusted(q) /\ tree'[q] \subseteq tree[q] \cup acked'[q]
    <3>1. Trusted(q)
      BY <1>2, <1>3, <2>1 DEF Trusted
    <3>2. q # r
      BY <1>3, <3>1 DEF TrustedKnown
    <3> QED BY <1>3, <3>1, <3>2
  <2> QED BY <2>1, TrustedStays
<1>4. CASE CommitRow(r)
  <2>1. ASSUME NEW q \in Repo, Trusted(q)', q # r PROVE Trusted(q)
    BY <1>2, <1>4, <2>1 DEF Trusted, CommitRow, queue
  <2>2. /\ tree' = tree /\ acked'[r] = tree[r] /\ pc'[r] \in Past
    BY <1>4 DEF CommitRow, disk, Past
  <2> QED BY <2>1, <2>2, TrustedStays
<1>5. ASSUME NEW sent \in BOOLEAN, QueueBackup(r, sent) PROVE TrustedKnown'
  <2>1. ASSUME NEW q \in Repo, Trusted(q)' PROVE Trusted(q)
    BY <1>2, <1>5, <2>1 DEF Trusted, QueueBackup
  <2>2. tree' = tree
    BY <1>5 DEF QueueBackup, disk
  <2> QED BY <2>1, <2>2, TrustedStays
<1> QED BY <1>1, <1>3, <1>4, <1>5

LEMMA MakeRepositoryOrigins ==
    ASSUME IInv, Origins, NEW r \in Repo, MakeRepository(r)
    PROVE  Origins'
<1> Onward
  BY MakeRepositoryOnward
<1>1. TrustedKnown'
  BY MakeRepositoryTrust DEF Origins
<1>2. UNCHANGED <<bucket, upload, restoring>>
  BY DEF MakeRepository, CreateFlush, ForkFlush, Flush, InitBare, CloneBare, DiskStepFails, CommitFails,
         CommitRow, QueueBackup, startup
<1>3. ArchivesKnown'
  <2>1. \A a \in Archive : Packed(a)' => Packed(a)
    BY <1>2 DEF Packed
  <2> QED BY <2>1, ArchivesStay DEF Origins
<1>4. dirs' \subseteq dirs \cup {r} /\ (pc[r] \in Past => dirs' = dirs)
  BY DEF MakeRepository, CreateFlush, ForkFlush, Flush, InitBare, CloneBare, DiskStepFails, CommitFails,
         CommitRow, QueueBackup, disk, Past
<1>5. IterationsKnown'
  <2>1. \A q \in Repo : q \in dirs' \ dirs => pc[q] \notin Past
    BY <1>4
  <2> QED BY <1>2, <2>1, IterationsStay DEF Origins, IInv
<1>6. NothingUnderNames'
  BY <1>4, PathsAssumption DEF Origins, NothingUnderNames
<1> QED BY <1>1, <1>3, <1>5, <1>6 DEF Origins

-----------------------------------------------------------------------------
(* Commits, deletion, owners *)

\* A step that adds no trust, no archive and no directory, and starts no iteration.
LEMMA QuietOrigins ==
    ASSUME IInv, Origins, Onward,
           \A r \in Repo : Trusted(r)' => Trusted(r) /\ tree'[r] \subseteq tree[r] \cup acked'[r],
           \A a \in Archive : Packed(a)' => Packed(a) \/ Freshly(a),
           restoring' \subseteq restoring, dirs' \subseteq dirs
    PROVE  Origins'
<1>1. TrustedKnown' /\ ArchivesKnown'
  BY TrustedStays, ArchivesStay DEF Origins
<1>2. IterationsKnown'
  BY IterationsStay DEF Origins, IInv
<1>3. NothingUnderNames'
  BY DEF Origins, NothingUnderNames
<1> QED BY <1>1, <1>2, <1>3 DEF Origins

LEMMA WriteDropOrigins ==
    ASSUME IInv, Origins, NEW r \in Repo, WriteCommit(r) \/ DropRepository(r)
    PROVE  Origins'
<1> /\ tree \in [Path -> SUBSET Commit] /\ Repo \subseteq Path
    /\ acked \in [Repo -> SUBSET Commit] /\ hook \in [Thread -> SUBSET Repo]
  BY DEF IInv, TypeOK, Path
<1>1. ASSUME NEW c \in Commit, WebCommit(r, c) \/ \E t \in Thread : Push(r, c, t) PROVE Origins'
  <2>1. /\ r \in rows /\ tree' = [tree EXCEPT ![r] = @ \cup {c}]
        /\ acked' = [acked EXCEPT ![r] = @ \cup {c}]
        /\ UNCHANGED <<pc, meta, rows, dirs, doomed, bucket, tasks, taken, upload, todo, restoring, claims>>
    BY <1>1 DEF WebCommit, Push, AddCommit, request, queue, startup
  <2>2. \A t \in Thread : hook'[t] \subseteq hook[t] \cup {r}
    BY <1>1 DEF WebCommit, Push
  <2>3. Onward
    BY <2>1 DEF Onward
  <2>4. ASSUME NEW q \in Repo, Trusted(q)' PROVE Trusted(q)
    BY <2>1, <2>2, <2>4 DEF Trusted
  <2>5. \A q \in Repo : tree'[q] \subseteq tree[q] \cup acked'[q]
    BY <2>1
  <2>6. \A a \in Archive : Packed(a)' => Packed(a)
    BY <2>1 DEF Packed
  <2> QED BY <2>1, <2>3, <2>4, <2>5, <2>6, QuietOrigins
<1>2. CASE DeleteRow(r)
  <2>1. /\ r \in rows /\ rows' = rows \ {r} /\ doomed' = doomed \cup {r}
        /\ UNCHANGED <<pc, meta, dirs, tree, bucket, tasks, taken, hook, upload, todo, restoring,
                       acked, claims>>
    BY <1>2 DEF DeleteRow, request, disk, queue, startup, history
  <2>2. Onward
    BY <2>1 DEF Onward
  <2>3. ASSUME NEW q \in Repo, Trusted(q)' PROVE Trusted(q)
    BY <2>1, <2>3 DEF Trusted
  <2>4. \A a \in Archive : Packed(a)' => Packed(a)
    BY <2>1 DEF Packed
  <2> QED BY <2>1, <2>2, <2>3, <2>4, QuietOrigins
<1>3. ASSUME NEW ok \in BOOLEAN, RemoveDirectory(r, ok) PROVE Origins'
  <2>1. /\ doomed' \subseteq doomed /\ dirs' \subseteq dirs
        /\ \A q \in Repo : tree'[q] \subseteq tree[q]
        /\ UNCHANGED <<pc, meta, rows, bucket, tasks, taken, hook, upload, todo, restoring,
                       acked, claims>>
    BY <1>3 DEF RemoveDirectory, request, queue, startup, history
  <2>2. Onward
    BY <2>1 DEF Onward
  <2>3. ASSUME NEW q \in Repo, Trusted(q)' PROVE Trusted(q)
    BY <2>1, <2>3 DEF Trusted
  <2>4. \A a \in Archive : Packed(a)' => Packed(a)
    BY <2>1 DEF Packed
  <2> QED BY <2>1, <2>2, <2>3, <2>4, QuietOrigins
<1> QED BY <1>1, <1>2, <1>3 DEF WriteCommit, DropRepository

LEMMA OwnerOrigins ==
    ASSUME IInv, Origins,
           \/ \E u \in User, h \in Handle : RenameUser(u, h)
           \/ \E o \in Org : DeleteOrg(o)
    PROVE  Origins'
<1>1. /\ rows' \subseteq rows
      /\ UNCHANGED <<pc, meta, dirs, tree, doomed, bucket, tasks, taken, hook, upload, todo,
                     restoring, acked, claims>>
  BY DEF RenameUser, DeleteOrg, request, disk, queue, startup, history
<1>2. Onward
  BY <1>1 DEF Onward
<1>3. ASSUME NEW q \in Repo, Trusted(q)' PROVE Trusted(q)
  BY <1>1, <1>3 DEF Trusted
<1>4. \A a \in Archive : Packed(a)' => Packed(a)
  BY <1>1 DEF Packed
<1> QED BY <1>1, <1>2, <1>3, <1>4, QuietOrigins

-----------------------------------------------------------------------------
(* Backups *)

\* What a hook or a worker packs is the directory of a trusted repository.
LEMMA PackedFresh ==
    ASSUME NEW r \in Repo, NEW h \in Handle, NEW n \in Name,
           Trusted(r), ObjectKey(h, n) \in claims'[r]
    PROVE  Freshly(ArchiveOf(r, h, n))
BY DEF Freshly, ArchiveOf, ObjectKey

LEMMA HookOrigins ==
    ASSUME IInv, Origins, NEW t \in Thread, HookStep(t)
    PROVE  Origins'
<1> /\ hook \in [Thread -> SUBSET Repo] /\ claims \in [Repo -> SUBSET Key]
    /\ upload \in [Thread \cup Worker -> SUBSET Archive] /\ rows \subseteq Repo
  BY DEF IInv, TypeOK
<1>1. PICK r \in Repo : HookPack(t, r)
  BY DEF HookStep
<1>2. /\ \A s \in Thread : hook'[s] \subseteq hook[s]
      /\ UNCHANGED <<pc, meta, rows, dirs, tree, doomed, bucket, tasks, taken, todo, restoring, acked>>
  BY <1>1 DEF HookPack, request, disk, queue, startup
<1>3. Onward
  BY <1>1, <1>2 DEF Onward, HookPack
<1>4. ASSUME NEW q \in Repo, Trusted(q)' PROVE Trusted(q)
  BY <1>2, <1>4 DEF Trusted
<1>5. ASSUME NEW a \in Archive, Packed(a)' PROVE Packed(a) \/ Freshly(a)
  <2>1. CASE r \in rows \cap dirs
    <3> DEFINE new == ArchiveOf(r, handle[meta[r].owner], meta[r].name)
    <3>1. upload' = [upload EXCEPT ![t] = {new}] /\ KeyNow(r) \in claims'[r]
      BY <1>1, <2>1 DEF HookPack
    <3>2. Freshly(new)
      <4>1. handle[meta[r].owner] \in Handle /\ meta[r].name \in Name
        BY MetaType DEF IInv
      <4>2. Trusted(r)
        BY <2>1 DEF Trusted
      <4> QED BY <3>1, <4>1, <4>2, PackedFresh DEF KeyNow
    <3> HIDE DEF new
    <3> QED BY <1>2, <1>5, <3>1, <3>2 DEF Packed
  <2>2. CASE r \notin rows \cap dirs
    BY <1>1, <1>2, <1>5, <2>2 DEF HookPack, Packed
  <2> QED BY <2>1, <2>2
<1> QED BY <1>2, <1>3, <1>4, <1>5, QuietOrigins

LEMMA WorkerOrigins ==
    ASSUME IInv, Origins, NEW w \in Worker, WorkerStep(w) \/ WorkerLost(w)
    PROVE  Origins'
<1> /\ taken \in [Worker -> SUBSET Task] /\ claims \in [Repo -> SUBSET Key]
    /\ upload \in [Thread \cup Worker -> SUBSET Archive] /\ tasks \subseteq Task
  BY DEF IInv, TypeOK
<1>1. ASSUME NEW k \in taken[w], WorkerPack(w, k) PROVE Origins'
  <2>1. k.repo \in Repo /\ k.owner \in Handle /\ k.name \in Name
    BY DEF Task
  <2> DEFINE new == ArchiveOf(k.repo, k.owner, k.name)
  <2>2. /\ upload' = [upload EXCEPT ![w] = {new}]
        /\ claims' = [claims EXCEPT ![k.repo] = @ \cup {ObjectKey(k.owner, k.name)}]
        /\ UNCHANGED <<pc, meta, rows, dirs, tree, doomed, bucket, tasks, taken, hook, todo,
                       restoring, acked>>
    BY <1>1 DEF WorkerPack, request, disk, queue, startup
  <2>3. Onward
    BY <2>2 DEF Onward
  <2>4. ASSUME NEW q \in Repo, Trusted(q)' PROVE Trusted(q)
    BY <2>2, <2>4 DEF Trusted
  <2>5. Freshly(new)
    <3>1. Trusted(k.repo)
      BY DEF Trusted
    <3> QED BY <2>1, <2>2, <3>1, PackedFresh
  <2> HIDE DEF new
  <2>6. ASSUME NEW a \in Archive, Packed(a)' PROVE Packed(a) \/ Freshly(a)
    BY <2>2, <2>5, <2>6 DEF Packed
  <2> QED BY <2>2, <2>3, <2>4, <2>6, QuietOrigins
<1>2. ASSUME UNCHANGED <<pc, meta, rows, dirs, tree, doomed, bucket, hook, todo, restoring, acked, claims>>,
             \A p \in Thread \cup Worker : upload'[p] \subseteq upload[p],
             \A r \in Repo : Trusted(r)' => Trusted(r)
      PROVE  Origins'
  <2>1. Onward
    BY <1>2 DEF Onward
  <2>2. \A a \in Archive : Packed(a)' => Packed(a)
    BY <1>2 DEF Packed
  <2> QED BY <1>2, <2>1, <2>2, QuietOrigins
<1>3. ASSUME NEW k \in tasks, WorkerTake(w, k) PROVE Origins'
  <2>1. /\ UNCHANGED <<pc, meta, rows, dirs, tree, doomed, bucket, hook, upload, todo, restoring,
                       acked, claims>>
        /\ tasks' \subseteq tasks /\ \A v \in Worker : taken'[v] \subseteq taken[v] \cup {k}
    BY <1>3 DEF WorkerTake, request, disk, startup, history
  <2>2. ASSUME NEW q \in Repo, Trusted(q)' PROVE Trusted(q)
    BY <2>1, <2>2 DEF Trusted
  <2> QED BY <1>2, <2>1, <2>2
<1>4. ASSUME NEW k \in taken[w], WorkerFindsNoDirectory(w, k) PROVE Origins'
  <2>1. /\ UNCHANGED <<pc, meta, rows, dirs, tree, doomed, bucket, hook, upload, todo, restoring,
                       acked, claims, tasks>>
        /\ \A v \in Worker : taken'[v] \subseteq taken[v]
    BY <1>4 DEF WorkerFindsNoDirectory, request, disk, startup, history
  <2>2. ASSUME NEW q \in Repo, Trusted(q)' PROVE Trusted(q)
    BY <2>1, <2>2 DEF Trusted
  <2> QED BY <1>2, <2>1, <2>2
<1>5. CASE WorkerLost(w)
  <2>1. /\ UNCHANGED <<pc, meta, rows, dirs, tree, doomed, bucket, hook, todo, restoring, acked, claims>>
        /\ \A p \in Thread \cup Worker : upload'[p] \subseteq upload[p]
        /\ tasks' = tasks \cup taken[w] /\ \A v \in Worker : taken'[v] \subseteq taken[v]
    BY <1>5 DEF WorkerLost, request, disk, startup, history
  <2>2. ASSUME NEW q \in Repo, Trusted(q)' PROVE Trusted(q)
    BY <2>1, <2>2 DEF Trusted
  <2> QED BY <1>2, <2>1, <2>2
<1> QED BY <1>1, <1>3, <1>4, <1>5 DEF WorkerStep

LEMMA UploadOrigins ==
    ASSUME IInv, Origins, NEW p \in Thread \cup Worker, UploadStep(p)
    PROVE  Origins'
<1> upload \in [Thread \cup Worker -> SUBSET Archive]
  BY DEF IInv, TypeOK
<1>1. PICK a \in upload[p] : PutObject(p, a) \/ PutFails(p, a)
  BY DEF UploadStep
<1>2. /\ bucket' \subseteq bucket \cup {a}
      /\ \A q \in Thread \cup Worker : upload'[q] \subseteq upload[q]
      /\ \A w \in Worker : taken'[w] \subseteq taken[w]
      /\ UNCHANGED <<pc, meta, rows, dirs, tree, doomed, tasks, hook, todo, restoring, acked, claims>>
  BY <1>1 DEF PutObject, PutFails, Acknowledge, request, disk, startup, history
<1>3. Onward
  BY <1>2 DEF Onward
<1>4. ASSUME NEW q \in Repo, Trusted(q)' PROVE Trusted(q)
  BY <1>2, <1>4 DEF Trusted
<1>5. \A b \in Archive : Packed(b)' => Packed(b)
  BY <1>2 DEF Packed
<1> QED BY <1>2, <1>3, <1>4, <1>5, QuietOrigins

-----------------------------------------------------------------------------
(* Restart and restore *)

LEMMA RestartOrigins ==
    ASSUME IInv, Origins, NEW listed \in {rows, {}}, Restart(listed)
    PROVE  Origins'
<1> /\ pc \in [Repo -> {"unused", "flushed", "inited", "committed", "settled"}]
    /\ hook \in [Thread -> SUBSET Repo] /\ rows \subseteq Repo
    /\ upload \in [Thread \cup Worker -> SUBSET Archive]
    /\ tree \in [Path -> SUBSET Commit] /\ Repo \subseteq Path
  BY DEF IInv, TypeOK, Path
<1>1. /\ pc' = [r \in Repo |-> IF pc[r] = "unused" THEN "unused" ELSE "settled"]
      /\ doomed' = {} /\ restoring' = {} /\ todo' \subseteq rows /\ dirs' \subseteq dirs
      /\ UNCHANGED <<meta, rows, bucket, tasks, taken, acked, claims>>
  BY DEF Restart, queue, history
<1>2. \A t \in Thread : hook'[t] = {}
  BY DEF Restart
<1>3. \A p \in Thread \cup Worker : upload'[p] \subseteq upload[p]
  BY DEF Restart
<1>4. \A r \in Repo : tree'[r] \subseteq tree[r]
  BY DEF Restart
<1>5. Onward
  BY <1>1 DEF Onward, Past
<1>6. ASSUME NEW q \in Repo, Trusted(q)' PROVE Trusted(q)
  BY <1>1, <1>2, <1>6 DEF Trusted
<1>7. \A a \in Archive : Packed(a)' => Packed(a)
  BY <1>1, <1>3 DEF Packed
<1> QED BY <1>1, <1>4, <1>5, <1>6, <1>7, QuietOrigins

\* A restore puts the archive's commits into the directory of a repository
\* that has none; when nobody else claims the key they are its own.
LEMMA RestoreOrigins ==
    ASSUME IInv, Origins, NEW i \in restoring, NEW a \in bucket, StartupRestore(i, a)
    PROVE  Origins'
<1> DEFINE n == meta[i.repo].name
<1>1. /\ i \in Iteration /\ i.repo \in Repo /\ a \in Archive /\ a.arcname \in Name
      /\ a.commits \subseteq Commit /\ a.from \in Repo
      /\ tree \in [Path -> SUBSET Commit] /\ Repo \subseteq Path /\ Name \subseteq Path
  BY DEF IInv, TypeOK, Iteration, Archive, Path
<1>2. n \in Name /\ Repo \cap Name = {}
  BY <1>1, MetaType, PathsAssumption DEF IInv
<1>3. /\ a.key = i.key /\ restoring' = {}
      /\ UNCHANGED <<pc, meta, together, rows, doomed, bucket, tasks, taken, hook, upload, todo, acked, claims>>
  BY DEF StartupRestore, Stored, request, queue, history
<1>4. /\ i.repo \notin dirs /\ i.key \in claims[i.repo] /\ i.key[2] = Slug[n]
      /\ a.key \in claims[a.from] /\ a.key[2] = Slug[a.arcname]
      /\ SlugsDistinct /\ KeyOwnedBy(a.from) => a.commits \subseteq acked[a.from]
  BY <1>1 DEF Origins, IterationsKnown, ArchivesKnown, Packed
<1>5. Onward
  BY <1>3 DEF Onward
<1>6. Trusted(i.repo) /\ pc[i.repo] \in Past
  <2>1. Trusted(i.repo)
    BY DEF Trusted
  <2> QED BY <1>1, <2>1 DEF Origins, TrustedKnown
<1>7. \A q \in Repo : Trusted(q)' => Trusted(q)
  BY <1>3 DEF Trusted
<1>8. ASSUME SlugsDistinct
      PROVE  a.arcname = n /\ a.arcname \notin dirs
  BY <1>1, <1>2, <1>3, <1>4, <1>8 DEF SlugsDistinct, Origins, NothingUnderNames
<1>9. ASSUME SlugsDistinct, KeyOwnedBy(i.repo)
      PROVE  a.commits \subseteq acked[i.repo]
  <2>1. a.from = i.repo
    BY <1>1, <1>3, <1>4, <1>9 DEF KeyOwnedBy
  <2> QED BY <1>4, <1>9, <2>1
<1>10. \A q \in Repo : q # i.repo => tree'[q] = tree[q]
  BY <1>1, <1>2 DEF StartupRestore
<1>11. ASSUME SlugsDistinct
       PROVE  tree'[i.repo] = a.commits /\ dirs' = dirs \cup {i.repo}
  <2> DEFINE content == [tree EXCEPT ![a.arcname] =
                            (IF a.arcname \in dirs THEN @ ELSE {}) \cup a.commits]
  <2>1. n \in dirs \cup {a.arcname} /\ i.repo \notin dirs
    BY <1>4, <1>8, <1>11
  <2>2. /\ dirs' = ((dirs \cup {a.arcname}) \ {n}) \cup {i.repo} \/ i.repo \in dirs \cup {a.arcname}
        /\ i.repo \notin dirs \cup {a.arcname}
        /\ tree' = [content EXCEPT ![i.repo] = content[n], ![n] = {}]
    BY <1>1, <1>2, <2>1 DEF StartupRestore
  <2>3. content \in [Path -> SUBSET Commit] /\ content[n] = a.commits
    BY <1>1, <1>2, <1>8, <1>11
  <2> HIDE DEF content
  <2>4. tree'[i.repo] = a.commits
    BY <1>1, <1>2, <2>2, <2>3
  <2>5. dirs' = dirs \cup {i.repo}
    BY <1>8, <1>11, <2>2
  <2> QED BY <2>4, <2>5
<1>12. TrustedKnown'
  <2> SUFFICES ASSUME NEW q \in Repo, Trusted(q)'
               PROVE  pc'[q] \in Past /\ (SlugsDistinct /\ KeyOwnedBy(q)' => tree'[q] \subseteq acked'[q])
    BY DEF TrustedKnown
  <2>1. Trusted(q) /\ pc'[q] \in Past /\ KeyOwnedBy(q)' = KeyOwnedBy(q) /\ acked' = acked
    BY <1>3, <1>7 DEF Origins, TrustedKnown, KeyOwnedBy
  <2>2. CASE q = i.repo
    BY <1>9, <1>11, <2>1, <2>2
  <2>3. CASE q # i.repo
    BY <1>10, <2>1, <2>3 DEF Origins, TrustedKnown
  <2> QED BY <2>2, <2>3
<1>13. ArchivesKnown'
  <2>1. \A b \in Archive : Packed(b)' => Packed(b)
    BY <1>3 DEF Packed
  <2> QED BY <1>5, <2>1, ArchivesStay DEF Origins
<1>14. IterationsKnown'
  BY <1>3 DEF IterationsKnown
<1>15. NothingUnderNames'
  BY <1>1, <1>2, <1>11 DEF Origins, NothingUnderNames
<1> QED BY <1>12, <1>13, <1>14, <1>15 DEF Origins

LEMMA StartupOrigins ==
    ASSUME IInv, Origins, StartupStep
    PROVE  Origins'
<1>1. ASSUME NEW r \in todo, StartupSkip(r) \/ StartupGiveUp(r) PROVE Origins'
  <2>1. /\ todo' \subseteq todo
        /\ UNCHANGED <<pc, meta, rows, dirs, tree, doomed, bucket, tasks, taken, hook, upload,
                       restoring, acked, claims>>
    BY <1>1 DEF StartupSkip, StartupGiveUp, request, disk, queue, history
  <2>2. Onward
    BY <2>1 DEF Onward
  <2>3. ASSUME NEW q \in Repo, Trusted(q)' PROVE Trusted(q)
    BY <2>1, <2>3 DEF Trusted
  <2>4. \A a \in Archive : Packed(a)' => Packed(a)
    BY <2>1 DEF Packed
  <2> QED BY <2>1, <2>2, <2>3, <2>4, QuietOrigins
<1>2. ASSUME NEW r \in todo, NEW found \in BOOLEAN, StartupProbe(r, found) PROVE Origins'
  <2> DEFINE i == [repo |-> r, key |-> KeyNow(r), found |-> found]
  <2>1. /\ r \in Repo /\ r \notin dirs /\ todo' \subseteq todo /\ restoring' = {i}
        /\ claims \in [Repo -> SUBSET Key] /\ claims' = [claims EXCEPT ![r] = @ \cup {KeyNow(r)}]
        /\ UNCHANGED <<pc, meta, rows, dirs, tree, doomed, bucket, tasks, taken, hook, upload, acked>>
    BY <1>2 DEF StartupProbe, request, disk, queue, IInv, TypeOK
  <2>2. Onward
    BY <2>1 DEF Onward
  <2>3. ASSUME NEW q \in Repo, Trusted(q)' PROVE Trusted(q)
    BY <2>1, <2>3 DEF Trusted
  <2>4. TrustedKnown'
    BY <2>1, <2>2, <2>3, TrustedStays DEF Origins
  <2>5. ArchivesKnown'
    <3>1. \A a \in Archive : Packed(a)' => Packed(a)
      BY <2>1 DEF Packed
    <3> QED BY <2>2, <3>1, ArchivesStay DEF Origins
  <2>6. IterationsKnown'
    <3>1. i.repo = r /\ i.key \in claims'[r] /\ i.key[2] = Slug[meta'[r].name]
      BY <2>1 DEF KeyNow, ObjectKey
    <3> HIDE DEF i
    <3> QED BY <2>1, <3>1 DEF IterationsKnown
  <2>7. NothingUnderNames'
    BY <2>1 DEF Origins, NothingUnderNames
  <2> QED BY <2>4, <2>5, <2>6, <2>7 DEF Origins
<1>3. ASSUME NEW i \in restoring, StartupRestoreFails(i) PROVE Origins'
  <2>1. /\ restoring' = {}
        /\ UNCHANGED <<pc, meta, rows, dirs, tree, doomed, bucket, tasks, taken, hook, upload,
                       todo, acked, claims>>
    BY <1>3 DEF StartupRestoreFails, request, disk, queue, history
  <2>2. Onward
    BY <2>1 DEF Onward
  <2>3. ASSUME NEW q \in Repo, Trusted(q)' PROVE Trusted(q)
    BY <2>1, <2>3 DEF Trusted
  <2>4. \A a \in Archive : Packed(a)' => Packed(a)
    BY <2>1 DEF Packed
  <2> QED BY <2>1, <2>2, <2>3, <2>4, QuietOrigins
<1>4. ASSUME NEW i \in restoring, StartupReinit(i) PROVE Origins'
  <2>1. /\ restoring' = {} /\ dirs' = dirs \cup {i.repo} /\ i.repo \in Repo
        /\ UNCHANGED <<pc, meta, together, rows, doomed, bucket, tasks, taken, hook, upload, todo, acked, claims>>
    BY <1>4 DEF StartupReinit, request, queue, history, IInv, TypeOK, Iteration
  <2>2. \A q \in Repo : tree'[q] \subseteq tree[q]
    <3>1. tree \in [Path -> SUBSET Commit] /\ Repo \subseteq Path
      BY DEF IInv, TypeOK, Path
    <3> QED BY <1>4, <3>1 DEF StartupReinit
  <2>3. Onward
    BY <2>1 DEF Onward
  <2>4. ASSUME NEW q \in Repo, Trusted(q)' PROVE Trusted(q)
    BY <2>1, <2>4 DEF Trusted
  <2>5. \A a \in Archive : Packed(a)' => Packed(a)
    BY <2>1 DEF Packed
  <2>6. TrustedKnown' /\ ArchivesKnown'
    BY <2>2, <2>3, <2>4, <2>5, TrustedStays, ArchivesStay DEF Origins
  <2>7. IterationsKnown' /\ NothingUnderNames'
    BY <2>1, PathsAssumption DEF Origins, IterationsKnown, NothingUnderNames
  <2> QED BY <2>6, <2>7 DEF Origins
<1> QED BY <1>1, <1>2, <1>3, <1>4, RestoreOrigins DEF StartupStep

LEMMA InitOrigins == Init => Origins
BY DEF Init, Origins, TrustedKnown, Trusted, ArchivesKnown, Packed, IterationsKnown, NothingUnderNames

LEMMA StepOrigins == IInv /\ Origins /\ [Next]_vars => Origins'
<1> SUFFICES ASSUME IInv, Origins, [Next]_vars PROVE Origins'
  OBVIOUS
<1>1. CASE UNCHANGED vars
  BY <1>1 DEF vars, Origins, TrustedKnown, Trusted, ArchivesKnown, Packed, IterationsKnown,
     NothingUnderNames, KeyOwnedBy
<1>2. CASE Next
  BY <1>2, MakeRepositoryOrigins, WriteDropOrigins, OwnerOrigins, HookOrigins,
     WorkerOrigins, UploadOrigins, RestartOrigins, StartupOrigins DEF Next
<1> QED BY <1>1, <1>2

LEMMA OriginsAlways == Spec => []Origins
<1> QED BY InitOrigins, StepOrigins, Invariance, PTL DEF Spec

\* A repository that shares its archive key with no other one, now or before,
\* never holds a commit its own clients do not know of, nor does its archive.
THEOREM OnlyOwnCommits == Spec => []NoForeignCommits
<1>1. IInv /\ Origins => NoForeignCommits
  <2> SUFFICES ASSUME IInv, Origins, SlugsDistinct
               PROVE  /\ \A r \in rows \cap dirs : KeyOwnedBy(r) => tree[r] \subseteq acked[r]
                      /\ \A a \in bucket : KeyOwnedBy(a.from) => a.commits \subseteq acked[a.from]
    BY DEF NoForeignCommits
  <2>1. rows \subseteq Repo /\ bucket \subseteq Archive
    BY DEF IInv, TypeOK
  <2>2. \A r \in rows : Trusted(r)
    BY DEF Trusted
  <2>3. \A a \in bucket : Packed(a)
    BY DEF Packed
  <2> QED BY <2>1, <2>2, <2>3 DEF Origins, TrustedKnown, ArchivesKnown
<1> QED BY <1>1, Invariance, OriginsAlways, PTL

-----------------------------------------------------------------------------
(* The startup loop misses nothing *)

\* A repository, committed or in flight, has an owner that exists: no iteration
\* of the loop gives up on a row, unless a query fails.
Owned == \A r \in Repo : HoldsName(r) => OwnerExists(r)

Covered == Owned /\ StartupCoversMissing

\* An owner with rows or requests in flight is not deleted under them.
LEMMA OwnedStays == IInv /\ Owned /\ [Next]_vars => Owned'
<1> SUFFICES ASSUME IInv, Owned, [Next]_vars PROVE Owned'
  OBVIOUS
<1> /\ pc \in [Repo -> {"unused", "flushed", "inited", "committed", "settled"}]
    /\ meta \in [Repo -> Meta] /\ rows \subseteq Repo
  BY DEF IInv, TypeOK
<1>1. ASSUME orgs' = orgs, NEW r \in Repo,
             \A q \in Repo : HoldsName(q)' => meta'[q] = meta[q] /\ (HoldsName(q) \/ (q = r /\ OwnerExists(q)))
      PROVE  Owned'
  BY <1>1 DEF Owned, OwnerExists
<1>2. ASSUME orgs' = orgs, UNCHANGED meta, \A q \in Repo : HoldsName(q)' => HoldsName(q)
      PROVE  Owned'
  BY <1>2 DEF Owned, OwnerExists
<1>3. ASSUME NEW r \in Repo, MakeRepository(r) PROVE Owned'
  <2>1. ASSUME NEW m, Flush(r, m), m.owner \in User \cup orgs PROVE Owned'
    <3>1. /\ meta' = [meta EXCEPT ![r] = m] /\ pc' = [pc EXCEPT ![r] = "flushed"]
          /\ UNCHANGED <<orgs, rows>>
      BY <2>1 DEF Flush, people
    <3>2. \A q \in Repo : q # r => HoldsName(q)' = HoldsName(q) /\ meta'[q] = meta[q]
      BY <3>1 DEF HoldsName, InFlight
    <3>3. meta'[r].owner \in User \cup orgs'
      BY <2>1, <3>1
    <3> QED BY <3>1, <3>2, <3>3 DEF Owned, OwnerExists
  <2>2. CASE \E u \in User, o \in Owner, n \in Name : CreateFlush(r, u, o, n)
    BY <2>1, <2>2 DEF CreateFlush, MayOwn
  <2>3. CASE \E u \in User, o \in Owner, s \in Repo : ForkFlush(r, u, o, s)
    BY <2>1, <2>3 DEF ForkFlush
  <2>4. CASE \/ InitBare(r, {}) \/ \E c \in Commit : InitBare(r, {c})
             \/ CloneBare(r) \/ \E left \in SUBSET {r} : DiskStepFails(r, left)
             \/ CommitFails(r) \/ \E sent \in BOOLEAN : QueueBackup(r, sent)
    <3>1. orgs' = orgs /\ meta' = meta /\ rows' = rows
      BY <2>4 DEF InitBare, CloneBare, DiskStepFails, CommitFails, QueueBackup, people
    <3>2. \A q \in Repo : InFlight(q)' => InFlight(q)
      BY <2>4 DEF InitBare, CloneBare, DiskStepFails, CommitFails, QueueBackup, InFlight
    <3> QED BY <1>2, <3>1, <3>2 DEF HoldsName
  <2>5. CASE CommitRow(r)
    <3>1. orgs' = orgs /\ meta' = meta /\ rows' = rows \cup {r} /\ InFlight(r)
      BY <2>5 DEF CommitRow, people, InFlight
    <3>2. \A q \in Repo : InFlight(q)' => InFlight(q)
      BY <2>5 DEF CommitRow, InFlight
    <3> QED BY <1>2, <3>1, <3>2 DEF HoldsName
  <2> QED BY <1>3, <2>2, <2>3, <2>4, <2>5 DEF MakeRepository
<1>4. ASSUME NEW r \in Repo, WriteCommit(r) \/ DropRepository(r) PROVE Owned'
  <2>1. UNCHANGED <<orgs, meta, pc>> /\ rows' \subseteq rows
    BY <1>4 DEF WriteCommit, WebCommit, Push, AddCommit, DropRepository, DeleteRow, RemoveDirectory,
       request, people
  <2> QED BY <1>2, <2>1 DEF HoldsName, InFlight
<1>5. ASSUME NEW o \in Org, DeleteOrg(o) PROVE Owned'
  <2>1. /\ orgs' = orgs \ {o} /\ rows' = {r \in rows : meta[r].owner # o} /\ UNCHANGED <<pc, meta>>
        /\ \A q \in Repo : InFlight(q) => meta[q].owner # o
    BY <1>5 DEF DeleteOrg, request
  <2> QED BY <2>1 DEF Owned, OwnerExists, HoldsName, InFlight
<1>6. CASE \/ \E u \in User, h \in Handle : RenameUser(u, h)
           \/ \E t \in Thread : HookStep(t)
           \/ \E w \in Worker : WorkerStep(w) \/ WorkerLost(w)
           \/ \E p \in Thread \cup Worker : UploadStep(p)
           \/ StartupStep
  <2>1. UNCHANGED <<orgs, meta, pc, rows>>
    <3>1. ASSUME NEW u \in User, NEW h \in Handle, RenameUser(u, h) PROVE UNCHANGED <<orgs, meta, pc, rows>>
      BY <3>1 DEF RenameUser, request
    <3>2. CASE (\E t \in Thread : HookStep(t)) \/ \E p \in Thread \cup Worker : UploadStep(p)
      BY <3>2 DEF HookStep, HookPack, UploadStep, PutObject, PutFails, request, people
    <3>3. CASE \E w \in Worker : WorkerStep(w) \/ WorkerLost(w)
      BY <3>3 DEF WorkerStep, WorkerTake, WorkerPack, WorkerFindsNoDirectory, WorkerLost, request, people
    <3>4. CASE StartupStep
      BY <3>4 DEF StartupStep, StartupSkip, StartupGiveUp, StartupProbe, StartupRestore,
         StartupRestoreFails, StartupReinit, request, people
    <3> QED BY <1>6, <3>1, <3>2, <3>3, <3>4
  <2> QED BY <1>2, <2>1 DEF HoldsName, InFlight
<1>7. ASSUME NEW listed \in {rows, {}}, Restart(listed) PROVE Owned'
  <2>1. UNCHANGED <<orgs, meta, rows>> /\ \A q \in Repo : ~InFlight(q)'
    BY <1>7 DEF Restart, people, InFlight
  <2> QED BY <1>2, <2>1 DEF HoldsName
<1>8. CASE UNCHANGED vars
  BY <1>2, <1>8 DEF vars, HoldsName, InFlight
<1> QED BY <1>3, <1>4, <1>5, <1>6, <1>7, <1>8 DEF Next

\* A step that commits no row without a directory, takes none away and leaves
\* the loop alone keeps it covering.
LEMMA CoveringStays ==
    ASSUME IInv, StartupCoversMissing,
           \A r \in rows' \ dirs' : r \in rows \ dirs,
           UNCHANGED <<todo, restoring>>
    PROVE  StartupCoversMissing'
BY DEF StartupCoversMissing

LEMMA StartupCovers ==
    ASSUME IInv, Origins, Owned, StartupCoversMissing, StartupStep
    PROVE  StartupCoversMissing'
<1> SUFFICES ASSUME ~Faults, SlugsDistinct, NEW r \in rows' \ dirs'
             PROVE  r \in todo' \/ \E i \in restoring' : i.repo = r
  BY DEF StartupCoversMissing
<1>1. rows' = rows
  BY DEF StartupStep, StartupSkip, StartupGiveUp, StartupProbe, StartupRestore,
         StartupRestoreFails, StartupReinit
<1>2. r \in Repo /\ rows \subseteq Repo
  BY <1>1 DEF IInv, TypeOK
<1>3. r \notin dirs => r \in todo \/ \E i \in restoring : i.repo = r
  BY <1>1 DEF StartupCoversMissing
<1>4. ASSUME NEW q \in todo, \/ StartupSkip(q) \/ StartupGiveUp(q)
                             \/ \E found \in BOOLEAN : StartupProbe(q, found)
      PROVE  r \in todo' \/ \E i \in restoring' : i.repo = r
  <2>1. dirs' = dirs /\ todo' = todo \ {q} /\ restoring = {}
    BY <1>4 DEF StartupSkip, StartupGiveUp, StartupProbe, disk
  <2>2. r \in todo
    BY <1>3, <2>1
  <2>3. CASE q = r
    <3>1. r \notin dirs /\ OwnerExists(r)
      BY <1>1, <1>2, <2>1 DEF Owned, HoldsName
    <3>2. PICK found \in BOOLEAN : StartupProbe(r, found)
      BY <1>4, <2>3, <3>1 DEF StartupSkip, StartupGiveUp
    <3>3. [repo |-> r, key |-> KeyNow(r), found |-> found] \in restoring'
      BY <3>2 DEF StartupProbe
    <3> QED BY <3>3
  <2> QED BY <2>1, <2>2, <2>3
<1>5. ASSUME NEW i \in restoring, NEW a \in bucket, StartupRestore(i, a)
      PROVE  r \in todo'
  <2>1. /\ i.repo \in Repo /\ a \in Archive /\ a.arcname \in Name /\ meta[i.repo].name \in Name
        /\ i.repo \notin Name /\ r \notin Name
    <3>1. i.repo \in Repo /\ a \in Archive
      BY DEF IInv, TypeOK, Iteration
    <3> QED BY <1>2, <3>1, MetaType, PathsAssumption DEF Archive, IInv
  <2>2. a.arcname = meta[i.repo].name
    BY <1>5, <2>1 DEF Origins, IterationsKnown, ArchivesKnown, Packed, StartupRestore, Stored,
       SlugsDistinct
  <2>3. todo' = todo /\ dirs \cap Repo \subseteq dirs' /\ i.repo \in dirs'
    BY <1>5, <2>1, <2>2, PathsAssumption DEF StartupRestore
  <2>4. r \notin dirs /\ r # i.repo
    BY <1>2, <2>3
  <2>5. \A j \in restoring : j = i
    BY DEF Origins, IterationsKnown
  <2> QED BY <1>3, <2>3, <2>4, <2>5
<1>6. ASSUME NEW i \in restoring, StartupReinit(i)
      PROVE  r \in todo'
  <2>1. todo' = todo /\ dirs' = dirs \cup {i.repo}
    BY <1>6 DEF StartupReinit
  <2>2. \A j \in restoring : j = i
    BY DEF Origins, IterationsKnown
  <2> QED BY <1>3, <2>1, <2>2
<1>7. ASSUME NEW i \in restoring, StartupRestoreFails(i)
      PROVE  FALSE
  BY <1>7 DEF StartupRestoreFails
<1> QED BY <1>4, <1>5, <1>6, <1>7 DEF StartupStep

LEMMA StepCovers == IInv /\ Origins /\ Covered /\ [Next]_vars => Covered'
<1> SUFFICES ASSUME IInv, Origins, Covered, [Next]_vars PROVE Covered'
  OBVIOUS
<1>1. Owned'
  BY OwnedStays DEF Covered
<1> SUFFICES StartupCoversMissing'
  BY <1>1 DEF Covered
<1> StartupCoversMissing /\ Owned
  BY DEF Covered
<1>2. ASSUME NEW r \in Repo, MakeRepository(r) PROVE StartupCoversMissing'
  <2>1. UNCHANGED <<todo, restoring>> /\ dirs \subseteq dirs'
    BY <1>2 DEF MakeRepository, CreateFlush, ForkFlush, Flush, InitBare, CloneBare, DiskStepFails,
       CommitFails, CommitRow, QueueBackup, startup, disk
  <2>2. rows' = rows \/ CommitRow(r)
    BY <1>2 DEF MakeRepository, CreateFlush, ForkFlush, Flush, InitBare, CloneBare, DiskStepFails,
       CommitFails, QueueBackup
  <2>3. CommitRow(r) => rows' = rows \cup {r} /\ r \in dirs
    BY DEF CommitRow, IInv, Placement, RequestsInOrder
  <2> QED BY <2>1, <2>2, <2>3, CoveringStays
<1>3. ASSUME NEW r \in Repo, WriteCommit(r) \/ DropRepository(r) PROVE StartupCoversMissing'
  <2>1. UNCHANGED <<todo, restoring>> /\ rows' \subseteq rows /\ dirs \ {r} \subseteq dirs'
    BY <1>3 DEF WriteCommit, WebCommit, Push, AddCommit, DropRepository, DeleteRow, RemoveDirectory,
       startup, disk
  <2>2. r \in rows' => dirs \subseteq dirs'
    BY <1>3 DEF WriteCommit, WebCommit, Push, AddCommit, DropRepository, DeleteRow, RemoveDirectory,
       disk, IInv, Placement, DeletedOnce
  <2> QED BY <2>1, <2>2, CoveringStays
<1>4. CASE \/ \E u \in User, h \in Handle : RenameUser(u, h)
           \/ \E o \in Org : DeleteOrg(o)
           \/ \E t \in Thread : HookStep(t)
           \/ \E w \in Worker : WorkerStep(w) \/ WorkerLost(w)
           \/ \E p \in Thread \cup Worker : UploadStep(p)
  <2>1. UNCHANGED <<todo, restoring, dirs>> /\ rows' \subseteq rows
    <3>1. CASE (\E u \in User, h \in Handle : RenameUser(u, h)) \/ \E o \in Org : DeleteOrg(o)
      BY <3>1 DEF RenameUser, DeleteOrg, startup, disk
    <3>2. CASE (\E t \in Thread : HookStep(t)) \/ \E p \in Thread \cup Worker : UploadStep(p)
      BY <3>2 DEF HookStep, HookPack, UploadStep, PutObject, PutFails, startup, disk
    <3>3. CASE \E w \in Worker : WorkerStep(w) \/ WorkerLost(w)
      BY <3>3 DEF WorkerStep, WorkerTake, WorkerPack, WorkerFindsNoDirectory, WorkerLost, startup, disk
    <3> QED BY <1>4, <3>1, <3>2, <3>3
  <2> QED BY <2>1, CoveringStays
<1>5. ASSUME NEW listed \in {rows, {}}, Restart(listed) PROVE StartupCoversMissing'
  BY <1>5 DEF Restart, StartupCoversMissing
<1>6. CASE StartupStep
  BY <1>6, StartupCovers
<1>7. CASE UNCHANGED vars
  BY <1>7, CoveringStays DEF vars
<1> QED BY <1>2, <1>3, <1>4, <1>5, <1>6, <1>7 DEF Next

\* After a wipe the startup loop leaves no row without a directory: every one
\* is ahead of it, under way, or there.
THEOREM LoopCoversMissing == Spec => []StartupCoversMissing
<1>1. Init => Covered
  BY DEF Init, Covered, Owned, HoldsName, InFlight, StartupCoversMissing
<1>2. Covered => StartupCoversMissing
  BY DEF Covered
<1> QED BY <1>1, <1>2, StepCovers, Invariance, OriginsAlways, PTL DEF Spec

-----------------------------------------------------------------------------
(* Backups that were queued, and archives that are looked for *)

\* A worker holds one message at a time, and packs for that message only.
PackedForTask ==
    \A w \in Worker :
        /\ \A k, l \in taken[w] : k = l
        /\ \A a \in upload[w] : \E k \in taken[w] : k.repo = a.from

LEMMA PackingStays ==
    ASSUME PackedForTask, UNCHANGED taken, \A w \in Worker : upload'[w] = upload[w]
    PROVE  PackedForTask'
BY DEF PackedForTask

LEMMA StepPacks == TypeOK /\ PackedForTask /\ [Next]_vars => PackedForTask'
<1> SUFFICES ASSUME TypeOK, PackedForTask, [Next]_vars PROVE PackedForTask'
  OBVIOUS
<1>0. /\ upload \in [Thread \cup Worker -> SUBSET Archive] /\ taken \in [Worker -> SUBSET Task]
      /\ \A w \in Worker : w \notin Thread
  BY ProcessAssumption DEF TypeOK
<1>1. ASSUME NEW r \in Repo, MakeRepository(r) \/ WriteCommit(r) \/ DropRepository(r)
      PROVE  PackedForTask'
  <2>1. UNCHANGED <<taken, upload>>
    BY <1>1 DEF MakeRepository, CreateFlush, ForkFlush, Flush, InitBare, CloneBare, DiskStepFails,
       CommitRow, CommitFails, QueueBackup, WriteCommit, WebCommit, Push, DropRepository, DeleteRow,
       RemoveDirectory, queue
  <2> QED BY <2>1, PackingStays
<1>2. ASSUME \/ \E u \in User, h \in Handle : RenameUser(u, h)
             \/ \E o \in Org : DeleteOrg(o)
             \/ StartupStep
             \/ UNCHANGED vars
      PROVE  PackedForTask'
  <2>1. UNCHANGED <<taken, upload>>
    BY <1>2 DEF RenameUser, DeleteOrg, StartupStep, StartupSkip, StartupGiveUp, StartupProbe,
       StartupRestore, StartupRestoreFails, StartupReinit, queue, vars
  <2> QED BY <2>1, PackingStays
<1>3. ASSUME NEW listed \in {rows, {}}, Restart(listed)
      PROVE  PackedForTask'
  <2>1. UNCHANGED taken /\ \A w \in Worker : upload'[w] = upload[w]
    BY <1>3 DEF Restart, queue
  <2> QED BY <2>1, PackingStays
<1>4. ASSUME NEW t \in Thread, HookStep(t)
      PROVE  PackedForTask'
  <2>1. UNCHANGED taken /\ \A w \in Worker : upload'[w] = upload[w]
    BY <1>0, <1>4 DEF HookStep, HookPack, queue
  <2> QED BY <2>1, PackingStays
<1>5. ASSUME NEW w \in Worker, WorkerStep(w) \/ WorkerLost(w)
      PROVE  PackedForTask'
  <2>1. \A v \in Worker : v # w => upload'[v] = upload[v] /\ taken'[v] = taken[v]
    BY <1>0, <1>5 DEF WorkerStep, WorkerTake, WorkerPack, WorkerFindsNoDirectory, WorkerLost, queue
  <2>2. /\ \A k, l \in taken'[w] : k = l
        /\ \A a \in upload'[w] : \E k \in taken'[w] : k.repo = a.from
    <3>1. ASSUME NEW k \in tasks, WorkerTake(w, k) PROVE taken'[w] = {k} /\ upload'[w] = {}
      BY <1>0, <3>1 DEF WorkerTake, PackedForTask
    <3>2. ASSUME NEW k \in taken[w], WorkerPack(w, k)
          PROVE  taken'[w] = taken[w] /\ upload'[w] = {ArchiveOf(k.repo, k.owner, k.name)}
      BY <1>0, <3>2 DEF WorkerPack, queue
    <3>3. ASSUME NEW k \in taken[w], WorkerFindsNoDirectory(w, k) \/ WorkerLost(w)
          PROVE  taken'[w] = {} /\ upload'[w] = {}
      BY <1>0, <3>3 DEF WorkerFindsNoDirectory, WorkerLost
    <3>4. WorkerLost(w) => \E k \in taken[w] : TRUE
      BY DEF WorkerLost
    <3>5. \A k : ArchiveOf(k.repo, k.owner, k.name).from = k.repo
      BY DEF ArchiveOf
    <3>6. CASE \E k \in tasks : WorkerTake(w, k)
      BY <3>1, <3>6
    <3>7. CASE \E k \in taken[w] : WorkerPack(w, k)
      BY <3>2, <3>5, <3>7 DEF PackedForTask
    <3>8. CASE \E k \in taken[w] : WorkerFindsNoDirectory(w, k) \/ WorkerLost(w)
      BY <3>3, <3>8
    <3> QED BY <1>5, <3>4, <3>6, <3>7, <3>8 DEF WorkerStep
  <2> QED BY <2>1, <2>2 DEF PackedForTask
<1>6. ASSUME NEW p \in Thread \cup Worker, UploadStep(p)
      PROVE  PackedForTask'
  <2>1. /\ upload' = [upload EXCEPT ![p] = {}]
        /\ taken' = [w \in Worker |-> IF w = p THEN {} ELSE taken[w]]
    BY <1>6 DEF UploadStep, PutObject, PutFails, Acknowledge
  <2>2. \A w \in Worker :
          /\ w = p => upload'[w] = {} /\ taken'[w] = {}
          /\ w # p => upload'[w] = upload[w] /\ taken'[w] = taken[w]
    BY <1>0, <2>1
  <2> QED BY <2>2 DEF PackedForTask
<1> QED BY <1>1, <1>2, <1>3, <1>4, <1>5, <1>6 DEF Next

\* A backup of r is queued, or a worker has its message.
BackupPending(r) == \E k \in tasks \cup UNION {taken[w] : w \in Worker} : k.repo = r

\* Where worker and API share a disk that lasts, and B2 answers, no step drops
\* a backup that is pending: not a worker that dies, not a restart of the API,
\* not a rename.  It ends only when its archive is put, or the row is gone.
BackupNotDropped ==
    [][\A r \in Repo :
         SharedDisk /\ ~Faults /\ ~EphemeralDisk /\ BackupPending(r) =>
           \/ BackupPending(r)'
           \/ r \notin rows'
           \/ \E w \in Worker : \E a \in upload[w] : a.from = r /\ a \in bucket']_vars

LEMMA PendingStays ==
    ASSUME IInv, PackedForTask, [Next]_vars, NEW r \in Repo, BackupPending(r),
           SharedDisk, ~Faults, ~EphemeralDisk
    PROVE  \/ BackupPending(r)'
           \/ r \notin rows'
           \/ \E w \in Worker : \E a \in upload[w] : a.from = r /\ a \in bucket'
<1> DEFINE Goal == \/ BackupPending(r)'
                   \/ r \notin rows'
                   \/ \E w \in Worker : \E a \in upload[w] : a.from = r /\ a \in bucket'
<1>0. taken \in [Worker -> SUBSET Task]
  BY DEF IInv, TypeOK
<1>1. ASSUME tasks \subseteq tasks', taken' = taken PROVE Goal
  BY <1>1 DEF BackupPending
<1>2. PICK k \in tasks \cup UNION {taken[w] : w \in Worker} : k.repo = r
  BY DEF BackupPending
<1>3. ASSUME k \in tasks' \/ \E w \in Worker : k \in taken'[w] PROVE Goal
  BY <1>2, <1>3 DEF BackupPending
<1>4. ASSUME NEW q \in Repo, MakeRepository(q) \/ WriteCommit(q) \/ DropRepository(q)
      PROVE  Goal
  <2>1. tasks \subseteq tasks' /\ taken' = taken
    BY <1>4 DEF MakeRepository, CreateFlush, ForkFlush, Flush, InitBare, CloneBare, DiskStepFails,
       CommitRow, CommitFails, QueueBackup, WriteCommit, WebCommit, Push, DropRepository, DeleteRow,
       RemoveDirectory, queue
  <2> QED BY <1>1, <2>1
<1>5. ASSUME \/ \E u \in User, h \in Handle : RenameUser(u, h)
             \/ \E o \in Org : DeleteOrg(o)
             \/ \E listed \in {rows, {}} : Restart(listed)
             \/ StartupStep
             \/ \E t \in Thread : HookStep(t)
             \/ UNCHANGED vars
      PROVE  Goal
  <2>1. UNCHANGED <<tasks, taken>>
    BY <1>5 DEF RenameUser, DeleteOrg, Restart, StartupStep, StartupSkip, StartupGiveUp,
       StartupProbe, StartupRestore, StartupRestoreFails, StartupReinit, HookStep, HookPack,
       queue, vars
  <2> QED BY <1>1, <2>1
<1>6. ASSUME NEW w \in Worker, WorkerStep(w) \/ WorkerLost(w)
      PROVE  Goal
  <2>1. \A v \in Worker : v # w => taken'[v] = taken[v]
    BY <1>0, <1>6 DEF WorkerStep, WorkerTake, WorkerPack, WorkerFindsNoDirectory, WorkerLost, queue
  <2>2. ASSUME NEW l \in tasks, WorkerTake(w, l) PROVE Goal
    <3>1. tasks' = tasks \ {l} /\ taken'[w] = {l} /\ taken[w] = {}
      BY <1>0, <2>2 DEF WorkerTake
    <3>2. k \in tasks' \/ \E v \in Worker : k \in taken'[v]
      BY <1>2, <2>1, <3>1
    <3> QED BY <1>3, <3>2
  <2>3. ASSUME NEW l \in taken[w], WorkerPack(w, l) PROVE Goal
    BY <1>1, <2>3 DEF WorkerPack, queue
  <2>4. ASSUME NEW l \in taken[w], WorkerFindsNoDirectory(w, l) PROVE Goal
    <3>1. l.repo \notin dirs /\ tasks' = tasks /\ rows' = rows
      BY <2>4 DEF WorkerFindsNoDirectory
    <3>2. l.repo \notin rows'
      BY <3>1 DEF IInv, Placement, RowsHaveStorage
    <3>3. CASE k = l
      BY <1>2, <3>2, <3>3
    <3>4. CASE k # l
      <4>1. k \notin taken[w]
        BY <3>4 DEF PackedForTask
      <4> QED BY <1>2, <1>3, <2>1, <3>1, <4>1
    <3> QED BY <3>3, <3>4
  <2>5. CASE WorkerLost(w)
    <3>1. tasks' = tasks \cup taken[w]
      BY <2>5 DEF WorkerLost
    <3>2. k \in tasks' \/ \E v \in Worker : k \in taken'[v]
      BY <1>2, <2>1, <3>1
    <3> QED BY <1>3, <3>2
  <2> QED BY <1>6, <2>2, <2>3, <2>4, <2>5 DEF WorkerStep
<1>7. ASSUME NEW p \in Thread \cup Worker, UploadStep(p)
      PROVE  Goal
  <2>1. PICK a \in upload[p] : PutObject(p, a)
    BY <1>7 DEF UploadStep, PutFails
  <2>2. /\ a \in bucket' /\ tasks' = tasks
        /\ taken' = [w \in Worker |-> IF w = p THEN {} ELSE taken[w]]
    BY <2>1 DEF PutObject, Acknowledge
  <2>3. CASE p \in Worker /\ k \in taken[p]
    <3>1. a.from = r
      BY <1>2, <2>3 DEF PackedForTask
    <3> QED BY <2>2, <2>3, <3>1
  <2>4. CASE ~(p \in Worker /\ k \in taken[p])
    <3>1. k \in tasks' \/ \E v \in Worker : k \in taken'[v]
      BY <1>2, <2>2, <2>4
    <3> QED BY <1>3, <3>1
  <2> QED BY <2>3, <2>4
<1> QED BY <1>4, <1>5, <1>6, <1>7 DEF Next

\* BackupNotDropped: what makes the first backup arrive is that none of its
\* messages is lost before the archive is in B2.
THEOREM NoBackupDropped == Spec => BackupNotDropped
<1>1. Init => PackedForTask
  BY DEF Init, PackedForTask
<1>2. IInv => TypeOK
  BY DEF IInv
<1>3. IInv /\ PackedForTask /\ [Next]_vars =>
        [\A r \in Repo :
           SharedDisk /\ ~Faults /\ ~EphemeralDisk /\ BackupPending(r) =>
             \/ BackupPending(r)'
             \/ r \notin rows'
             \/ \E w \in Worker : \E a \in upload[w] : a.from = r /\ a \in bucket']_vars
  BY PendingStays
<1> QED BY <1>1, <1>2, <1>3, StepPacks, Invariance, PTL DEF Spec, BackupNotDropped

\* A startup that B2 answers finds the archive of a repository that has used
\* no other key than the one it has now: only a rename hides an archive.
UnrenamedIsFound ==
    [][\A r \in Repo :
         ~Faults /\ StartupProbe(r, FALSE) /\ claims[r] \subseteq {KeyNow(r)} =>
           \A a \in bucket : a.from # r]_vars

\* UnrenamedIsFound: an archive knows the key it was put under, and the probe
\* asks for the key of the row.
THEOREM ProbeFindsUnrenamed == Spec => UnrenamedIsFound
<1>1. ASSUME TypeOK, Origins, NEW r \in Repo, ~Faults, StartupProbe(r, FALSE),
             claims[r] \subseteq {KeyNow(r)}, NEW a \in bucket, a.from = r
      PROVE  FALSE
  <2>1. a \in Archive /\ Packed(a)
    BY <1>1 DEF TypeOK, Packed
  <2>2. a.key \in claims[r]
    BY <1>1, <2>1 DEF Origins, ArchivesKnown
  <2>3. a \in Stored(KeyNow(r))
    BY <1>1, <2>2 DEF Stored
  <2> QED BY <1>1, <2>3 DEF StartupProbe
<1>2. TypeOK /\ Origins =>
        [\A r \in Repo :
           ~Faults /\ StartupProbe(r, FALSE) /\ claims[r] \subseteq {KeyNow(r)} =>
             \A a \in bucket : a.from # r]_vars
  BY <1>1
<1> QED BY <1>2, TypeCorrect, OriginsAlways, PTL DEF UnrenamedIsFound
=============================================================================
