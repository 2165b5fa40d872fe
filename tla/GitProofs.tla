------------------------------ MODULE GitProofs ------------------------------
(***************************************************************************)
(* Proofs about Pushes and Browse, for any number of refs, commits, pushes *)
(* and pages: the types of both, that the cached row of a branch is        *)
(* current once its hooks are through, and that a reader sees one commit.  *)
(***************************************************************************)
EXTENDS Browse, SequenceTheorems, TLAPS

-----------------------------------------------------------------------------
(* Types, and what a commit can name *)

PushesSpec == PushesInit /\ [][PushesNext]_pushVars

UpdateMap == UNION {[S -> 0..MaxTips] : S \in SUBSET Ref}

PushRecord ==
  [step : {"idle", "advertised", "hooked", "selected", "committed", "over", "uploading"},
   seen : [Ref -> 0..MaxTips], updates : UpdateMap,
   had : SUBSET Branch, skipped : SUBSET Branch, alone : SUBSET Branch]

GitShape ==
  /\ tips \in [Ref -> 0..MaxTips] /\ archived \in [Ref -> 0..MaxTips]
  /\ grown \in 0..MaxTips
  /\ lineage \in [CommitId -> Seq(CommitId)]
  /\ contents \in [CommitId -> SUBSET Path]

ServerShape ==
  /\ cache \in [Branch -> 1..NoRow] /\ drift \subseteq Branch
  /\ present \in BOOLEAN /\ hosted \in BOOLEAN /\ (present => hosted)
  /\ pushing \in [PushSlots -> PushRecord]

\* A push names no commit beyond the first n.
NamesMade(p, n) ==
  /\ \A r \in Ref : p.seen[r] <= n
  /\ \A r \in DOMAIN p.updates : p.updates[r] <= n

\* No ref names a commit that does not exist, nor has one that does not a history.
OnlyMade ==
  /\ \A r \in Ref : tips[r] <= grown /\ archived[r] <= grown
  /\ \A q \in PushSlots : NamesMade(pushing[q], grown)
  /\ \A c \in CommitId : Len(lineage[c]) <= c /\ (c > grown => lineage[c] = <<>>)

PushesKept == GitShape /\ ServerShape /\ OnlyMade

LEMMA UpdateMaps ==
    ASSUME NEW u \in UpdateMap
    PROVE  DOMAIN u \subseteq Ref /\ \A r \in DOMAIN u : u[r] \in 0..MaxTips
BY DEF UpdateMap

\* A push that has not begun.
LEMMA IdlePush ==
    /\ NoPush \in PushRecord
    /\ \A n \in Nat : NamesMade(NoPush, n)
    /\ DOMAIN NoUpdate = {} /\ NoUpdate \in UpdateMap
    /\ Moved(NoUpdate) = {}
<1>1. NoUpdate \in [{} -> 0..MaxTips] /\ DOMAIN NoUpdate = {}
  BY DEF NoUpdate
<1>2. NoUpdate \in UpdateMap
  BY <1>1 DEF UpdateMap
<1>3. [r \in Ref |-> 0] \in [Ref -> 0..MaxTips]
  BY PushesAssumption
<1>4. NoPush \in PushRecord
  BY <1>2, <1>3 DEF NoPush, PushRecord
<1>5. NoPush.seen = [r \in Ref |-> 0] /\ NoPush.updates = NoUpdate
  BY DEF NoPush
<1>6. \A n \in Nat : NamesMade(NoPush, n)
  BY <1>1, <1>5 DEF NamesMade
<1> QED BY <1>1, <1>2, <1>4, <1>6 DEF Moved

\* The new commit, and the ones there were.
LEMMA CommitsKept ==
    ASSUME PushesKept, NEW parent \in 0..grown, Commits(parent)
    PROVE  /\ grown' \in 0..MaxTips /\ grown' = grown + 1 /\ grown' \in CommitId
           /\ lineage' \in [CommitId -> Seq(CommitId)]
           /\ contents' \in [CommitId -> SUBSET Path]
           /\ \A c \in CommitId : Len(lineage'[c]) <= c /\ (c > grown' => lineage'[c] = <<>>)
           /\ \A c \in 1..grown : lineage'[c] = lineage[c] /\ contents'[c] = contents[c]
<1> USE PushesAssumption DEF PushesKept, GitShape
<1>1. grown' = grown + 1 /\ grown' \in CommitId /\ grown' \in 0..MaxTips
  BY DEF Commits, CommitId
<1> DEFINE before == IF parent = 0 THEN <<>> ELSE lineage[parent]
           new    == <<grown + 1>> \o before
<1>2. before \in Seq(CommitId) /\ Len(before) <= grown
  <2>1. CASE parent = 0
    BY <2>1
  <2>2. CASE parent # 0
    <3>1. parent \in CommitId /\ before = lineage[parent] /\ lineage[parent] \in Seq(CommitId)
      BY <2>2 DEF CommitId
    <3>2. Len(lineage[parent]) <= parent
      BY <3>1 DEF OnlyMade
    <3>3. Len(lineage[parent]) \in Nat
      BY <3>1
    <3> HIDE DEF before
    <3> QED BY <3>1, <3>2, <3>3
  <2> QED BY <2>1, <2>2
<1>3. <<grown + 1>> \in Seq(CommitId) /\ Len(<<grown + 1>>) = 1
  BY <1>1
<1>4. new \in Seq(CommitId) /\ Len(new) <= grown + 1
  BY <1>2, <1>3
<1>5. lineage' = [lineage EXCEPT ![grown + 1] = new]
  BY DEF Commits
<1> HIDE DEF new
<1>6. lineage' \in [CommitId -> Seq(CommitId)]
  BY <1>4, <1>5
<1>7. \A c \in CommitId : lineage'[c] = IF c = grown + 1 THEN new ELSE lineage[c]
  BY <1>5
<1> HIDE DEF before
<1>8. ASSUME NEW c \in CommitId PROVE Len(lineage'[c]) <= c /\ (c > grown' => lineage'[c] = <<>>)
  <2> HIDE DEF PushesKept, GitShape
  <2>1. c \in Nat /\ grown \in Nat /\ Len(lineage[c]) <= c /\ (c > grown => lineage[c] = <<>>)
    BY DEF PushesKept, GitShape, OnlyMade, CommitId
  <2>2. CASE c = grown + 1
    BY <1>1, <1>4, <1>7, <2>1, <2>2
  <2>3. CASE c # grown + 1
    BY <1>1, <1>7, <2>1, <2>3
  <2> QED BY <2>2, <2>3
<1>9. FilesOf(parent) \subseteq Path /\ NewFile[grown + 1] \in Path
  <2>1. parent = 0 \/ parent \in CommitId
    BY DEF CommitId
  <2>2. FilesOf(parent) \subseteq Path
    BY <2>1 DEF FilesOf
  <2> QED BY <1>1, <2>2 DEF Path
<1>10. InsertBlob(FilesOf(parent), NewFile[grown + 1]) \subseteq Path
  BY <1>9 DEF InsertBlob
<1>11. contents' \in [CommitId -> SUBSET Path]
  BY <1>10 DEF Commits
<1>12. \A c \in 1..grown : lineage'[c] = lineage[c] /\ contents'[c] = contents[c]
  BY <1>7 DEF Commits, CommitId
<1> QED BY <1>1, <1>6, <1>8, <1>11, <1>12

\* Everything else a step may leave alone.
LEMMA GitUnchanged ==
    ASSUME PushesKept, UNCHANGED gitVars, UNCHANGED archived
    PROVE  /\ GitShape'
           /\ \A r \in Ref : tips'[r] <= grown' /\ archived'[r] <= grown'
           /\ \A c \in CommitId :
                Len(lineage'[c]) <= c /\ (c > grown' => lineage'[c] = <<>>)
           /\ grown' = grown
BY DEF PushesKept, GitShape, OnlyMade, gitVars

\* A step that changes one push, and no ref.
LEMMA OnePush ==
    ASSUME PushesKept, UNCHANGED gitVars, UNCHANGED diskVars, cache' \in [Branch -> 1..NoRow],
           drift' \subseteq Branch, NEW q \in PushSlots, NEW x \in PushRecord, NamesMade(x, grown),
           pushing' = [pushing EXCEPT ![q] = x]
    PROVE  PushesKept'
<1>1. UNCHANGED archived /\ UNCHANGED <<present, hosted>>
  BY DEF diskVars
<1>2. /\ GitShape'
      /\ \A r \in Ref : tips'[r] <= grown' /\ archived'[r] <= grown'
      /\ grown' = grown
      /\ \A c \in CommitId : Len(lineage'[c]) <= c /\ (c > grown' => lineage'[c] = <<>>)
  BY <1>1, GitUnchanged, Zenon
<1>3. pushing' \in [PushSlots -> PushRecord]
  BY DEF PushesKept, ServerShape
<1>4. ServerShape'
  BY <1>1, <1>3 DEF PushesKept, ServerShape
<1>5. ASSUME NEW o \in PushSlots PROVE NamesMade(pushing'[o], grown')
  <2>1. NamesMade(pushing'[o], grown)
    BY DEF PushesKept, ServerShape, OnlyMade
  <2> QED BY <1>2, <2>1
<1> QED BY <1>2, <1>4, <1>5 DEF PushesKept, OnlyMade

\* What a step may do to the commits: nothing is forgotten or rewritten.
History ==
  /\ grown' \in 0..MaxTips /\ grown <= grown'
  /\ lineage' \in [CommitId -> Seq(CommitId)]
  /\ contents' \in [CommitId -> SUBSET Path]
  /\ \A c \in CommitId : Len(lineage'[c]) <= c /\ (c > grown' => lineage'[c] = <<>>)
  /\ \A c \in 1..grown : lineage'[c] = lineage[c] /\ contents'[c] = contents[c]

LEMMA HistoryStays ==
    ASSUME PushesKept, UNCHANGED <<lineage, contents, grown>>
    PROVE  History
BY DEF PushesKept, GitShape, OnlyMade, History

LEMMA HistoryGrows ==
    ASSUME PushesKept, NEW parent \in 0..grown, Commits(parent)
    PROVE  History /\ grown' = grown + 1
BY CommitsKept DEF PushesKept, GitShape, History

\* The branches only this push moves, of those it moves.
AloneOf(q, updates) ==
  {b \in Moved(updates) :
     \A o \in PushSlots \ {q} : InFlight(o) => b \notin Moved(pushing[o].updates)}

\* ReceivePack by what it did: refs changed by `updates`.
Receives(q, updates, reported) ==
  /\ pushing[q].step = "advertised" /\ hosted /\ present
  /\ tips' = [r \in Ref |-> IF r \in DOMAIN updates THEN updates[r] ELSE tips[r]]
  /\ \A r \in DOMAIN updates : updates[r] <= grown'
  /\ History
  /\ pushing' = [o \in PushSlots |->
        IF o # q THEN [pushing[o] EXCEPT !.alone = @ \ Moved(updates)]
        ELSE [NoPush EXCEPT !.step = "hooked",
                 !.updates = ParsedUpdates(updates, reported),
                 !.alone = IF reported THEN AloneOf(q, updates) ELSE {}]]
  /\ drift' = drift \cup (IF reported THEN Moved(updates) \ AloneOf(q, updates)
                          ELSE Moved(updates))
  /\ UNCHANGED <<diskVars, cache>>

LEMMA ReceivePackIs ==
    ASSUME PushesKept, NEW q \in PushSlots, NEW cmd \in Command, NEW reported \in BOOLEAN,
           ReceivePack(q, cmd, reported)
    PROVE  \E updates \in UpdateMap : Receives(q, updates, reported)
<1> DEFINE shown   == pushing[q].seen
           done    == {r \in DOMAIN cmd : tips[r] = shown[r]}
           updates == [r \in done |-> CASE cmd[r] = "delete" -> 0
                                        [] cmd[r] = "mark"   -> shown[BranchRef(HeadBranch)]
                                        [] OTHER             -> grown + 1]
           parent  == CHOOSE c \in 0..MaxTips :
                         \A r \in DOMAIN cmd :
                            Makes(cmd[r]) => c = IF cmd[r] = "commit" THEN shown[r] ELSE 0
<1>1. /\ shown \in [Ref -> 0..MaxTips] /\ \A r \in Ref : shown[r] <= grown
      /\ grown \in 0..MaxTips /\ MaxTips \in Nat
  BY PushesAssumption DEF PushesKept, GitShape, ServerShape, OnlyMade, NamesMade, PushRecord
<1>2. /\ DOMAIN cmd \subseteq Ref
      /\ \A r \in DOMAIN cmd : Makes(cmd[r]) \/ cmd[r] \in {"delete", "mark"}
      /\ \A r, s \in DOMAIN cmd : Makes(cmd[r]) /\ Makes(cmd[s]) => r = s
      /\ BranchRef(HeadBranch) \in Ref
  BY PushesAssumption DEF Ref, BranchRef
<1>3. History /\ ((\E r \in DOMAIN cmd : Makes(cmd[r])) => grown' = grown + 1)
  <2>1. CASE ~\E r \in DOMAIN cmd : Makes(cmd[r])
    <3>1. UNCHANGED <<lineage, contents, grown>>
      BY <2>1 DEF ReceivePack
    <3> QED BY <2>1, <3>1, HistoryStays
  <2>2. ASSUME NEW m \in DOMAIN cmd, Makes(cmd[m]) PROVE History /\ grown' = grown + 1
    <3>1. Commits(parent)
      BY <2>2 DEF ReceivePack
    <3>2. PICK c : c = IF cmd[m] = "commit" THEN shown[m] ELSE 0
      OBVIOUS
    <3>3. c \in 0..grown /\ c \in 0..MaxTips
      BY <1>1, <1>2, <3>2
    <3>4. \A r \in DOMAIN cmd : Makes(cmd[r]) => c = IF cmd[r] = "commit" THEN shown[r] ELSE 0
      BY <1>2, <2>2, <3>2
    <3>5. \A r \in DOMAIN cmd :
            Makes(cmd[r]) => parent = IF cmd[r] = "commit" THEN shown[r] ELSE 0
      BY <3>3, <3>4
    <3> HIDE DEF parent
    <3>6. parent = c
      BY <2>2, <3>2, <3>5
    <3> QED BY <3>1, <3>3, <3>6, HistoryGrows
  <2> QED BY <2>1, <2>2
<1>4. \A r \in done : updates[r] \in 0..MaxTips /\ updates[r] <= grown'
  <2> TAKE r \in done
  <2>1. grown' \in 0..MaxTips /\ grown <= grown'
    BY <1>3 DEF History
  <2>2. CASE cmd[r] = "delete"
    BY <1>1, <2>1, <2>2
  <2>3. CASE cmd[r] = "mark"
    <3>1. updates[r] = shown[BranchRef(HeadBranch)]
      BY <2>3
    <3> QED BY <1>1, <1>2, <2>1, <3>1
  <2>4. CASE Makes(cmd[r])
    <3>1. cmd[r] \notin {"delete", "mark"}
      BY <2>4 DEF Makes
    <3>2. updates[r] = grown + 1
      BY <3>1
    <3> QED BY <1>1, <1>3, <2>1, <2>4, <3>2
  <2> QED BY <1>2, <2>2, <2>3, <2>4
<1>5. DOMAIN updates = done /\ updates \in UpdateMap
  <2>1. updates \in [done -> 0..MaxTips]
    BY <1>4
  <2> QED BY <1>2, <2>1 DEF UpdateMap
<1>6. Receives(q, updates, reported)
  BY <1>3, <1>4, <1>5 DEF ReceivePack, Receives, AloneOf, Backend
<1> QED BY <1>5, <1>6

LEMMA ReceivePackKept ==
    ASSUME PushesKept, NEW q \in PushSlots, NEW updates \in UpdateMap,
           NEW reported \in BOOLEAN, Receives(q, updates, reported)
    PROVE  PushesKept'
<1> USE DEF PushesKept
<1>1. DOMAIN updates \subseteq Ref /\ \A r \in DOMAIN updates : updates[r] \in 0..MaxTips
  BY UpdateMaps
<1>2. /\ History /\ grown \in 0..MaxTips /\ grown' \in 0..MaxTips /\ grown <= grown'
      /\ \A r \in DOMAIN updates : updates[r] <= grown'
      /\ tips' = [r \in Ref |-> IF r \in DOMAIN updates THEN updates[r] ELSE tips[r]]
      /\ UNCHANGED diskVars /\ UNCHANGED cache
  BY DEF Receives, History, GitShape
<1>3. tips' \in [Ref -> 0..MaxTips] /\ \A r \in Ref : tips'[r] <= grown'
  BY <1>1, <1>2 DEF GitShape, OnlyMade
<1>4. archived' \in [Ref -> 0..MaxTips] /\ \A r \in Ref : archived'[r] <= grown'
  <2>1. archived' = archived
    BY <1>2 DEF diskVars
  <2> QED BY <1>2, <2>1 DEF GitShape, OnlyMade
<1>5. \A o \in PushSlots : pushing'[o] \in PushRecord /\ NamesMade(pushing'[o], grown')
  <2> TAKE o \in PushSlots
  <2>1. CASE o # q
    <3>1. pushing[o] \in PushRecord /\ NamesMade(pushing[o], grown)
      BY DEF ServerShape, OnlyMade
    <3>2. pushing'[o] = [pushing[o] EXCEPT !.alone = @ \ Moved(updates)]
      BY <2>1 DEF Receives
    <3>3. pushing'[o] \in PushRecord
      BY <3>1, <3>2 DEF PushRecord
    <3>4. pushing'[o].seen = pushing[o].seen /\ pushing'[o].updates = pushing[o].updates
      BY <3>1, <3>2 DEF PushRecord
    <3>5. pushing[o].updates \in UpdateMap /\ pushing[o].seen \in [Ref -> 0..MaxTips]
      BY <3>1 DEF PushRecord
    <3>6. DOMAIN pushing[o].updates \subseteq Ref
          /\ \A r \in DOMAIN pushing[o].updates : pushing[o].updates[r] \in 0..MaxTips
      BY <3>5, UpdateMaps
    <3> QED BY <1>2, <3>1, <3>3, <3>4, <3>5, <3>6 DEF NamesMade
  <2>2. CASE o = q
    <3>1. PICK u : u = ParsedUpdates(updates, reported)
      OBVIOUS
    <3>2. PICK a : a = IF reported THEN AloneOf(q, updates) ELSE {}
      OBVIOUS
    <3>3. u \in UpdateMap /\ (u = updates \/ u = NoUpdate) /\ a \in SUBSET Branch
      BY <3>1, <3>2, IdlePush DEF ParsedUpdates, AloneOf, Moved
    <3>4. pushing'[q] = [NoPush EXCEPT !.step = "hooked", !.updates = u, !.alone = a]
      BY <3>1, <3>2 DEF Receives
    <3>5. pushing'[q] \in PushRecord
      BY <3>3, <3>4, IdlePush DEF PushRecord
    <3>6. pushing'[q].seen = NoPush.seen /\ pushing'[q].updates = u
      BY <3>4, IdlePush DEF PushRecord
    <3>7. NamesMade(NoPush, grown')
      BY <1>2, IdlePush
    <3>8. \A r \in DOMAIN u : u[r] <= grown'
      BY <1>2, <3>3, IdlePush
    <3> QED BY <2>2, <3>5, <3>6, <3>7, <3>8 DEF NamesMade
  <2> QED BY <2>1, <2>2
<1>6. pushing' \in [PushSlots -> PushRecord]
  BY <1>5 DEF Receives
<1>7. drift' \subseteq Branch
  BY DEF Receives, ServerShape, Moved
<1>8. GitShape'
  BY <1>2, <1>3, <1>4 DEF GitShape, History
<1>9. ServerShape'
  BY <1>2, <1>6, <1>7 DEF ServerShape, diskVars
<1>10. OnlyMade'
  BY <1>2, <1>3, <1>4, <1>5 DEF OnlyMade, History
<1> QED BY <1>8, <1>9, <1>10

\* CreateCommit by what it did.
Uploads(q, b) ==
  /\ pushing[q].step = "uploading"
  /\ pushing' = [o \in PushSlots |->
        IF o = q THEN NoPush ELSE [pushing[o] EXCEPT !.alone = @ \ {b}]]
  /\ \/ UNCHANGED <<gitVars, drift>>
     \/ /\ History /\ present
        /\ tips' = [tips EXCEPT ![BranchRef(b)] = grown'] /\ drift' = drift \cup {b}
  /\ UNCHANGED <<diskVars, cache>>

LEMMA CreateCommitIs ==
    ASSUME PushesKept, NEW q \in PushSlots, NEW b \in Branch, CreateCommit(q, b)
    PROVE  Uploads(q, b)
<1>1. PICK parent : parent = pushing[q].updates[BranchRef(b)]
  OBVIOUS
<1>2. Moved(pushing[q].updates) = {b}
  BY DEF CreateCommit
<1>3. BranchRef(b) \in DOMAIN pushing[q].updates
  BY <1>2 DEF Moved
<1>4. pushing[q].updates \in UpdateMap
  BY DEF PushesKept, ServerShape, PushRecord
<1>5. parent \in 0..grown
  <2>1. parent \in 0..MaxTips
    BY <1>1, <1>3, <1>4, UpdateMaps
  <2>2. parent <= grown
    BY <1>1, <1>3 DEF PushesKept, OnlyMade, NamesMade
  <2> QED BY <2>1, <2>2 DEF PushesKept, GitShape
<1>6. CASE UNCHANGED <<gitVars, drift>>
  BY <1>6 DEF CreateCommit, Uploads
<1>7. CASE /\ present /\ Commits(parent)
           /\ tips' = [tips EXCEPT ![BranchRef(b)] = grown + 1] /\ drift' = drift \cup {b}
  <2>1. History /\ grown' = grown + 1
    BY <1>5, <1>7, HistoryGrows
  <2> QED BY <1>7, <2>1 DEF CreateCommit, Uploads
<1> QED BY <1>1, <1>6, <1>7 DEF CreateCommit

LEMMA CreateCommitKept ==
    ASSUME PushesKept, NEW q \in PushSlots, NEW b \in Branch, Uploads(q, b)
    PROVE  PushesKept'
<1> USE DEF PushesKept
<1>1. History
  <2>1. CASE UNCHANGED <<gitVars, drift>>
    BY <2>1, HistoryStays DEF gitVars
  <2> QED BY <2>1 DEF Uploads
<1>2. grown \in 0..MaxTips /\ grown' \in 0..MaxTips /\ grown <= grown'
  BY <1>1 DEF History, GitShape
<1>3. tips' \in [Ref -> 0..MaxTips] /\ \A r \in Ref : tips'[r] <= grown'
  <2>1. tips \in [Ref -> 0..MaxTips] /\ \A r \in Ref : tips[r] <= grown
    BY DEF GitShape, OnlyMade
  <2>2. CASE tips' = tips
    BY <1>2, <2>1, <2>2
  <2>3. CASE tips' = [tips EXCEPT ![BranchRef(b)] = grown']
    <3>1. PICK x : x = BranchRef(b)
      OBVIOUS
    <3>2. tips' = [tips EXCEPT ![x] = grown']
      BY <2>3, <3>1
    <3>3. tips' \in [Ref -> 0..MaxTips]
      BY <1>2, <2>1, <3>2
    <3>4. \A r \in Ref : tips'[r] = grown' \/ tips'[r] = tips[r]
      BY <2>1, <3>2
    <3> QED BY <1>2, <2>1, <3>3, <3>4
  <2> QED BY <2>2, <2>3 DEF Uploads, gitVars
<1>4. archived' \in [Ref -> 0..MaxTips] /\ \A r \in Ref : archived'[r] <= grown'
  BY <1>2 DEF Uploads, diskVars, GitShape, OnlyMade
<1>5. \A o \in PushSlots : pushing'[o] \in PushRecord /\ NamesMade(pushing'[o], grown')
  <2> TAKE o \in PushSlots
  <2>1. CASE o # q
    <3>1. pushing[o] \in PushRecord /\ NamesMade(pushing[o], grown)
      BY DEF ServerShape, OnlyMade
    <3>2. pushing'[o] = [pushing[o] EXCEPT !.alone = @ \ {b}]
      BY <2>1 DEF Uploads
    <3>3. pushing'[o] \in PushRecord
      BY <3>1, <3>2 DEF PushRecord
    <3>4. pushing'[o].seen = pushing[o].seen /\ pushing'[o].updates = pushing[o].updates
      BY <3>1, <3>2 DEF PushRecord
    <3>5. pushing[o].updates \in UpdateMap /\ pushing[o].seen \in [Ref -> 0..MaxTips]
      BY <3>1 DEF PushRecord
    <3>6. DOMAIN pushing[o].updates \subseteq Ref
          /\ \A r \in DOMAIN pushing[o].updates : pushing[o].updates[r] \in 0..MaxTips
      BY <3>5, UpdateMaps
    <3> QED BY <1>2, <3>1, <3>3, <3>4, <3>5, <3>6 DEF NamesMade
  <2>2. CASE o = q
    <3>1. pushing'[q] = NoPush
      BY DEF Uploads
    <3> QED BY <1>2, <2>2, <3>1, IdlePush
  <2> QED BY <2>1, <2>2
<1>6. pushing' \in [PushSlots -> PushRecord]
  BY <1>5 DEF Uploads
<1>7. drift' \subseteq Branch
  BY DEF Uploads, ServerShape
<1>8. GitShape'
  BY <1>1, <1>3, <1>4 DEF GitShape, History
<1>9. ServerShape'
  BY <1>6, <1>7 DEF Uploads, ServerShape, diskVars
<1>10. OnlyMade'
  BY <1>1, <1>3, <1>4, <1>5 DEF OnlyMade, History
<1> QED BY <1>8, <1>9, <1>10

LEMMA GitMovesKept ==
    ASSUME PushesKept, NEW q \in PushSlots, NEW Reports \in SUBSET BOOLEAN, GitMoves(q, Reports)
    PROVE  PushesKept'
<1>1. pushing[q] \in PushRecord /\ cache \in [Branch -> 1..NoRow] /\ drift \subseteq Branch
  BY DEF PushesKept, ServerShape
<1>2. ASSUME NEW u \in Actor, InfoRefs(q, u) PROVE PushesKept'
  <2>1. PICK x : x = [NoPush EXCEPT !.step = "advertised", !.seen = tips]
    OBVIOUS
  <2>2. x \in PushRecord /\ x.seen = tips /\ x.updates = NoUpdate
    BY <2>1, IdlePush DEF PushRecord, PushesKept, GitShape, NoPush
  <2>3. NamesMade(x, grown)
    BY <2>2, IdlePush DEF NamesMade, PushesKept, OnlyMade
  <2>4. pushing' = [pushing EXCEPT ![q] = x]
    BY <1>2, <2>1 DEF InfoRefs, Begins
  <2>5. UNCHANGED gitVars /\ UNCHANGED diskVars /\ UNCHANGED <<cache, drift>>
    BY <1>2 DEF InfoRefs
  <2> QED BY <1>1, <2>2, <2>3, <2>4, <2>5, OnePush
<1>3. ASSUME NEW cmd \in Command, NEW reported \in Reports, ReceivePack(q, cmd, reported)
      PROVE  PushesKept'
  <2>1. reported \in BOOLEAN
    OBVIOUS
  <2> QED BY <1>3, <2>1, ReceivePackIs, ReceivePackKept
<1>4. CASE RefusePush(q)
  <2>1. pushing' = [pushing EXCEPT ![q] = NoPush]
    BY <1>4 DEF RefusePush
  <2>2. UNCHANGED gitVars /\ UNCHANGED diskVars /\ UNCHANGED <<cache, drift>>
    BY <1>4 DEF RefusePush
  <2>3. NamesMade(NoPush, grown)
    BY IdlePush DEF PushesKept, GitShape
  <2> QED BY <1>1, <2>1, <2>2, <2>3, IdlePush, OnePush
<1>5. ASSUME NEW u \in Actor, NEW b \in Branch, ReadParent(q, u, b) PROVE PushesKept'
  <2>1. PICK parent : parent = IF tips[BranchRef(b)] # 0 THEN tips[BranchRef(b)]
                               ELSE tips[BranchRef(HeadBranch)]
    OBVIOUS
  <2>2. BranchRef(b) \in Ref /\ BranchRef(HeadBranch) \in Ref
    BY PushesAssumption DEF BranchRef, Ref
  <2>3. parent \in 0..MaxTips /\ parent <= grown
    BY <2>1, <2>2 DEF PushesKept, GitShape, OnlyMade
  <2>4. PICK m : m = [r \in {BranchRef(b)} |-> parent]
    OBVIOUS
  <2>5. m \in UpdateMap /\ \A r \in DOMAIN m : m[r] <= grown
    <3>1. m \in [{BranchRef(b)} -> 0..MaxTips] /\ {BranchRef(b)} \in SUBSET Ref
      BY <2>2, <2>3, <2>4
    <3> QED BY <2>3, <2>4, <3>1 DEF UpdateMap
  <2>6. PICK x : x = [NoPush EXCEPT !.step = "uploading", !.updates = m]
    OBVIOUS
  <2>7. x \in PushRecord /\ x.seen = NoPush.seen /\ x.updates = m
    BY <2>5, <2>6, IdlePush DEF PushRecord
  <2>8. NamesMade(x, grown)
    BY <2>5, <2>7, IdlePush DEF NamesMade, PushesKept, GitShape
  <2>9. pushing' = [pushing EXCEPT ![q] = x]
    BY <1>5, <2>1, <2>4, <2>6 DEF ReadParent, Begins
  <2>10. UNCHANGED gitVars /\ UNCHANGED diskVars /\ UNCHANGED <<cache, drift>>
    BY <1>5 DEF ReadParent
  <2> QED BY <1>1, <2>7, <2>8, <2>9, <2>10, OnePush
<1>6. ASSUME NEW b \in Branch, CreateCommit(q, b) PROVE PushesKept'
  BY <1>6, CreateCommitIs, CreateCommitKept
<1> QED BY <1>2, <1>3, <1>4, <1>5, <1>6 DEF GitMoves

LEMMA PushesStepKept == PushesKept /\ [PushesNext]_pushVars => PushesKept'
<1> SUFFICES ASSUME PushesKept, [PushesNext]_pushVars PROVE PushesKept'
  OBVIOUS
<1>1. /\ pushing \in [PushSlots -> PushRecord]
      /\ \A q \in PushSlots : pushing[q] \in PushRecord /\ NamesMade(pushing[q], grown)
      /\ cache \in [Branch -> 1..NoRow] /\ drift \subseteq Branch
  BY DEF PushesKept, ServerShape, OnlyMade
<1>2. CASE UNCHANGED pushVars
  <2>1. UNCHANGED gitVars /\ UNCHANGED diskVars /\ UNCHANGED <<cache, drift, pushing>>
    BY <1>2 DEF pushVars
  <2> QED BY <2>1 DEF PushesKept, GitShape, ServerShape, OnlyMade, gitVars, diskVars
\* A push goes on with the refs it knows.
<1>3. ASSUME NEW q \in PushSlots, NEW x \in PushRecord, UNCHANGED gitVars, UNCHANGED diskVars,
             x = NoPush \/ (x.seen = pushing[q].seen /\ x.updates = pushing[q].updates),
             pushing' = [pushing EXCEPT ![q] = x],
             cache' \in [Branch -> 1..NoRow], drift' \subseteq Branch
      PROVE  PushesKept'
  <2>1. NamesMade(x, grown)
    BY <1>1, <1>3, IdlePush DEF NamesMade, PushesKept, GitShape
  <2> QED BY <1>3, <2>1, OnePush
\* Its step alone is another.
<1>4. ASSUME NEW q \in PushSlots, NEW step \in {"committed", "over"}, Continues(q, step),
             UNCHANGED gitVars, UNCHANGED diskVars,
             cache' \in [Branch -> 1..NoRow], drift' \subseteq Branch
      PROVE  PushesKept'
  <2>1. PICK x : x = [pushing[q] EXCEPT !.step = step]
    OBVIOUS
  <2>2. x \in PushRecord /\ x.seen = pushing[q].seen /\ x.updates = pushing[q].updates
    BY <1>1, <2>1 DEF PushRecord
  <2>3. pushing' = [pushing EXCEPT ![q] = x]
    BY <1>4, <2>1 DEF Continues
  <2> QED BY <1>3, <1>4, <2>2, <2>3
<1>5. ASSUME NEW q \in PushSlots, SyncBranchCache(q) PROVE PushesKept'
  <2>1. PICK lost : lost = {b \in Moved(pushing[q].updates) :
                 /\ pushing[q].updates[BranchRef(b)] # 0
                 /\ ~Readable(pushing[q].updates[BranchRef(b)])}
    OBVIOUS
  <2>2. PICK had : had = {b \in Branch : cache[b] # NoRow}
    OBVIOUS
  <2>3. PICK x : x = IF hosted THEN [pushing[q] EXCEPT !.step = "selected", !.had = had,
                                                      !.skipped = lost] ELSE NoPush
    OBVIOUS
  <2>4. lost \subseteq Branch /\ had \subseteq Branch
    BY <2>1, <2>2 DEF Moved
  <2>5. x \in PushRecord /\ (x = NoPush \/ (x.seen = pushing[q].seen /\ x.updates = pushing[q].updates))
    BY <1>1, <2>3, <2>4, IdlePush DEF PushRecord
  <2>6. pushing' = [pushing EXCEPT ![q] = x]
    BY <1>5, <2>1, <2>2, <2>3 DEF SyncBranchCache
  <2>7. drift' \subseteq Branch
    BY <1>1, <1>5, <2>1, <2>4 DEF SyncBranchCache
  <2>8. UNCHANGED gitVars /\ UNCHANGED diskVars /\ cache' = cache
    BY <1>5 DEF SyncBranchCache
  <2> QED BY <1>1, <1>3, <2>5, <2>6, <2>7, <2>8
<1>6. ASSUME NEW q \in PushSlots, CommitRows(q) PROVE PushesKept'
  <2>1. cache' \in [Branch -> 1..NoRow]
    <3>1. MaxTips \in Nat /\ NoRow \in 1..NoRow /\ NoRow = MaxTips + 1
      BY PushesAssumption DEF NoRow
    <3>2. pushing[q].updates \in UpdateMap
      BY <1>1 DEF PushRecord
    <3>3. \A b \in ToSync(q) : pushing[q].updates[BranchRef(b)] \in 0..MaxTips
      BY <3>2, UpdateMaps DEF ToSync, Moved
    <3> QED BY <1>1, <1>6, <3>1, <3>3 DEF CommitRows
  <2>2. UNCHANGED gitVars /\ UNCHANGED diskVars /\ drift' \subseteq Branch /\ Continues(q, "committed")
    BY <1>1, <1>6 DEF CommitRows
  <2> QED BY <1>4, <2>1, <2>2
<1>7. ASSUME NEW q \in PushSlots, HookFails(q) PROVE PushesKept'
  BY <1>1, <1>4, <1>7 DEF HookFails, Moved
<1>8. ASSUME NEW q \in PushSlots, DeployPages(q) PROVE PushesKept'
  <2>1. /\ UNCHANGED gitVars /\ UNCHANGED diskVars /\ cache' = cache /\ drift' = drift
        /\ pushing' = [pushing EXCEPT ![q] = NoPush]
    BY <1>8 DEF DeployPages
  <2> QED BY <1>1, <1>3, <2>1, IdlePush
<1>9. ASSUME NEW q \in PushSlots, NEW works \in BOOLEAN, DeliverAndBackUp(q, works)
      PROVE  PushesKept'
  <2>1. PICK x : x = [pushing[q] EXCEPT !.step = "over"]
    OBVIOUS
  <2>2. x \in PushRecord /\ x.seen = pushing[q].seen /\ x.updates = pushing[q].updates
    BY <1>1, <2>1 DEF PushRecord
  <2>3. pushing' = [pushing EXCEPT ![q] = x]
    BY <1>9, <2>1 DEF DeliverAndBackUp, Continues
  <2>4. UNCHANGED gitVars /\ UNCHANGED <<present, hosted, cache, drift>>
    BY <1>9 DEF DeliverAndBackUp
  <2>5. archived' = tips \/ archived' = archived
    BY <1>9 DEF DeliverAndBackUp
  <2>6. GitShape'
    BY <2>4, <2>5 DEF PushesKept, GitShape, gitVars
  <2>7. ServerShape'
    BY <2>2, <2>3, <2>4 DEF PushesKept, ServerShape
  <2>8. \A o \in PushSlots : NamesMade(pushing'[o], grown)
    BY <1>1, <2>2, <2>3 DEF NamesMade
  <2>9. OnlyMade'
    BY <2>4, <2>5, <2>8 DEF PushesKept, OnlyMade, gitVars
  <2> QED BY <2>6, <2>7, <2>9 DEF PushesKept
<1>10. CASE Redeploy
  <2>1. pushing' = [q \in PushSlots |-> NoPush] /\ present' = FALSE
        /\ UNCHANGED gitVars /\ UNCHANGED <<hosted, archived, cache>>
    BY <1>10 DEF Redeploy
  <2>2. drift' \subseteq Branch
    BY <1>1, <1>10 DEF Redeploy, Moved
  <2>3. \A o \in PushSlots : NamesMade(pushing'[o], grown) /\ pushing'[o] \in PushRecord
    BY <2>1, IdlePush DEF PushesKept, GitShape
  <2>4. GitShape'
    BY <2>1 DEF PushesKept, GitShape, gitVars
  <2>5. ServerShape'
    BY <2>1, <2>2, <2>3 DEF PushesKept, ServerShape
  <2>6. OnlyMade'
    BY <2>1, <2>3 DEF PushesKept, OnlyMade, gitVars
  <2> QED BY <2>4, <2>5, <2>6 DEF PushesKept
<1>11. CASE RestoreRefs
  <2>1. /\ tips' = archived /\ present' = TRUE /\ hosted' = hosted /\ hosted
        /\ UNCHANGED <<lineage, contents, grown, archived, cache, pushing>>
    BY <1>11 DEF RestoreRefs
  <2>2. drift' \subseteq Branch
    BY <1>1, <1>11 DEF RestoreRefs
  <2> QED BY <2>1, <2>2 DEF PushesKept, GitShape, ServerShape, OnlyMade
<1>12. CASE Unhost
  <2>1. /\ hosted' = FALSE /\ present' = FALSE
        /\ UNCHANGED gitVars /\ UNCHANGED <<archived, drift, pushing>>
    BY <1>12 DEF Unhost
  <2>2. cache' \in [Branch -> 1..NoRow]
    BY <1>12, PushesAssumption DEF Unhost, NoRow
  <2> QED BY <2>1, <2>2 DEF PushesKept, GitShape, ServerShape, OnlyMade, gitVars
<1> QED
  BY <1>2, <1>5, <1>6, <1>7, <1>8, <1>9, <1>10, <1>11, <1>12, GitMovesKept DEF PushesNext

LEMMA PushesStart == PushesInit => PushesKept
<1> SUFFICES ASSUME PushesInit PROVE PushesKept
  OBVIOUS
<1>1. MaxTips \in Nat /\ NoRow \in 1..NoRow
  BY PushesAssumption DEF NoRow
<1>2. GitShape
  BY <1>1 DEF PushesInit, GitShape
<1>3. ServerShape
  BY <1>1, IdlePush DEF PushesInit, ServerShape
<1>4. OnlyMade
  BY <1>1, IdlePush DEF PushesInit, OnlyMade, CommitId
<1> QED BY <1>2, <1>3, <1>4 DEF PushesKept

LEMMA PushesAlways == PushesSpec => []PushesKept
BY PushesStart, PushesStepKept, PTL DEF PushesSpec

\* The refs, commits, rows and pushes keep their types, and a history is never
\* longer than the number of its commit.
THEOREM PushesTyped == PushesSpec => []PushesTypeOK
<1>1. PushesKept => PushesTypeOK
  BY DEF PushesKept, GitShape, ServerShape, OnlyMade, PushesTypeOK, PushRecord
<1> QED BY <1>1, PushesAlways, PTL

-----------------------------------------------------------------------------
(* The cached rows *)

\* A hook on its way that will write, or leave out, the row of branch b.
Moving(q, b) == InFlight(q) /\ b \in Moved(pushing[q].updates)

TipRow(b) == IF tips[BranchRef(b)] = 0 THEN NoRow ELSE tips[BranchRef(b)]

\* The only such hook, which knows the commit the branch has.
Knows(q, b) ==
  /\ Moving(q, b) /\ pushing[q].updates[BranchRef(b)] = tips[BranchRef(b)]
  /\ \A o \in PushSlots : Moving(o, b) => o = q

\* Branches marked alone are known to their hook, and a row that is neither in
\* drift nor current will be written by a hook that knows it.
BranchKnown(b) ==
  /\ \A q \in PushSlots :
       InFlight(q) => /\ b \in pushing[q].skipped => Moving(q, b) /\ b \in drift
                      /\ b \in pushing[q].alone => Knows(q, b)
  /\ hosted /\ b \notin drift =>
       \/ \E q \in PushSlots : Knows(q, b)
       \/ (\A q \in PushSlots : ~Moving(q, b)) /\ cache[b] = TipRow(b)

\* An archive is restored when no hook is on its way.
Grounded == hosted /\ ~present => \A q \in PushSlots : ~InFlight(q)

RowsKnown == Grounded /\ \A b \in Branch : BranchKnown(b)

\* A step of a push that has no hook before it nor after it.
LEMMA NoHook ==
    ASSUME PushesKept, RowsKnown, NEW q \in PushSlots, NEW x, ~InFlight(q),
           x.step \notin {"hooked", "selected"}, pushing' = [pushing EXCEPT ![q] = x],
           UNCHANGED <<tips, present, hosted, cache, drift>>
    PROVE  RowsKnown'
<1>1. \A o \in PushSlots : (o # q /\ pushing'[o] = pushing[o]) \/ (o = q /\ pushing'[o] = x)
  BY DEF PushesKept, ServerShape
<1>2. \A o \in PushSlots : InFlight(o)' = (o # q /\ InFlight(o))
  BY <1>1 DEF InFlight
<1>3. Grounded'
  BY <1>2 DEF RowsKnown, Grounded
<1>4. \A b \in Branch, o \in PushSlots : Moving(o, b)' = Moving(o, b)
  BY <1>1, <1>2 DEF Moving
<1>5. \A b \in Branch, o \in PushSlots : Knows(o, b)' = Knows(o, b)
  BY <1>1, <1>2, <1>4 DEF Knows, Moving
<1>6. \A b \in Branch : TipRow(b)' = TipRow(b)
  BY DEF TipRow
<1> QED BY <1>1, <1>2, <1>3, <1>4, <1>5, <1>6 DEF RowsKnown, BranchKnown

\* The hook of push q ends, and leaves every other push as it was.
LEMMA HookEnds ==
    ASSUME PushesKept, RowsKnown, NEW q \in PushSlots, NEW x,
           x.step \notin {"hooked", "selected"}, pushing' = [pushing EXCEPT ![q] = x],
           UNCHANGED <<tips, present, hosted>>,
           \A o \in PushSlots, b \in Branch :
              InFlight(o) /\ o # q /\ b \in pushing[o].skipped => b \in drift',
           NEW b \in Branch,
           hosted /\ b \notin drift' =>
              \/ ~Moving(q, b) /\ b \notin drift /\ cache'[b] = cache[b]
              \/ (\A o \in PushSlots : Moving(o, b) => o = q) /\ cache'[b] = TipRow(b)
    PROVE  BranchKnown(b)'
<1>1. \A o \in PushSlots : (o # q /\ pushing'[o] = pushing[o]) \/ (o = q /\ pushing'[o] = x)
  BY DEF PushesKept, ServerShape
<1>2. \A o \in PushSlots : InFlight(o)' = (o # q /\ InFlight(o))
  BY <1>1 DEF InFlight
<1>3. \A o \in PushSlots : Moving(o, b)' = (o # q /\ Moving(o, b))
  BY <1>1, <1>2 DEF Moving
<1>4. \A o \in PushSlots : o # q /\ Knows(o, b) => Knows(o, b)'
  BY <1>1, <1>3 DEF Knows
<1>5. TipRow(b)' = TipRow(b)
  BY DEF TipRow
<1>6. BranchKnown(b)
  BY DEF RowsKnown
<1>7. ASSUME NEW o \in PushSlots, InFlight(o)'
      PROVE  /\ b \in pushing'[o].skipped => Moving(o, b)' /\ b \in drift'
             /\ b \in pushing'[o].alone => Knows(o, b)'
  BY <1>1, <1>2, <1>3, <1>4, <1>6, <1>7 DEF BranchKnown
<1>8. ASSUME hosted', b \notin drift'
      PROVE  \/ \E o \in PushSlots : Knows(o, b)'
             \/ (\A o \in PushSlots : ~Moving(o, b)') /\ cache'[b] = TipRow(b)'
  <2>1. CASE ~Moving(q, b) /\ b \notin drift /\ cache'[b] = cache[b]
    <3>1. \A o \in PushSlots : Knows(o, b) => o # q
      BY <2>1 DEF Knows
    <3> QED BY <1>3, <1>4, <1>5, <1>6, <1>8, <2>1, <3>1 DEF BranchKnown
  <2>2. CASE (\A o \in PushSlots : Moving(o, b) => o = q) /\ cache'[b] = TipRow(b)
    BY <1>3, <1>5, <2>2
  <2> QED BY <1>8, <2>1, <2>2
<1> QED BY <1>7, <1>8 DEF BranchKnown

LEMMA ReceivesKnown ==
    ASSUME PushesKept, RowsKnown, NEW q \in PushSlots, NEW updates \in UpdateMap,
           NEW reported \in BOOLEAN, Receives(q, updates, reported)
    PROVE  RowsKnown'
<1>1. PICK u : u = ParsedUpdates(updates, reported)
  OBVIOUS
<1>2. PICK a : a = IF reported THEN AloneOf(q, updates) ELSE {}
  OBVIOUS
<1>3. pushing'[q] = [NoPush EXCEPT !.step = "hooked", !.updates = u, !.alone = a]
  BY <1>1, <1>2 DEF Receives
<1>4. /\ pushing'[q].step = "hooked" /\ pushing'[q].updates = u /\ pushing'[q].alone = a
      /\ pushing'[q].skipped = {}
  BY <1>3 DEF NoPush
<1>5. ASSUME NEW o \in PushSlots, o # q
      PROVE  /\ pushing'[o].step = pushing[o].step /\ pushing'[o].updates = pushing[o].updates
             /\ pushing'[o].skipped = pushing[o].skipped
             /\ pushing'[o].alone = pushing[o].alone \ Moved(updates)
  <2>1. pushing[o] \in PushRecord
    BY DEF PushesKept, ServerShape
  <2>2. pushing'[o] = [pushing[o] EXCEPT !.alone = @ \ Moved(updates)]
    BY <1>5 DEF Receives
  <2> QED BY <2>1, <2>2 DEF PushRecord
<1>6. ~InFlight(q) /\ InFlight(q)' /\ \A o \in PushSlots : o # q => InFlight(o)' = InFlight(o)
  BY <1>4, <1>5 DEF Receives, InFlight
<1>7. UNCHANGED <<present, hosted, cache>> /\ present
  BY DEF Receives, diskVars
<1>8. Grounded'
  BY <1>7 DEF Grounded
<1>9. \A b \in Branch, o \in PushSlots : o # q => Moving(o, b)' = Moving(o, b)
  BY <1>5, <1>6 DEF Moving
<1>10. ASSUME NEW b \in Branch PROVE BranchKnown(b)'
  <2>0. BranchKnown(b) /\ BranchRef(b) \in Ref
    BY DEF RowsKnown, BranchRef, Ref
  <2>1. CASE b \in Moved(updates)
    <3>1. tips'[BranchRef(b)] = updates[BranchRef(b)]
      BY <2>0, <2>1 DEF Receives, Moved
    <3>2. \A o \in PushSlots : InFlight(o)' /\ o # q =>
             /\ b \notin pushing'[o].alone
             /\ b \in pushing'[o].skipped => Moving(o, b)' /\ b \in drift'
      BY <1>5, <1>6, <1>9, <2>0, <2>1 DEF BranchKnown, Receives
    <3>3. CASE reported /\ b \in AloneOf(q, updates)
      <4>1. u = updates
        BY <1>1, <3>3 DEF ParsedUpdates
      <4>2. Moving(q, b)'
        BY <1>4, <1>6, <2>1, <4>1 DEF Moving
      <4>3. \A o \in PushSlots : o # q => ~Moving(o, b)'
        BY <1>9, <3>3 DEF AloneOf, Moving
      <4>4. Knows(q, b)'
        BY <1>4, <3>1, <4>1, <4>2, <4>3 DEF Knows
      <4> QED BY <1>4, <3>2, <4>4 DEF BranchKnown
    <3>4. CASE ~reported \/ b \notin AloneOf(q, updates)
      <4>1. b \in drift' /\ b \notin a
        BY <1>2, <2>1, <3>4 DEF Receives
      <4> QED BY <1>4, <3>2, <4>1 DEF BranchKnown
    <3> QED BY <3>3, <3>4
  <2>2. CASE b \notin Moved(updates)
    <3>1. tips'[BranchRef(b)] = tips[BranchRef(b)]
      BY <2>0, <2>2 DEF Receives, Moved
    <3>2. ~Moving(q, b) /\ ~Moving(q, b)' /\ b \notin a
      BY <1>1, <1>2, <1>4, <1>6, <2>2, IdlePush DEF Moving, ParsedUpdates, AloneOf
    <3>3. \A o \in PushSlots : Knows(o, b) => Knows(o, b)'
      BY <1>5, <1>9, <3>1, <3>2 DEF Knows
    <3>4. TipRow(b)' = TipRow(b)
      BY <3>1 DEF TipRow
    <3>5. b \in drift' <=> b \in drift
      BY <2>2 DEF Receives, AloneOf
    <3>6. ASSUME NEW o \in PushSlots, InFlight(o)'
          PROVE  /\ b \in pushing'[o].skipped => Moving(o, b)' /\ b \in drift'
                 /\ b \in pushing'[o].alone => Knows(o, b)'
      BY <1>4, <1>5, <1>6, <1>9, <2>0, <3>2, <3>3, <3>5, <3>6 DEF BranchKnown
    <3>7. hosted' /\ b \notin drift' =>
             \/ \E o \in PushSlots : Knows(o, b)'
             \/ (\A o \in PushSlots : ~Moving(o, b)') /\ cache'[b] = TipRow(b)'
      BY <1>7, <1>9, <2>0, <3>2, <3>3, <3>4, <3>5 DEF BranchKnown
    <3> QED BY <3>6, <3>7 DEF BranchKnown
  <2> QED BY <2>1, <2>2
<1> QED BY <1>8, <1>10 DEF RowsKnown

LEMMA UploadsKnown ==
    ASSUME PushesKept, RowsKnown, NEW q \in PushSlots, NEW t \in Branch, Uploads(q, t)
    PROVE  RowsKnown'
<1>1. pushing'[q] = NoPush /\ NoPush.step = "idle"
  BY DEF Uploads, NoPush
<1>2. ASSUME NEW o \in PushSlots, o # q
      PROVE  /\ pushing'[o].step = pushing[o].step /\ pushing'[o].updates = pushing[o].updates
             /\ pushing'[o].skipped = pushing[o].skipped
             /\ pushing'[o].alone = pushing[o].alone \ {t}
  <2>1. pushing[o] \in PushRecord
    BY DEF PushesKept, ServerShape
  <2>2. pushing'[o] = [pushing[o] EXCEPT !.alone = @ \ {t}]
    BY <1>2 DEF Uploads
  <2> QED BY <2>1, <2>2 DEF PushRecord
<1>3. ~InFlight(q) /\ ~InFlight(q)' /\ \A o \in PushSlots : InFlight(o)' = InFlight(o)
  BY <1>1, <1>2 DEF Uploads, InFlight
<1>4. UNCHANGED <<present, hosted, cache>>
  BY DEF Uploads, diskVars
<1>5. Grounded'
  BY <1>3, <1>4 DEF RowsKnown, Grounded
<1>6. \A b \in Branch, o \in PushSlots : Moving(o, b)' = Moving(o, b)
  BY <1>2, <1>3 DEF Moving
<1>7. ASSUME NEW b \in Branch PROVE BranchKnown(b)'
  <2>0. BranchKnown(b) /\ BranchRef(b) \in Ref /\ BranchRef(t) \in Ref
    BY DEF RowsKnown, BranchRef, Ref
  <2>1. CASE b = t /\ b \in drift'
    BY <1>2, <1>3, <1>6, <2>0, <2>1 DEF BranchKnown
  <2>2. CASE tips'[BranchRef(b)] = tips[BranchRef(b)] /\ (b \in drift' <=> b \in drift)
    <3>1. \A o \in PushSlots : Knows(o, b) => Knows(o, b)'
      BY <1>2, <1>3, <1>6, <2>2 DEF Knows, Moving
    <3>2. TipRow(b)' = TipRow(b)
      BY <2>2 DEF TipRow
    <3>3. ASSUME NEW o \in PushSlots, InFlight(o)'
          PROVE  /\ b \in pushing'[o].skipped => Moving(o, b)' /\ b \in drift'
                 /\ b \in pushing'[o].alone => Knows(o, b)'
      BY <1>2, <1>3, <1>6, <2>0, <2>2, <3>1, <3>3 DEF BranchKnown
    <3>4. hosted' /\ b \notin drift' =>
             \/ \E o \in PushSlots : Knows(o, b)'
             \/ (\A o \in PushSlots : ~Moving(o, b)') /\ cache'[b] = TipRow(b)'
      BY <1>4, <1>6, <2>0, <2>2, <3>1, <3>2 DEF BranchKnown
    <3> QED BY <3>3, <3>4 DEF BranchKnown
  <2>3. (b = t /\ b \in drift')
        \/ (tips'[BranchRef(b)] = tips[BranchRef(b)] /\ (b \in drift' <=> b \in drift))
    <3>1. CASE UNCHANGED <<gitVars, drift>>
      BY <3>1 DEF gitVars
    <3>2. CASE tips' = [tips EXCEPT ![BranchRef(t)] = grown'] /\ drift' = drift \cup {t}
      BY <2>0, <3>2 DEF PushesKept, GitShape, BranchRef
    <3> QED BY <3>1, <3>2 DEF Uploads
  <2> QED BY <2>1, <2>2, <2>3
<1> QED BY <1>5, <1>7 DEF RowsKnown

LEMMA GitMovesKnown ==
    ASSUME PushesKept, RowsKnown, NEW q \in PushSlots, NEW Reports \in SUBSET BOOLEAN,
           GitMoves(q, Reports)
    PROVE  RowsKnown'
<1>1. ASSUME NEW u \in Actor, InfoRefs(q, u) PROVE RowsKnown'
  <2>1. PICK x : x = [NoPush EXCEPT !.step = "advertised", !.seen = tips]
    OBVIOUS
  <2>2. x.step = "advertised"
    BY <2>1 DEF NoPush
  <2>3. pushing' = [pushing EXCEPT ![q] = x] /\ ~InFlight(q)
    BY <1>1, <2>1 DEF InfoRefs, Begins, InFlight
  <2>4. UNCHANGED <<tips, present, hosted, cache, drift>>
    BY <1>1 DEF InfoRefs, gitVars, diskVars
  <2> QED BY <2>2, <2>3, <2>4, NoHook
<1>2. ASSUME NEW cmd \in Command, NEW reported \in Reports, ReceivePack(q, cmd, reported)
      PROVE  RowsKnown'
  BY <1>2, ReceivePackIs, ReceivesKnown
<1>3. CASE RefusePush(q)
  <2>1. pushing' = [pushing EXCEPT ![q] = NoPush] /\ ~InFlight(q) /\ NoPush.step = "idle"
    BY <1>3 DEF RefusePush, InFlight, NoPush
  <2>2. UNCHANGED <<tips, present, hosted, cache, drift>>
    BY <1>3 DEF RefusePush, gitVars, diskVars
  <2> QED BY <2>1, <2>2, NoHook
<1>4. ASSUME NEW u \in Actor, NEW b \in Branch, ReadParent(q, u, b) PROVE RowsKnown'
  <2>1. PICK x : x = [NoPush EXCEPT !.step = "uploading", !.updates = [r \in {BranchRef(b)} |->
                        IF tips[BranchRef(b)] # 0 THEN tips[BranchRef(b)]
                        ELSE tips[BranchRef(HeadBranch)]]]
    OBVIOUS
  <2>2. x.step = "uploading"
    BY <2>1 DEF NoPush
  <2>3. pushing' = [pushing EXCEPT ![q] = x] /\ ~InFlight(q)
    BY <1>4, <2>1 DEF ReadParent, Begins, InFlight
  <2>4. UNCHANGED <<tips, present, hosted, cache, drift>>
    BY <1>4 DEF ReadParent, gitVars, diskVars
  <2> QED BY <2>2, <2>3, <2>4, NoHook
<1>5. ASSUME NEW b \in Branch, CreateCommit(q, b) PROVE RowsKnown'
  BY <1>5, CreateCommitIs, UploadsKnown
<1> QED BY <1>1, <1>2, <1>3, <1>4, <1>5 DEF GitMoves

LEMMA RowsStepKnown ==
    PushesKept /\ RowsKnown /\ [PushesNext]_pushVars => RowsKnown'
<1> SUFFICES ASSUME PushesKept, RowsKnown, [PushesNext]_pushVars PROVE RowsKnown'
  OBVIOUS
<1>1. \A b \in Branch : BranchKnown(b)
  BY DEF RowsKnown
<1>2. \A o \in PushSlots : pushing[o] \in PushRecord
  BY DEF PushesKept, ServerShape
<1>3. CASE UNCHANGED pushVars
  BY <1>3 DEF pushVars, gitVars, diskVars, RowsKnown, Grounded, BranchKnown, Knows, Moving,
              TipRow, InFlight
\* Fewer hooks, and the same server.
<1>4. ASSUME \A o \in PushSlots : InFlight(o)' => InFlight(o), UNCHANGED <<present, hosted>>
      PROVE  Grounded'
  BY <1>4 DEF RowsKnown, Grounded
<1>5. ASSUME NEW q \in PushSlots, SyncBranchCache(q) PROVE RowsKnown'
  <2>1. PICK lost : lost = {b \in Moved(pushing[q].updates) :
                 /\ pushing[q].updates[BranchRef(b)] # 0
                 /\ ~Readable(pushing[q].updates[BranchRef(b)])}
    OBVIOUS
  <2>2. PICK had : had = {b \in Branch : cache[b] # NoRow}
    OBVIOUS
  <2>3. drift' = drift \cup lost /\ UNCHANGED <<tips, present, hosted, cache>> /\ InFlight(q)
    BY <1>5, <2>1 DEF SyncBranchCache, InFlight, gitVars, diskVars
  <2>4. CASE ~hosted
    <3>1. pushing' = [pushing EXCEPT ![q] = NoPush] /\ NoPush.step = "idle"
      BY <1>5, <2>4 DEF SyncBranchCache, NoPush
    <3>2. \A o \in PushSlots : InFlight(o)' => InFlight(o)
      BY <3>1 DEF PushesKept, ServerShape, InFlight
    <3>3. \A b \in Branch : BranchKnown(b)'
      <4> TAKE b \in Branch
      <4>1. \A o \in PushSlots, c \in Branch :
               InFlight(o) /\ o # q /\ c \in pushing[o].skipped => c \in drift'
        BY <1>1, <2>3 DEF BranchKnown
      <4> QED BY <2>3, <2>4, <3>1, <4>1, HookEnds
    <3> QED BY <1>4, <2>3, <3>2, <3>3 DEF RowsKnown
  <2>5. CASE hosted
    <3>1. PICK x : x = [pushing[q] EXCEPT !.step = "selected", !.had = had, !.skipped = lost]
      OBVIOUS
    <3>2. /\ x.step = "selected" /\ x.skipped = lost /\ x.updates = pushing[q].updates
          /\ x.alone = pushing[q].alone
      BY <1>2, <3>1 DEF PushRecord
    <3>3. pushing' = [pushing EXCEPT ![q] = x]
      BY <1>5, <2>1, <2>2, <2>5, <3>1 DEF SyncBranchCache
    <3>4. \A o \in PushSlots : (o # q /\ pushing'[o] = pushing[o]) \/ (o = q /\ pushing'[o] = x)
      BY <3>3 DEF PushesKept, ServerShape
    <3>5. \A o \in PushSlots : InFlight(o)' = InFlight(o)
      BY <2>3, <3>2, <3>4 DEF InFlight
    <3>6. \A o \in PushSlots, b \in Branch : Moving(o, b)' = Moving(o, b)
      BY <3>2, <3>4, <3>5 DEF Moving
    <3>7. \A o \in PushSlots, b \in Branch : Knows(o, b) => Knows(o, b)'
      BY <2>3, <3>2, <3>4, <3>6 DEF Knows
    <3>8. ASSUME NEW b \in Branch PROVE BranchKnown(b)'
      <4>1. b \in lost => Moving(q, b)
        BY <2>1, <2>3 DEF Moving
      <4>2. TipRow(b)' = TipRow(b)
        BY <2>3 DEF TipRow
      <4>3. ASSUME NEW o \in PushSlots, InFlight(o)'
            PROVE  /\ b \in pushing'[o].skipped => Moving(o, b)' /\ b \in drift'
                   /\ b \in pushing'[o].alone => Knows(o, b)'
        BY <1>1, <2>3, <3>2, <3>4, <3>5, <3>6, <3>7, <4>1, <4>3 DEF BranchKnown
      <4>4. hosted' /\ b \notin drift' =>
               \/ \E o \in PushSlots : Knows(o, b)'
               \/ (\A o \in PushSlots : ~Moving(o, b)') /\ cache'[b] = TipRow(b)'
        BY <1>1, <2>3, <3>6, <3>7, <4>2 DEF BranchKnown
      <4> QED BY <4>3, <4>4 DEF BranchKnown
    <3> QED BY <1>4, <2>3, <3>5, <3>8 DEF RowsKnown
  <2> QED BY <2>4, <2>5
\* A hook that is through with the rows.
<1>6. ASSUME NEW q \in PushSlots, CommitRows(q) PROVE RowsKnown'
  <2>1. /\ drift' = drift \ (pushing[q].alone \cap ToSync(q)) /\ InFlight(q)
        /\ UNCHANGED <<tips, present, hosted>>
    BY <1>6 DEF CommitRows, InFlight, gitVars, diskVars
  <2>2. PICK x : x = [pushing[q] EXCEPT !.step = "committed"]
    OBVIOUS
  <2>3. x.step = "committed" /\ pushing' = [pushing EXCEPT ![q] = x]
    BY <1>2, <1>6, <2>2 DEF CommitRows, Continues, PushRecord
  <2>4. \A o \in PushSlots : InFlight(o)' => InFlight(o)
    BY <2>3 DEF PushesKept, ServerShape, InFlight
  <2>5. \A o \in PushSlots, b \in Branch :
           InFlight(o) /\ o # q /\ b \in pushing[o].skipped => b \in drift'
    BY <1>1, <2>1 DEF BranchKnown, Knows
  <2>6. ASSUME NEW b \in Branch PROVE BranchKnown(b)'
    <3>1. b \notin ToSync(q) => cache'[b] = cache[b]
      BY <1>6 DEF CommitRows
    <3>2. b \in ToSync(q) =>
             cache'[b] = IF pushing[q].updates[BranchRef(b)] = 0 THEN NoRow
                         ELSE pushing[q].updates[BranchRef(b)]
      BY <1>6 DEF CommitRows
    <3>3. ToSync(q) \subseteq Moved(pushing[q].updates)
      BY DEF ToSync
    <3>4. ASSUME hosted, b \notin drift', Moving(q, b)
          PROVE  (\A o \in PushSlots : Moving(o, b) => o = q) /\ cache'[b] = TipRow(b)
      <4>1. b \in ToSync(q)
        BY <1>1, <2>1, <3>4 DEF ToSync, Moving, BranchKnown
      <4>2. Knows(q, b)
        BY <1>1, <2>1, <3>4 DEF BranchKnown, Knows
      <4> QED BY <3>2, <4>1, <4>2 DEF Knows, TipRow
    <3>5. ASSUME hosted, b \notin drift', ~Moving(q, b)
          PROVE  b \notin drift /\ cache'[b] = cache[b]
      BY <2>1, <3>1, <3>3, <3>5 DEF Moving
    <3> QED BY <2>1, <2>3, <2>5, <3>4, <3>5, HookEnds
  <2> QED BY <1>4, <2>1, <2>4, <2>6 DEF RowsKnown
<1>7. ASSUME NEW q \in PushSlots, HookFails(q) PROVE RowsKnown'
  <2>1. /\ drift' = drift \cup Moved(pushing[q].updates) /\ InFlight(q)
        /\ UNCHANGED <<tips, present, hosted, cache>>
    BY <1>7 DEF HookFails, InFlight, gitVars, diskVars
  <2>2. PICK x : x = [pushing[q] EXCEPT !.step = "over"]
    OBVIOUS
  <2>3. x.step = "over" /\ pushing' = [pushing EXCEPT ![q] = x]
    BY <1>2, <1>7, <2>2 DEF HookFails, Continues, PushRecord
  <2>4. \A o \in PushSlots : InFlight(o)' => InFlight(o)
    BY <2>3 DEF PushesKept, ServerShape, InFlight
  <2>5. \A o \in PushSlots, b \in Branch :
           InFlight(o) /\ o # q /\ b \in pushing[o].skipped => b \in drift'
    BY <1>1, <2>1 DEF BranchKnown
  <2>6. ASSUME NEW b \in Branch PROVE BranchKnown(b)'
    <3>1. b \notin drift' => ~Moving(q, b) /\ b \notin drift /\ cache'[b] = cache[b]
      BY <2>1 DEF Moving
    <3> QED BY <2>1, <2>3, <2>5, <3>1, HookEnds
  <2> QED BY <1>4, <2>1, <2>4, <2>6 DEF RowsKnown
<1>8. ASSUME NEW q \in PushSlots, DeployPages(q) PROVE RowsKnown'
  <2>1. pushing' = [pushing EXCEPT ![q] = NoPush] /\ ~InFlight(q) /\ NoPush.step = "idle"
    BY <1>8 DEF DeployPages, InFlight, NoPush
  <2>2. UNCHANGED <<tips, present, hosted, cache, drift>>
    BY <1>8 DEF DeployPages, gitVars, diskVars
  <2> QED BY <2>1, <2>2, NoHook
<1>9. ASSUME NEW q \in PushSlots, NEW works \in BOOLEAN, DeliverAndBackUp(q, works)
      PROVE  RowsKnown'
  <2>1. PICK x : x = [pushing[q] EXCEPT !.step = "over"]
    OBVIOUS
  <2>2. x.step = "over" /\ pushing' = [pushing EXCEPT ![q] = x] /\ ~InFlight(q)
    BY <1>2, <1>9, <2>1 DEF DeliverAndBackUp, Continues, PushRecord, InFlight
  <2>3. UNCHANGED <<tips, present, hosted, cache, drift>>
    BY <1>9 DEF DeliverAndBackUp, gitVars
  <2> QED BY <2>2, <2>3, NoHook
<1>10. CASE Redeploy
  <2>1. /\ pushing' = [q \in PushSlots |-> NoPush] /\ NoPush.step = "idle"
        /\ UNCHANGED <<tips, hosted, cache>>
        /\ drift' = drift \cup UNION {Moved(pushing[q].updates) : q \in {o \in PushSlots : InFlight(o)}}
    BY <1>10 DEF Redeploy, NoPush, gitVars
  <2>2. \A o \in PushSlots : ~InFlight(o)'
    BY <2>1 DEF InFlight
  <2>3. ASSUME NEW b \in Branch PROVE BranchKnown(b)'
    <3>1. b \notin drift' => b \notin drift /\ \A o \in PushSlots : ~Moving(o, b)
      BY <2>1 DEF Moving
    <3>2. TipRow(b)' = TipRow(b)
      BY <2>1 DEF TipRow
    <3> QED BY <1>1, <2>1, <2>2, <3>1, <3>2 DEF BranchKnown, Moving, Knows
  <2> QED BY <2>2, <2>3 DEF RowsKnown, Grounded
<1>11. CASE RestoreRefs
  <2>1. /\ hosted /\ ~present /\ present' = TRUE /\ tips' = archived
        /\ UNCHANGED <<hosted, cache, pushing>>
        /\ drift' = drift \cup {b \in Branch : tips[BranchRef(b)] # archived[BranchRef(b)]}
    BY <1>11 DEF RestoreRefs
  <2>2. \A o \in PushSlots : ~InFlight(o) /\ ~InFlight(o)'
    BY <2>1 DEF RowsKnown, Grounded, InFlight
  <2>3. ASSUME NEW b \in Branch PROVE BranchKnown(b)'
    <3>1. b \notin drift' => b \notin drift /\ TipRow(b)' = TipRow(b)
      BY <2>1 DEF TipRow
    <3> QED BY <1>1, <2>1, <2>2, <3>1 DEF BranchKnown, Moving, Knows
  <2> QED BY <2>2, <2>3 DEF RowsKnown, Grounded
<1>12. CASE Unhost
  <2>1. hosted' = FALSE /\ UNCHANGED <<tips, drift, pushing>>
    BY <1>12 DEF Unhost, gitVars
  <2>2. \A b \in Branch, o \in PushSlots : Knows(o, b) => Knows(o, b)'
    BY <2>1 DEF Knows, Moving, InFlight
  <2>3. \A b \in Branch : BranchKnown(b)'
    BY <1>1, <2>1, <2>2 DEF BranchKnown, Moving, InFlight
  <2> QED BY <2>1, <2>3 DEF RowsKnown, Grounded
<1> QED
  BY <1>3, <1>5, <1>6, <1>7, <1>8, <1>9, <1>10, <1>11, <1>12, GitMovesKnown DEF PushesNext

\* Once the hooks of a branch are through, its cached row is current, although
\* pushes and hooks overlap, fail and are lost: unless the last moves of the
\* branch are of the kinds the code does not promise it for.
THEOREM CacheFollowsPushes == PushesSpec => []CalmCacheCurrent
<1>1. PushesInit => RowsKnown
  <2> SUFFICES ASSUME PushesInit PROVE RowsKnown
    OBVIOUS
  <2>1. \A q \in PushSlots : ~InFlight(q)
    BY DEF PushesInit, InFlight, NoPush
  <2>2. \A b \in Branch : cache[b] = TipRow(b)
    BY DEF PushesInit, TipRow, BranchRef, Ref
  <2> QED BY <2>1, <2>2 DEF RowsKnown, Grounded, BranchKnown, Moving, Knows
<1>2. RowsKnown => CalmCacheCurrent
  <2> SUFFICES ASSUME RowsKnown, hosted, NEW b \in Branch \ drift,
                      \A q \in PushSlots : InFlight(q) => b \notin Moved(pushing[q].updates)
               PROVE  cache[b] = IF tips[BranchRef(b)] = 0 THEN NoRow ELSE tips[BranchRef(b)]
    BY DEF CalmCacheCurrent
  <2>1. BranchKnown(b) /\ \A q \in PushSlots : ~Moving(q, b)
    BY DEF RowsKnown, Moving
  <2> QED BY <2>1 DEF BranchKnown, Knows, TipRow
<1> QED BY <1>1, <1>2, PushesAlways, RowsStepKnown, PTL DEF PushesSpec

-----------------------------------------------------------------------------
(* What a reader is shown *)

BrowseSpec == BrowseInit /\ [][BrowseNext]_browseVars

\* A view has the fields of NoView.
IsView(v) ==
  v = [step |-> v.step, kind |-> v.kind, name |-> v.name, path |-> v.path, page |-> v.page,
       got |-> v.got, answer |-> v.answer, named |-> v.named]

\* A reader of one name has what it stands for now among the commits it stood
\* for, and knows no commit that does not exist.
ViewShape ==
  /\ IsView(viewing)
  /\ viewing.page \in 0..MaxPages
  /\ viewing.named \subseteq 0..grown
  /\ viewing.step = "idle" => viewing = NoView
  /\ viewing.step \in {"listed", "paging"} =>
        viewing.name \in Name /\ Opens(viewing.name) \in viewing.named
  /\ viewing.step = "listed" => viewing.kind = "tree"
  /\ viewing.step = "paging" => viewing.kind = "history"
  /\ viewing.step = "advertised" => viewing.kind = "clone"
  /\ viewing.kind = "clone" => 0 \notin viewing.named

TreeOfOne ==
  viewing.step = "answered" /\ viewing.kind = "tree" /\ viewing.answer # {} =>
     \E c \in viewing.named : viewing.answer = Answer("tree", c, viewing.path)

CloneIsWhole ==
  viewing.step = "answered" /\ viewing.kind = "clone" =>
     \A c \in viewing.named : ToSet(lineage[c]) \subseteq viewing.answer

\* The pages so far, of a name that has not moved, are the start of its history.
PagesInOrder ==
  \A c \in viewing.named : viewing.named = {c} /\ c # 0 =>
     /\ viewing.step = "paging" =>
           /\ viewing.page * PerPage < Len(lineage[c])
           /\ viewing.got = SubSeq(lineage[c], 1, viewing.page * PerPage)
     /\ viewing.step = "paged" => viewing.got = lineage[c]

ViewKept == ViewShape /\ TreeOfOne /\ CloneIsWhole /\ PagesInOrder

LEMMA GitMovesHistory ==
    ASSUME PushesKept, NEW q \in PushSlots, NEW Reports \in SUBSET BOOLEAN, GitMoves(q, Reports)
    PROVE  History
<1>1. CASE UNCHANGED gitVars
  BY <1>1, HistoryStays DEF gitVars
<1>2. ASSUME NEW cmd \in Command, NEW reported \in Reports, ReceivePack(q, cmd, reported)
      PROVE  History
  BY <1>2, ReceivePackIs DEF Receives
<1>3. ASSUME NEW b \in Branch, CreateCommit(q, b) PROVE History
  BY <1>1, <1>3, CreateCommitIs DEF Uploads
<1> QED BY <1>1, <1>2, <1>3 DEF GitMoves, InfoRefs, RefusePush, ReadParent

LEMMA OpensMade == PushesKept => \A n \in Name : Opens(n) \in 0..grown
<1> SUFFICES ASSUME PushesKept, NEW n \in Name PROVE Opens(n) \in 0..grown
  OBVIOUS
<1> USE DEF PushesKept, GitShape, OnlyMade
<1>1. \A r \in Ref : tips[r] \in 0..grown
  OBVIOUS
<1>2. n \in Branch => tips[BranchRef(n)] \in 0..grown
  BY <1>1 DEF BranchRef, Ref
<1>3. n \in Tag => tips[<<"tags", n>>] \in 0..grown
  BY <1>1 DEF Ref
<1>4. n \in CommitId /\ lineage[n] # <<>> => n \in 0..grown
  BY DEF CommitId
<1> QED BY <1>2, <1>3, <1>4 DEF Opens, ResolveRef

LEMMA OpensStayMade == PushesKept' => (\A n \in Name : Opens(n) \in 0..grown)'
BY OpensMade, PTL

\* What a reader under way keeps while the refs move under it.
LEMMA MovesKeepView ==
    ASSUME PushesKept, PushesKept', ViewKept, Moves
    PROVE  ViewKept'
<1>1. PICK q \in PushSlots : GitMoves(q, {FALSE})
  BY DEF Moves
<1>2. History
  BY <1>1, GitMovesHistory
<1>3. grown \in Nat /\ grown' \in Nat /\ grown <= grown' /\ grown <= MaxTips
      /\ \A c \in 1..grown : lineage'[c] = lineage[c] /\ contents'[c] = contents[c]
  BY <1>2, PushesAssumption DEF History, PushesKept, GitShape
<1>4. PICK n \in Name \cup {0} :
        /\ n = viewing.name
        /\ viewing' = [viewing EXCEPT !.named =
              IF viewing.step \in {"listed", "paging"} THEN @ \cup {Opens(n)'} ELSE @]
  BY DEF Moves
<1>5. PICK new : new = IF viewing.step \in {"listed", "paging"} THEN viewing.named \cup {Opens(n)'}
                       ELSE viewing.named
  OBVIOUS
<1>6. viewing' = [viewing EXCEPT !.named = new]
  BY <1>4, <1>5
<1>7. /\ IsView(viewing') /\ viewing'.step = viewing.step /\ viewing'.kind = viewing.kind
      /\ viewing'.name = n /\ viewing'.path = viewing.path /\ viewing'.page = viewing.page
      /\ viewing'.got = viewing.got /\ viewing'.answer = viewing.answer /\ viewing'.named = new
  BY <1>4, <1>6 DEF ViewKept, ViewShape, IsView
<1>8. viewing.named \subseteq 0..grown
  BY DEF ViewKept, ViewShape
<1>9. ViewShape'
  <2>1. viewing.step \in {"listed", "paging"} => n \in Name /\ Opens(n)' \in 0..grown'
    <3> SUFFICES ASSUME viewing.step \in {"listed", "paging"}
                 PROVE  n \in Name /\ Opens(n)' \in 0..grown'
      OBVIOUS
    <3>1. n \in Name
      BY <1>4 DEF ViewKept, ViewShape
    <3> QED BY <3>1, OpensStayMade
  <2>2. new \subseteq 0..grown'
    BY <1>3, <1>5, <1>8, <2>1
  <2>3. viewing.step = "idle" => viewing' = viewing
    BY <1>5, <1>6, <1>7 DEF ViewKept, ViewShape, IsView
  <2>4. viewing'.step \in {"listed", "paging"} => n \in Name /\ Opens(n)' \in viewing'.named
    BY <1>5, <1>7, <2>1
  <2>5. viewing'.kind = "clone" => 0 \notin viewing'.named
    BY <1>5, <1>7 DEF ViewKept, ViewShape
  <2> QED BY <1>7, <2>2, <2>3, <2>4, <2>5 DEF ViewKept, ViewShape
<1>10. TreeOfOne'
  <2>1. PICK p : p = viewing.path
    OBVIOUS
  <2>2. ASSUME NEW c \in viewing.named PROVE Answer("tree", c, p)' = Answer("tree", c, p)
    <3>1. c = 0 \/ contents'[c] = contents[c]
      BY <1>3, <1>8
    <3> QED BY <3>1 DEF Answer, GetTree, Missing
  <2>3. ASSUME viewing'.step = "answered", viewing'.kind = "tree", viewing'.answer # {}
        PROVE  \E c \in viewing'.named : viewing'.answer = Answer("tree", c, p)'
    <3>1. PICK c \in viewing.named : viewing.answer = Answer("tree", c, p)
      BY <1>7, <2>1, <2>3 DEF ViewKept, TreeOfOne
    <3>2. viewing'.answer = Answer("tree", c, p)' /\ c \in viewing'.named
      BY <1>5, <1>7, <2>2, <3>1
    <3> QED BY <3>2
  <2>4. p = viewing'.path
    BY <1>7, <2>1
  <2> QED BY <2>3, <2>4 DEF TreeOfOne
<1>11. CloneIsWhole'
  <2>1. ASSUME viewing'.step = "answered", viewing'.kind = "clone", NEW c \in viewing'.named
        PROVE  ToSet(lineage'[c]) \subseteq viewing'.answer
    <3>1. c \in viewing.named /\ c \in 1..grown
      BY <1>3, <1>5, <1>7, <1>8, <2>1 DEF ViewKept, ViewShape
    <3>2. ToSet(lineage[c]) \subseteq viewing.answer
      BY <1>7, <2>1, <3>1 DEF ViewKept, CloneIsWhole
    <3> QED BY <1>3, <1>7, <3>1, <3>2
  <2> QED BY <2>1 DEF CloneIsWhole
<1>12. PagesInOrder'
  <2>1. ASSUME NEW c \in viewing'.named, viewing'.named = {c}, c # 0
        PROVE  c \in viewing.named /\ viewing.named = {c} /\ lineage'[c] = lineage[c]
    BY <1>3, <1>5, <1>7, <1>8, <2>1 DEF ViewKept, ViewShape
  <2> QED BY <1>7, <2>1 DEF ViewKept, PagesInOrder
<1> QED BY <1>9, <1>10, <1>11, <1>12 DEF ViewKept

\* A step of the reader, at refs and commits that stand still: what is to be
\* shown of the view it leaves.
LEMMA LookKeepsView ==
    ASSUME PushesKept, ViewKept, UNCHANGED pushVars, NEW x, viewing' = x, IsView(x),
           x.page \in 0..MaxPages, x.named \subseteq 0..grown, x.step # "idle",
           x.step \in {"listed", "paging"} => x.name \in Name /\ Opens(x.name) \in x.named,
           x.step = "listed" => x.kind = "tree",
           x.step = "paging" => x.kind = "history",
           x.step = "advertised" => x.kind = "clone",
           x.kind = "clone" => 0 \notin x.named,
           x.step = "answered" /\ x.kind = "tree" /\ x.answer # {} =>
              \E c \in x.named : x.answer = Answer("tree", c, x.path),
           x.step = "answered" /\ x.kind = "clone" =>
              \A c \in x.named : ToSet(lineage[c]) \subseteq x.answer,
           \A c \in x.named : x.named = {c} /\ c # 0 =>
              /\ x.step = "paging" =>
                    /\ x.page * PerPage < Len(lineage[c])
                    /\ x.got = SubSeq(lineage[c], 1, x.page * PerPage)
              /\ x.step = "paged" => x.got = lineage[c]
    PROVE  ViewKept'
<1>1. UNCHANGED <<tips, lineage, contents, grown, present>>
  BY DEF pushVars, gitVars, diskVars
<1>2. \A n : Opens(n)' = Opens(n)
  BY <1>1 DEF Opens, IsRepoEmpty, ResolveRef
<1>3. \A c, p : Answer("tree", c, p)' = Answer("tree", c, p)
  BY <1>1 DEF Answer, GetTree, Missing
<1>4. ViewShape'
  BY <1>1, <1>2 DEF ViewShape
<1>5. TreeOfOne'
  BY <1>3 DEF TreeOfOne
<1>6. CloneIsWhole' /\ PagesInOrder'
  BY <1>1 DEF CloneIsWhole, PagesInOrder
<1> QED BY <1>4, <1>5, <1>6 DEF ViewKept

LEMMA ReadPageKept ==
    ASSUME PushesKept, ViewKept, NEW u \in Actor, NEW n \in Name, ReadPage(u, n)
    PROVE  ViewKept'
<1> USE BrowseAssumption
<1>1. PICK c : c = Opens(n)
  OBVIOUS
<1>2. c \in 0..grown /\ grown \in Nat /\ grown <= MaxTips /\ MaxTips \in Nat
  BY <1>1, OpensMade, PushesAssumption DEF PushesKept, GitShape
<1>3. PICK page : page = viewing.page + 1
  OBVIOUS
<1>4. viewing.page \in Nat /\ page \in 0..MaxPages /\ viewing.page = page - 1
  BY <1>3 DEF ReadPage, ViewKept, ViewShape
<1>5. PICK got : got = viewing.got \o (IF c = 0 THEN <<>> ELSE GetCommits(c, page))
  OBVIOUS
<1>6. PICK total : total = IF c = 0 THEN 0 ELSE Len(lineage[c])
  OBVIOUS
<1>7. PICK step : step = IF page * PerPage >= total THEN "paged" ELSE "paging"
  OBVIOUS
<1>8. PICK named : named = viewing.named \cup {c}
  OBVIOUS
<1>9. PICK x : x = [viewing EXCEPT !.step = step, !.kind = "history", !.name = n,
                                   !.page = page, !.got = got, !.named = named]
  OBVIOUS
<1>10. /\ viewing' = x /\ UNCHANGED pushVars
       /\ viewing.step = "idle" \/ (viewing.step = "paging" /\ viewing.name = n)
  BY <1>1, <1>3, <1>5, <1>6, <1>7, <1>8, <1>9 DEF ReadPage
<1>11. /\ IsView(x) /\ x.step = step /\ x.kind = "history" /\ x.name = n /\ x.page = page
       /\ x.got = got /\ x.named = named
  BY <1>9 DEF ViewKept, ViewShape, IsView
<1>12. named \subseteq 0..grown /\ Opens(n) \in named
  BY <1>1, <1>2, <1>8 DEF ViewKept, ViewShape
<1>13. ASSUME NEW d \in named, named = {d}, d # 0
       PROVE  /\ step = "paging" => /\ page * PerPage < Len(lineage[d])
                                    /\ got = SubSeq(lineage[d], 1, page * PerPage)
              /\ step = "paged" => got = lineage[d]
  <2> DEFINE l == lineage[c]
  <2>1. d = c /\ c # 0 /\ c \in CommitId
    <3>1. c \in named
      BY <1>8
    <3>2. c = d
      BY <1>13, <3>1
    <3> QED BY <1>2, <1>13, <3>2 DEF CommitId
  <2>2. l \in Seq(CommitId) /\ Len(l) \in Nat
    BY <2>1 DEF PushesKept, GitShape
  <2>3. PICK k : k = viewing.page * PerPage
    OBVIOUS
  <2>4. k \in Nat
    BY <1>4, <2>3
  <2>5. page * PerPage = k + PerPage /\ (page - 1) * PerPage = k
    BY <1>3, <1>4, <2>3
  <2>6. PICK last : last = IF k + PerPage > Len(l) THEN Len(l) ELSE k + PerPage
    OBVIOUS
  <2>7. GetCommits(c, page) = SubSeq(l, k + 1, last)
    BY <2>5, <2>6 DEF GetCommits
  <2>8. k <= Len(l) /\ viewing.got = SubSeq(l, 1, k)
    <3>1. CASE viewing.step = "idle"
      <4>1. viewing.page = 0 /\ viewing.got = <<>>
        BY <3>1 DEF ViewKept, ViewShape, NoView
      <4>2. k = 0
        BY <2>3, <4>1
      <4>3. SubSeq(l, 1, 0) = <<>>
        BY <2>2
      <4> QED BY <2>2, <4>1, <4>2, <4>3
    <3>2. CASE viewing.step = "paging" /\ viewing.name = n
      <4>1. c \in viewing.named /\ viewing.named = {c}
        BY <1>1, <1>8, <1>13, <2>1, <3>2 DEF ViewKept, ViewShape
      <4>2. k < Len(l) /\ viewing.got = SubSeq(l, 1, k)
        BY <2>1, <2>3, <3>2, <4>1 DEF ViewKept, PagesInOrder
      <4> QED BY <2>2, <2>4, <4>2
    <3> QED BY <1>10, <3>1, <3>2
  <2> HIDE DEF l
  <2>9. k \in 0..Len(l) /\ last \in k..Len(l) /\ 1 \in 1..Len(l) + 1
    BY <2>2, <2>4, <2>6, <2>8
  <2>10. SubSeq(l, 1, k) \o SubSeq(l, k + 1, last) = SubSeq(l, 1, last)
    BY <2>2, <2>9, ConcatAdjacentSubSeq
  <2>11. got = SubSeq(l, 1, last)
    BY <1>5, <2>1, <2>7, <2>8, <2>10
  <2>12. total = Len(l) /\ l = lineage[d]
    BY <1>6, <2>1 DEF l
  <2>13. CASE page * PerPage >= total
    <3>1. step = "paged" /\ last = Len(l)
      BY <1>7, <2>2, <2>4, <2>5, <2>6, <2>12, <2>13
    <3>2. SubSeq(l, 1, Len(l)) = l
      BY <2>2, SubSeqFull
    <3> QED BY <2>11, <2>12, <3>1, <3>2
  <2>14. CASE ~(page * PerPage >= total)
    <3>1. step = "paging" /\ page * PerPage = last /\ last < Len(l)
      BY <1>7, <2>2, <2>4, <2>5, <2>6, <2>12, <2>14
    <3> QED BY <2>11, <2>12, <3>1
  <2> QED BY <2>13, <2>14
<1>14. step # "idle" /\ step # "listed" /\ step # "advertised" /\ step # "answered"
  BY <1>7
<1> QED BY <1>4, <1>10, <1>11, <1>12, <1>13, <1>14, LookKeepsView

LEMMA LookKept ==
    ASSUME PushesKept, ViewKept, NEW u \in Actor, Look(u)
    PROVE  ViewKept'
<1> USE BrowseAssumption
<1>1. IsView(NoView) /\ NoView.page \in 0..MaxPages
  BY DEF IsView, NoView
<1>2. ASSUME NEW n \in Name, ReadPage(u, n) PROVE ViewKept'
  BY <1>2, ReadPageKept
<1>3. ASSUME NEW n \in Name, NEW kind \in {"blob", "readme"}, NEW path, ReadAtOnce(u, kind, n, path)
      PROVE  ViewKept'
  <2>1. PICK x : x = [NoView EXCEPT !.step = "answered", !.kind = kind, !.name = n, !.path = path,
                        !.answer = Answer(kind, Opens(n), path), !.named = {Opens(n)}]
    OBVIOUS
  <2>2. /\ IsView(x) /\ x.step = "answered" /\ x.kind = kind /\ x.page = 0 /\ x.named = {Opens(n)}
    BY <2>1 DEF NoView, IsView
  <2>3. x.named \subseteq 0..grown
    BY <2>2, OpensMade
  <2>4. viewing' = x /\ UNCHANGED pushVars
    BY <1>3, <2>1 DEF ReadAtOnce
  <2>5. 0 \in 0..MaxPages
    OBVIOUS
  <2> QED BY <2>2, <2>3, <2>4, <2>5, LookKeepsView
<1>4. ASSUME NEW cached \in BOOLEAN, ShowBranches(u, cached) PROVE ViewKept'
  <2>1. PICK step : step = IF cached \/ present THEN "answered" ELSE "refused"
    OBVIOUS
  <2>2. PICK answer : answer = IF cached THEN {b \in Branch : cache[b] # NoRow}
                               ELSE IF present THEN ListBranches ELSE {}
    OBVIOUS
  <2>3. PICK x : x = [NoView EXCEPT !.step = step, !.kind = "branches", !.answer = answer]
    OBVIOUS
  <2>4. IsView(x) /\ x.step = step /\ x.kind = "branches" /\ x.page = 0 /\ x.named = {}
    BY <2>3 DEF NoView, IsView
  <2>5. viewing' = x /\ UNCHANGED pushVars
    BY <1>4, <2>1, <2>2, <2>3 DEF ShowBranches
  <2>6. 0 \in 0..MaxPages /\ step \in {"answered", "refused"}
    BY <2>1
  <2> QED BY <2>4, <2>5, <2>6, LookKeepsView
<1>5. ASSUME NEW n \in Name, NEW path, ListForTree(u, n, path) PROVE ViewKept'
  <2>1. PICK step : step = IF present /\ n \in ListBranches THEN "listed" ELSE "answered"
    OBVIOUS
  <2>2. PICK x : x = [NoView EXCEPT !.step = step, !.kind = "tree", !.name = n, !.path = path,
                                    !.named = {Opens(n)}]
    OBVIOUS
  <2>3. /\ IsView(x) /\ x.step = step /\ x.kind = "tree" /\ x.page = 0 /\ x.named = {Opens(n)}
        /\ x.name = n /\ x.answer = {}
    BY <2>2 DEF NoView, IsView
  <2>4. x.named \subseteq 0..grown
    BY <2>3, OpensMade
  <2>5. viewing' = x /\ UNCHANGED pushVars
    BY <1>5, <2>1, <2>2 DEF ListForTree
  <2>6. 0 \in 0..MaxPages /\ step \in {"listed", "answered"}
    BY <2>1
  <2> QED BY <2>3, <2>4, <2>5, <2>6, LookKeepsView
<1>6. CASE ShowRefs(u)
  <2>1. PICK named : named = {tips[r] : r \in Ref} \ {0}
    OBVIOUS
  <2>2. named \subseteq 0..grown /\ 0 \notin named
    BY <2>1 DEF PushesKept, GitShape, OnlyMade
  <2>3. PICK x : x = [NoView EXCEPT !.step = "advertised", !.kind = "clone", !.named = named]
    OBVIOUS
  <2>4. IsView(x) /\ x.step = "advertised" /\ x.kind = "clone" /\ x.page = 0 /\ x.named = named
    BY <2>3 DEF NoView, IsView
  <2>5. viewing' = x /\ UNCHANGED pushVars
    BY <1>6, <2>1, <2>3 DEF ShowRefs
  <2>6. 0 \in 0..MaxPages
    OBVIOUS
  <2> QED BY <2>2, <2>4, <2>5, <2>6, LookKeepsView
<1>7. CASE UploadPack(u)
  <2>1. /\ viewing.step = "advertised" /\ viewing.kind = "clone" /\ IsView(viewing)
        /\ viewing.page \in 0..MaxPages /\ viewing.named \subseteq 0..grown /\ 0 \notin viewing.named
    BY <1>7 DEF UploadPack, ViewKept, ViewShape
  <2>2. PICK full : full = UNION {ToSet(lineage[c]) : c \in viewing.named}
    OBVIOUS
  <2>3. UNCHANGED pushVars /\ (viewing' = [viewing EXCEPT !.step = "answered", !.answer = full]
                               \/ viewing' = [viewing EXCEPT !.step = "refused"])
    BY <1>7, <2>2 DEF UploadPack
  <2>4. CASE viewing' = [viewing EXCEPT !.step = "answered", !.answer = full]
    <3>1. PICK x : x = [viewing EXCEPT !.step = "answered", !.answer = full]
      OBVIOUS
    <3>2. /\ IsView(x) /\ x.step = "answered" /\ x.kind = "clone" /\ x.page = viewing.page
          /\ x.named = viewing.named /\ x.answer = full
      BY <2>1, <3>1 DEF IsView
    <3>3. \A c \in x.named : ToSet(lineage[c]) \subseteq x.answer
      BY <2>2, <3>2
    <3>4. viewing' = x
      BY <2>4, <3>1
    <3> QED BY <2>1, <2>3, <3>2, <3>3, <3>4, LookKeepsView
  <2>5. CASE viewing' = [viewing EXCEPT !.step = "refused"]
    <3>1. PICK x : x = [viewing EXCEPT !.step = "refused"]
      OBVIOUS
    <3>2. /\ IsView(x) /\ x.step = "refused" /\ x.kind = "clone" /\ x.page = viewing.page
          /\ x.named = viewing.named
      BY <2>1, <3>1 DEF IsView
    <3>3. viewing' = x
      BY <2>5, <3>1
    <3> QED BY <2>1, <2>3, <3>2, <3>3, LookKeepsView
  <2> QED BY <2>3, <2>4, <2>5
<1> QED BY <1>2, <1>3, <1>4, <1>5, <1>6, <1>7 DEF Look

LEMMA ReadTreeKept == ASSUME PushesKept, ViewKept, ReadTree PROVE ViewKept'
<1>1. /\ viewing.step = "listed" /\ viewing.kind = "tree" /\ IsView(viewing)
      /\ viewing.page \in 0..MaxPages /\ viewing.named \subseteq 0..grown
      /\ Opens(viewing.name) \in viewing.named
  BY DEF ReadTree, ViewKept, ViewShape
<1>2. PICK answer : answer = Answer("tree", Opens(viewing.name), viewing.path)
  OBVIOUS
<1>3. PICK x : x = [viewing EXCEPT !.step = "answered", !.answer = answer]
  OBVIOUS
<1>4. /\ IsView(x) /\ x.step = "answered" /\ x.kind = "tree" /\ x.page = viewing.page
      /\ x.named = viewing.named /\ x.path = viewing.path /\ x.answer = answer
  BY <1>1, <1>3 DEF IsView
<1>5. \E c \in x.named : x.answer = Answer("tree", c, x.path)
  BY <1>1, <1>2, <1>4
<1>6. viewing' = x /\ UNCHANGED pushVars
  BY <1>2, <1>3 DEF ReadTree
<1> QED BY <1>1, <1>4, <1>5, <1>6, LookKeepsView

LEMMA BrowseStepKept ==
    PushesKept /\ ViewKept /\ [BrowseNext]_browseVars => PushesKept' /\ ViewKept'
<1> SUFFICES ASSUME PushesKept, ViewKept, [BrowseNext]_browseVars
             PROVE  PushesKept' /\ ViewKept'
  OBVIOUS
<1>1. UNCHANGED pushVars => PushesKept'
  BY PushesStepKept
<1>2. CASE UNCHANGED browseVars
  <2>1. UNCHANGED pushVars /\ viewing' = viewing
    BY <1>2 DEF browseVars
  <2>2. UNCHANGED <<tips, lineage, contents, grown, present>>
    BY <2>1 DEF pushVars, gitVars, diskVars
  <2>3. \A n : Opens(n)' = Opens(n)
    BY <2>2 DEF Opens, IsRepoEmpty, ResolveRef
  <2>4. \A c, p : Answer("tree", c, p)' = Answer("tree", c, p)
    BY <2>2 DEF Answer, GetTree, Missing
  <2>5. ViewShape'
    BY <2>1, <2>2, <2>3 DEF ViewKept, ViewShape
  <2>6. TreeOfOne'
    BY <2>1, <2>4 DEF ViewKept, TreeOfOne
  <2>7. CloneIsWhole' /\ PagesInOrder'
    BY <2>1, <2>2 DEF ViewKept, CloneIsWhole, PagesInOrder
  <2> QED BY <1>1, <2>1, <2>5, <2>6, <2>7 DEF ViewKept
<1>3. CASE Moves
  <2>1. PICK q \in PushSlots : GitMoves(q, {FALSE})
    BY <1>3 DEF Moves
  <2>2. PushesKept'
    BY <2>1, GitMovesKept
  <2> QED BY <1>3, <2>2, MovesKeepView
<1>4. CASE ReadTree
  BY <1>1, <1>4, ReadTreeKept DEF ReadTree
<1>5. ASSUME NEW u \in Actor, Look(u) PROVE PushesKept' /\ ViewKept'
  <2>1. UNCHANGED pushVars
    BY <1>5 DEF Look, ReadPage, ReadAtOnce, ListForTree, ShowBranches, ShowRefs, UploadPack
  <2> QED BY <1>1, <1>5, <2>1, LookKept
<1> QED BY <1>2, <1>3, <1>4, <1>5 DEF BrowseNext

LEMMA BrowseAlways == BrowseSpec => [](PushesKept /\ ViewKept)
<1>1. BrowseInit => PushesKept /\ ViewKept
  <2> SUFFICES ASSUME BrowseInit PROVE PushesKept /\ ViewKept
    OBVIOUS
  <2>1. PushesKept
    BY PushesStart DEF BrowseInit
  <2>2. /\ viewing = NoView /\ IsView(NoView) /\ NoView.step = "idle" /\ NoView.page = 0
        /\ NoView.named = {} /\ NoView.kind = "none"
    BY DEF BrowseInit, NoView, IsView
  <2>3. ViewKept
    BY <2>2, BrowseAssumption DEF ViewKept, ViewShape, TreeOfOne, CloneIsWhole, PagesInOrder
  <2> QED BY <2>1, <2>3
<1> QED BY <1>1, BrowseStepKept, PTL DEF BrowseSpec

\* A reader asks for no more pages than the bound, and is shown existing commits.
THEOREM BrowseTyped == BrowseSpec => [](PushesTypeOK /\ BrowseTypeOK)
<1>1. PushesKept => PushesTypeOK
  BY DEF PushesKept, GitShape, ServerShape, OnlyMade, PushesTypeOK, PushRecord
<1>2. PushesKept /\ ViewKept => BrowseTypeOK
  BY PushesAssumption DEF PushesKept, GitShape, ViewKept, ViewShape, BrowseTypeOK
<1> QED BY <1>1, <1>2, BrowseAlways, PTL

\* A tree is that of one commit its name stood for while it was read, a clone
\* has the whole history of what it was shown, and the pages of a name that does
\* not move add up to its history, whatever pushes and uploads do meanwhile.
THEOREM ReadersSeeOneCommit == BrowseSpec => []ReadsOneCommit
<1>1. ViewKept => ReadsOneCommit
  BY DEF ViewKept, TreeOfOne, CloneIsWhole, PagesInOrder, ReadsOneCommit
<1> QED BY <1>1, BrowseAlways, PTL
=============================================================================
