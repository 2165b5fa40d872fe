---------------------------- MODULE PagesProofs ----------------------------
(***************************************************************************)
(* Type correctness of Pages, and its four safety invariants, for any      *)
(* number of requests, workers, branches and commits.                      *)
(***************************************************************************)
EXTENDS Pages, TLAPS

\* A set of at most one row, branch or commit is empty or a singleton.
LEMMA Singletons ==
    ASSUME NEW S
    PROVE  /\ {} \in AtMostOne(S)
           /\ \A x \in S : {x} \in AtMostOne(S)
           /\ \A T \in AtMostOne(S) : T = {} \/ \E x \in S : T = {x}
<1>1. {} \in AtMostOne(S)
  BY DEF AtMostOne
<1>2. \A x \in S : {x} \in AtMostOne(S)
  BY DEF AtMostOne
<1>3. ASSUME NEW T \in AtMostOne(S) PROVE T = {} \/ \E x \in S : T = {x}
  <2>1. CASE T # {}
    <3>1. PICK x \in T : TRUE
      BY <2>1
    <3>2. T = {x}
      BY <3>1 DEF AtMostOne
    <3> QED BY <3>1, <3>2 DEF AtMostOne
  <2> QED BY <2>1
<1> QED BY <1>1, <1>2, <1>3

LEMMA TypeInit == Init => TypeOK
<1> SUFFICES ASSUME Init PROVE TypeOK
  OBVIOUS
<1>1. tip \in [Branch -> AtMostOne(Commit)] /\ row \in AtMostOne(Row)
  BY DEF Init, AtMostOne
<1>2. NewCall \in Call
  BY DEF NewCall, Call, AtMostOne
<1>3. req \in [Request -> Call]
  BY <1>2 DEF Init
<1>4. build \in [Worker -> AtMostOne(Build)]
  BY DEF Init, AtMostOne
<1>5. crossed \in BOOLEAN
  BY DEF Init
<1> QED BY <1>1, <1>3, <1>4, <1>5, FaultsAssumption DEF Init, TypeOK

LEMMA TypeStep == TypeOK /\ [Next]_vars => TypeOK'
<1> SUFFICES ASSUME TypeOK, [Next]_vars PROVE TypeOK'
  OBVIOUS
<1> USE DEF TypeOK
<1>1. DoneCall \in Call
  BY DEF DoneCall, NewCall, Call, AtMostOne
<1>2. CASE UNCHANGED vars
  BY <1>2 DEF vars
<1>3. ASSUME NEW b \in Branch, NEW c \in Commit, Push(b, c) PROVE TypeOK'
  <2>1. {c} \in AtMostOne(Commit)
    BY DEF AtMostOne
  <2> QED BY <1>3, <2>1 DEF Push, damages
<1>4. ASSUME NEW q \in Request, Refuse(q) PROVE TypeOK'
  BY <1>1, <1>4 DEF Refuse, git, notes, damages
<1>5. ASSUME NEW q \in Request, NEW k \in {"save", "disable"},
             NEW b \in AtMostOne(Branch), NEW f \in AtMostOne(Folder), Load(q, k, b, f)
      PROVE  TypeOK'
  <2>1. {x \in b : \A r \in row : r.branch # x} \in AtMostOne(Branch)
    BY DEF AtMostOne
  <2>2. {x \in f : \A r \in row : r.folder # x} \in AtMostOne(Folder)
    BY DEF AtMostOne
  <2>3. req' \in [Request -> Call]
    BY <1>5, <2>1, <2>2 DEF Load, Call
  <2> QED BY <1>5, <2>3 DEF Load, git, notes, damages
<1>6. ASSUME NEW q \in Request, LoadEnable(q) \/ LoadUpdate(q) \/ LoadDisable(q)
      PROVE  TypeOK'
  <2>1. \A x \in Branch : {x} \in AtMostOne(Branch)
    BY DEF AtMostOne
  <2>2. \A x \in Folder : {x} \in AtMostOne(Folder)
    BY DEF AtMostOne
  <2>3. {} \in AtMostOne(Branch) /\ {} \in AtMostOne(Folder)
    BY DEF AtMostOne
  <2>4. CASE LoadEnable(q)
    BY <1>5, <2>1, <2>2, <2>4 DEF LoadEnable
  <2>5. CASE LoadUpdate(q)
    BY <1>4, <1>5, <2>5 DEF LoadUpdate
  <2>6. CASE LoadDisable(q)
    BY <1>4, <1>5, <2>3, <2>6 DEF LoadDisable
  <2> QED BY <1>6, <2>4, <2>5, <2>6
<1>7. ASSUME NEW q \in Request, Commits(q), row' \in AtMostOne(Row)
      PROVE  req' \in [Request -> Call]
  BY <1>7 DEF Commits, Call
<1>8. ASSUME NEW r \in Row, Record(r)
      PROVE  /\ row' \in AtMostOne(Row)
             /\ sources' \in [RowId -> SUBSET (Branch \X Folder)]
             /\ current' \subseteq Commit
  <2>1. {r} \in AtMostOne(Row)
    BY DEF AtMostOne
  <2>2. r.id \in RowId /\ r.branch \in Branch /\ r.folder \in Folder
    BY DEF Row
  <2>3. tip[r.branch] \subseteq Commit
    BY <2>2 DEF AtMostOne
  <2> QED BY <1>8, <2>1, <2>2, <2>3 DEF Record
<1>9. ASSUME NEW q \in Request, CommitInsert(q) PROVE TypeOK'
  <2>1. PICK i \in RowId, b \in req[q].branch, f \in req[q].folder :
          Record([id |-> i, branch |-> b, folder |-> f, status |-> "pending", sha |-> {}])
    BY <1>9 DEF CommitInsert
  <2>2. b \in Branch /\ f \in Folder
    BY DEF Call, AtMostOne
  <2>3. [id |-> i, branch |-> b, folder |-> f, status |-> "pending", sha |-> {}] \in Row
    BY <2>2 DEF Row, AtMostOne
  <2> QED BY <1>7, <1>8, <1>9, <2>1, <2>3 DEF CommitInsert, Commits, git, damages
<1>10. ASSUME NEW q \in Request, CommitUpdate(q) PROVE TypeOK'
  <2>1. PICK s \in req[q].seen, r \in row :
          Record([r EXCEPT !.branch = Written(req[q].branch, @),
                           !.folder = Written(req[q].folder, @),
                           !.status = Written({"pending"} \ {s.status}, @)])
    BY <1>10 DEF CommitUpdate
  <2>2. r \in Row
    BY DEF AtMostOne
  <2>3. /\ Written(req[q].branch, r.branch) \in Branch
        /\ Written(req[q].folder, r.folder) \in Folder
        /\ Written({"pending"} \ {s.status}, r.status)
             \in {"pending", "building", "active", "failed"}
    <3>1. req[q].branch \in SUBSET Branch /\ req[q].folder \in SUBSET Folder
      BY DEF Call, AtMostOne
    <3>2. /\ r.branch \in Branch /\ r.folder \in Folder
          /\ r.status \in {"pending", "building", "active", "failed"}
      BY <2>2 DEF Row
    <3>3. /\ Written(req[q].branch, r.branch) \in Branch
          /\ Written(req[q].folder, r.folder) \in Folder
      BY <3>1, <3>2 DEF Written
    <3>4. Written({"pending"} \ {s.status}, r.status)
            \in {"pending", "building", "active", "failed"}
      BY <3>2 DEF Written
    <3> QED BY <3>3, <3>4
  <2>4. [r EXCEPT !.branch = Written(req[q].branch, @),
                  !.folder = Written(req[q].folder, @),
                  !.status = Written({"pending"} \ {s.status}, @)] \in Row
    BY <2>2, <2>3 DEF Row
  <2> QED BY <1>7, <1>8, <1>10, <2>1, <2>4 DEF CommitUpdate, Commits, git, damages
<1>11. ASSUME NEW q \in Request, CommitRefused(q) \/ RefreshFails(q) \/ EnqueueFails(q)
       PROVE  TypeOK'
  <2>1. CASE CommitRefused(q) \/ RefreshFails(q)
    BY <1>4, <2>1 DEF CommitRefused, RefreshFails
  <2>2. CASE EnqueueFails(q)
    BY <1>1, <2>2 DEF EnqueueFails, git, notes
  <2> QED BY <1>11, <2>1, <2>2
<1>12. ASSUME NEW q \in Request, Enqueue(q) PROVE TypeOK'
  BY <1>1, <1>12 DEF Enqueue, git, notes, damages
<1>13. ASSUME NEW q \in Request, Scrub(q) \/ ScrubFails(q) PROVE TypeOK'
  <2>1. req' \in [Request -> Call]
    BY <1>13 DEF Scrub, ScrubFails, Call
  <2>2. \A s \in req[q].seen : s.sha \subseteq Commit
    BY DEF Call, Row, AtMostOne
  <2> QED BY <1>13, <2>1, <2>2 DEF Scrub, ScrubFails, git, notes, damages
<1>14. ASSUME NEW q \in Request, DeleteRow(q) PROVE TypeOK'
  <2>1. row' \in AtMostOne(Row)
    BY <1>14 DEF DeleteRow, AtMostOne
  <2> QED BY <1>1, <1>14, <2>1 DEF DeleteRow, git, notes, damages
<1>15. ASSUME NEW w \in Worker, NEW b \in Build, build' = [build EXCEPT ![w] = {b}]
       PROVE  build' \in [Worker -> AtMostOne(Build)]
  <2>1. {b} \in AtMostOne(Build)
    BY DEF AtMostOne
  <2> QED BY <1>15, <2>1
<1>16. ASSUME NEW w \in Worker, build' = [build EXCEPT ![w] = {}]
       PROVE  build' \in [Worker -> AtMostOne(Build)]
  <2>1. {} \in AtMostOne(Build)
    BY DEF AtMostOne
  <2> QED BY <1>16, <2>1
<1>17. \A w \in Worker : \A b \in build[w] : b \in Build
  BY DEF AtMostOne
<1>18. \A r \in row : r \in Row
  BY DEF AtMostOne
<1>19. ASSUME NEW w \in Worker, TakeNothing(w) PROVE TypeOK'
  BY <1>19 DEF TakeNothing, git, notes, damages
<1>20. ASSUME NEW w \in Worker, Take(w) PROVE TypeOK'
  <2>1. PICK r \in row : row = {r}
    BY <1>20 DEF Take, AtMostOne
  <2>2. [step |-> "loaded", seen |-> r, sha |-> {}, left |-> {}] \in Build
    BY <1>18 DEF Build, AtMostOne
  <2>3. build' = [build EXCEPT ![w] = {[step |-> "loaded", seen |-> r, sha |-> {}, left |-> {}]}]
    BY <1>20, <2>1 DEF Take
  <2>4. build' \in [Worker -> AtMostOne(Build)]
    BY <1>15, <2>2, <2>3
  <2>5. crossed' \in BOOLEAN
    BY <1>20 DEF Take, Building
  <2> QED BY <1>20, <2>4, <2>5 DEF Take, git, notes
<1>21. ASSUME NEW w \in Worker, MarkBuilding(w) PROVE TypeOK'
  <2>1. PICK b \in build[w] :
          /\ row' = {IF r.id = b.seen.id
                     THEN [r EXCEPT !.status = Written({"building"} \ {b.seen.status}, @)]
                     ELSE r : r \in row}
          /\ build' = [build EXCEPT ![w] = {[b EXCEPT !.step = "marked"]}]
    BY <1>21 DEF MarkBuilding
  <2>2. [b EXCEPT !.step = "marked"] \in Build
    BY <1>17 DEF Build
  <2>3. \A r \in row : [r EXCEPT !.status = Written({"building"} \ {b.seen.status}, @)] \in Row
    <3> TAKE r \in row
    <3>1. Written({"building"} \ {b.seen.status}, r.status)
            \in {"pending", "building", "active", "failed"}
      <4>1. r.status \in {"pending", "building", "active", "failed"}
        BY <1>18 DEF Row
      <4> QED BY <4>1 DEF Written
    <3> QED BY <1>18, <3>1 DEF Row
  <2>4. row' \in AtMostOne(Row)
    <3>1. CASE row = {}
      <4>1. row' = {}
        BY <2>1, <3>1
      <4> QED BY <4>1, Singletons
    <3>2. ASSUME NEW r \in Row, row = {r} PROVE row' \in AtMostOne(Row)
      <4>1. row' = {IF r.id = b.seen.id
                    THEN [r EXCEPT !.status = Written({"building"} \ {b.seen.status}, @)]
                    ELSE r}
        BY <2>1, <3>2
      <4> QED BY <2>3, <3>2, <4>1, Singletons
    <3> QED BY <3>1, <3>2, Singletons
  <2>5. build' \in [Worker -> AtMostOne(Build)]
    BY <1>15, <2>1, <2>2
  <2> QED BY <1>21, <2>4, <2>5 DEF MarkBuilding, git, notes, damages
<1>22. ASSUME NEW w \in Worker, Resolve(w) PROVE TypeOK'
  <2>1. PICK b \in build[w] :
          build' = [build EXCEPT ![w] = {[b EXCEPT
             !.step = "uploading",
             !.sha = tip[b.seen.branch],
             !.left = UNION {Tree[c][b.seen.folder] : c \in tip[b.seen.branch]}]}]
    BY <1>22 DEF Resolve
  <2>2. /\ b \in Build /\ b.seen.branch \in Branch /\ b.seen.folder \in Folder
        /\ tip[b.seen.branch] \in AtMostOne(Commit)
    BY <1>17 DEF Build, Row
  <2>3. UNION {Tree[c][b.seen.folder] : c \in tip[b.seen.branch]} \in SUBSET Page
    BY <2>2, TreeAssumption DEF AtMostOne
  <2>4. [b EXCEPT !.step = "uploading", !.sha = tip[b.seen.branch],
           !.left = UNION {Tree[c][b.seen.folder] : c \in tip[b.seen.branch]}] \in Build
    BY <2>2, <2>3 DEF Build
  <2>5. build' \in [Worker -> AtMostOne(Build)]
    BY <1>15, <2>1, <2>4
  <2> QED BY <1>22, <2>5 DEF Resolve, git, notes, damages
<1>23. ASSUME NEW w \in Worker, BuildFails(w) PROVE TypeOK'
  <2>1. \A r \in row : [r EXCEPT !.status = "failed"] \in Row
    BY <1>18 DEF Row
  <2>2. row' \in AtMostOne(Row)
    BY <1>23, <2>1 DEF BuildFails, AtMostOne
  <2> QED BY <1>16, <1>23, <2>2 DEF BuildFails, git, notes, damages
<1>24. ASSUME NEW w \in Worker, NEW p \in Page, Put(w, p) \/ PutFails(w, p) PROVE TypeOK'
  <2>1. PICK b \in build[w] :
          /\ build' = [build EXCEPT ![w] = {[b EXCEPT !.left = @ \ {p}]}]
          /\ \/ /\ Put(w, p)
                /\ bucket' = {o \in bucket : ~(o.sha \in b.sha /\ o.page = p)}
                     \cup {[sha |-> c, page |-> p, folder |-> b.seen.folder] : c \in b.sha}
             \/ PutFails(w, p) /\ lossy' = lossy \cup b.sha
    BY <1>24 DEF Put, PutFails
  <2>2. b.sha \subseteq Commit /\ b.seen.folder \in Folder /\ [b EXCEPT !.left = @ \ {p}] \in Build
    BY <1>17 DEF Build, Row, AtMostOne
  <2>3. build' \in [Worker -> AtMostOne(Build)]
    BY <1>15, <2>1, <2>2
  <2>4. CASE Put(w, p) /\ bucket' = {o \in bucket : ~(o.sha \in b.sha /\ o.page = p)}
                     \cup {[sha |-> c, page |-> p, folder |-> b.seen.folder] : c \in b.sha}
    <3>1. bucket' \subseteq Object
      BY <2>2, <2>4 DEF Object
    <3> QED BY <2>3, <2>4, <3>1 DEF Put, git, notes, damages
  <2>5. CASE PutFails(w, p) /\ lossy' = lossy \cup b.sha
    BY <2>2, <2>3, <2>5 DEF PutFails, git, notes, damages
  <2> QED BY <2>1, <2>4, <2>5
<1>25. ASSUME NEW w \in Worker, Publish(w) PROVE TypeOK'
  <2>1. PICK b \in build[w] :
          /\ row' = {[r EXCEPT !.status = "active",
                               !.sha = IF b.seen.sha = b.sha THEN @ ELSE b.sha] : r \in row}
          /\ build' = [build EXCEPT ![w] = {}]
    BY <1>25 DEF Publish
  <2>2. b.sha \in AtMostOne(Commit)
    BY <1>17 DEF Build
  <2>3. \A r \in row : [r EXCEPT !.status = "active",
                          !.sha = IF b.seen.sha = b.sha THEN @ ELSE b.sha] \in Row
    <3> TAKE r \in row
    <3>1. r \in Row
      BY <1>18
    <3>2. (IF b.seen.sha = b.sha THEN r.sha ELSE b.sha) \in AtMostOne(Commit)
      BY <2>2, <3>1 DEF Row
    <3> QED BY <3>1, <3>2 DEF Row
  <2>4. row' \in AtMostOne(Row)
    <3>1. CASE row = {}
      <4>1. row' = {}
        BY <2>1, <3>1
      <4> QED BY <4>1, Singletons
    <3>2. ASSUME NEW r \in Row, row = {r} PROVE row' \in AtMostOne(Row)
      <4>1. row' = {[r EXCEPT !.status = "active",
                              !.sha = IF b.seen.sha = b.sha THEN @ ELSE b.sha]}
        BY <2>1, <3>2
      <4> QED BY <2>3, <3>2, <4>1, Singletons
    <3> QED BY <3>1, <3>2, Singletons
  <2>5. build' \in [Worker -> AtMostOne(Build)]
    BY <1>16, <2>1
  <2> QED BY <1>25, <2>4, <2>5 DEF Publish, git, notes, damages
<1>26. ASSUME NEW w \in Worker, RowGone(w) PROVE TypeOK'
  BY <1>16, <1>26 DEF RowGone, git, notes, damages
<1>27. ASSUME NEW w \in Worker, WorkerLost(w) PROVE TypeOK'
  <2>1. lost' \in 0..MaxLost
    BY <1>27, FaultsAssumption DEF WorkerLost
  <2>2. build' \in [Worker -> AtMostOne(Build)]
    BY <1>16, <1>27 DEF WorkerLost
  <2>3. queued' \in Nat
    BY <1>27 DEF WorkerLost
  <2> QED BY <1>27, <2>1, <2>2, <2>3 DEF WorkerLost, git, notes, damages
<1> QED
  BY <1>2, <1>3, <1>6, <1>9, <1>10, <1>11, <1>12, <1>13, <1>14, <1>19, <1>20, <1>21,
     <1>22, <1>23, <1>24, <1>25, <1>26, <1>27 DEF Next, RequestStep, WorkerStep

\* Every variable keeps its type.
THEOREM TypeCorrect == Spec => []TypeOK
BY TypeInit, TypeStep, PTL DEF Spec

-----------------------------------------------------------------------------
(* No row waits for nothing *)

\* UnsettledHasBuild, with the request that is about to queue the message the
\* one that wrote this very row: only then is a refresh that fails no concern.
HasBuild(r) ==
    \/ queued > 0
    \/ \E q \in Request : req[q].phase = "committed" /\ \E s \in req[q].seen : s.id = r.id
    \/ \E w \in Worker : \E b \in build[w] : b.seen.id = r.id

UnsettledOwned ==
    "broker" \notin Faults =>
        \A r \in row : r.status \in {"pending", "building"} => HasBuild(r)

LEMMA UnsettledStep == TypeOK /\ UnsettledOwned /\ [Next]_vars => UnsettledOwned'
<1> SUFFICES ASSUME TypeOK, UnsettledOwned, [Next]_vars, "broker" \notin Faults,
                    NEW r \in row', r.status \in {"pending", "building"}
             PROVE  HasBuild(r)'
  BY DEF UnsettledOwned
<1>1. r \in row => HasBuild(r)
  BY DEF UnsettledOwned
<1>2. CASE UNCHANGED vars
  BY <1>1, <1>2 DEF vars, HasBuild
<1>3. ASSUME NEW b \in Branch, NEW c \in Commit, Push(b, c) PROVE HasBuild(r)'
  BY <1>1, <1>3 DEF Push, HasBuild
\* A request that owes this row no message may change its own record.
<1>4. ASSUME NEW q \in Request, r \in row, UNCHANGED <<queued, build>>,
             req[q].phase # "committed" \/ \A s \in req[q].seen : s.id # r.id,
             \A p \in Request \ {q} : req'[p] = req[p]
      PROVE  HasBuild(r)'
  BY <1>1, <1>4 DEF HasBuild
<1>5. ASSUME NEW q \in Request, Refuse(q),
             req[q].phase # "committed" \/ \A s \in req[q].seen : s.id # r.id
      PROVE  HasBuild(r)'
  <2>1. \A p \in Request \ {q} : req'[p] = req[p]
    BY <1>5 DEF Refuse, TypeOK
  <2> QED BY <1>4, <1>5, <2>1 DEF Refuse
<1>6. ASSUME NEW q \in Request, LoadEnable(q) \/ LoadUpdate(q) \/ LoadDisable(q)
      PROVE  HasBuild(r)'
  <2>1. req[q].phase = "new"
    BY <1>6 DEF LoadEnable, LoadUpdate, LoadDisable
  <2>2. CASE Refuse(q)
    BY <1>5, <2>1, <2>2
  <2>3. ASSUME NEW k, NEW b, NEW f, Load(q, k, b, f) PROVE HasBuild(r)'
    <3>1. \A p \in Request \ {q} : req'[p] = req[p]
      BY <2>3 DEF Load, TypeOK
    <3> QED BY <1>4, <2>1, <2>3, <3>1 DEF Load
  <2> QED BY <1>6, <2>2, <2>3 DEF LoadEnable, LoadUpdate, LoadDisable
<1>7. ASSUME NEW q \in Request, CommitInsert(q) \/ CommitUpdate(q) PROVE HasBuild(r)'
  <2>1. Commits(q)
    BY <1>7 DEF CommitInsert, CommitUpdate
  <2>2. req'[q].phase = "committed" /\ req'[q].seen = row'
    BY <2>1 DEF Commits, TypeOK, Call
  <2> QED BY <2>2 DEF HasBuild
<1>8. ASSUME NEW q \in Request, CommitRefused(q) PROVE HasBuild(r)'
  BY <1>5, <1>8 DEF CommitRefused
<1>9. ASSUME NEW q \in Request, RefreshFails(q) PROVE HasBuild(r)'
  <2>1. r \in row
    BY <1>9 DEF RefreshFails, Refuse
  <2>2. \A s \in req[q].seen : s.id # r.id
    BY <1>9, <2>1 DEF RefreshFails, Matches
  <2> QED BY <1>5, <1>9, <2>2 DEF RefreshFails
<1>10. ASSUME NEW q \in Request, Enqueue(q) PROVE HasBuild(r)'
  BY <1>10 DEF Enqueue, TypeOK, HasBuild
<1>11. ASSUME NEW q \in Request, Scrub(q) \/ ScrubFails(q) \/ DeleteRow(q) PROVE HasBuild(r)'
  <2>1. /\ \A p \in Request \ {q} : req'[p] = req[p]
        /\ req[q].phase # "committed"
    BY <1>11 DEF Scrub, ScrubFails, DeleteRow, TypeOK
  <2>2. r \in row /\ UNCHANGED <<queued, build>>
    BY <1>11 DEF Scrub, ScrubFails, DeleteRow
  <2> QED BY <1>4, <2>1, <2>2
<1>12. ASSUME NEW w \in Worker, TakeNothing(w) PROVE HasBuild(r)'
  BY <1>12 DEF TakeNothing
<1>13. ASSUME NEW w \in Worker, Take(w) PROVE HasBuild(r)'
  <2>1. r \in row
    BY <1>13 DEF Take
  <2>2. [step |-> "loaded", seen |-> r, sha |-> {}, left |-> {}] \in build'[w]
    BY <1>13, <2>1 DEF Take, TypeOK
  <2> QED BY <2>2 DEF HasBuild
\* A build that goes on still sees the row it loaded.
<1>14. ASSUME NEW w \in Worker, NEW b \in build[w], NEW x,
              build' = [build EXCEPT ![w] = {x}], x.seen = b.seen,
              UNCHANGED <<queued, req>>,
              NEW y \in row, y.id = r.id, HasBuild(y)
       PROVE  HasBuild(r)'
  <2>1. build[w] = {b}
    BY DEF TypeOK, AtMostOne
  <2>2. \A v \in Worker : \A z \in build[v] : \E z2 \in build'[v] : z2.seen = z.seen
    BY <1>14, <2>1 DEF TypeOK
  <2> QED BY <1>14, <2>2 DEF HasBuild
<1>15. ASSUME NEW w \in Worker, MarkBuilding(w) PROVE HasBuild(r)'
  <2>1. PICK b \in build[w] :
          /\ row' = {IF y.id = b.seen.id
                     THEN [y EXCEPT !.status = Written({"building"} \ {b.seen.status}, @)]
                     ELSE y : y \in row}
          /\ build' = [build EXCEPT ![w] = {[b EXCEPT !.step = "marked"]}]
          /\ UNCHANGED <<queued, req>>
    BY <1>15 DEF MarkBuilding
  <2>2. b \in Build
    BY DEF TypeOK, AtMostOne
  <2>3. [b EXCEPT !.step = "marked"].seen = b.seen
    BY <2>2 DEF Build
  <2>4. PICK y \in row :
          r = IF y.id = b.seen.id
              THEN [y EXCEPT !.status = Written({"building"} \ {b.seen.status}, @)]
              ELSE y
    BY <2>1
  <2>5. y \in Row
    BY DEF TypeOK, AtMostOne
  <2>6. y.id = r.id
    BY <2>4, <2>5 DEF Row
  <2>7. CASE y.id = b.seen.id
    <3>1. [b EXCEPT !.step = "marked"] \in build'[w]
      BY <2>1 DEF TypeOK
    <3> QED BY <2>3, <2>6, <2>7, <3>1 DEF HasBuild
  <2>8. CASE y.id # b.seen.id
    <3>1. HasBuild(y)
      BY <1>1, <2>4, <2>8
    <3> QED BY <1>14, <2>1, <2>3, <2>6, <3>1
  <2> QED BY <2>7, <2>8
<1>16. ASSUME NEW w \in Worker, Resolve(w) PROVE HasBuild(r)'
  <2>1. PICK b \in build[w] :
          build' = [build EXCEPT ![w] = {[b EXCEPT
             !.step = "uploading",
             !.sha = tip[b.seen.branch],
             !.left = UNION {Tree[c][b.seen.folder] : c \in tip[b.seen.branch]}]}]
    BY <1>16 DEF Resolve
  <2>2. b \in Build
    BY DEF TypeOK, AtMostOne
  <2>3. [b EXCEPT !.step = "uploading", !.sha = tip[b.seen.branch],
           !.left = UNION {Tree[c][b.seen.folder] : c \in tip[b.seen.branch]}].seen = b.seen
    BY <2>2 DEF Build
  <2>4. r \in row /\ UNCHANGED <<queued, req>>
    BY <1>16 DEF Resolve
  <2> QED BY <1>1, <1>14, <2>1, <2>3, <2>4
<1>17. ASSUME NEW w \in Worker, NEW p \in Page, Put(w, p) \/ PutFails(w, p) PROVE HasBuild(r)'
  <2>1. PICK b \in build[w] : build' = [build EXCEPT ![w] = {[b EXCEPT !.left = @ \ {p}]}]
    BY <1>17 DEF Put, PutFails
  <2>2. b \in Build
    BY DEF TypeOK, AtMostOne
  <2>3. [b EXCEPT !.left = @ \ {p}].seen = b.seen
    BY <2>2 DEF Build
  <2>4. r \in row /\ UNCHANGED <<queued, req>>
    BY <1>17 DEF Put, PutFails
  <2> QED BY <1>1, <1>14, <2>1, <2>3, <2>4
\* The end of a build settles whichever row there is.
<1>18. ASSUME NEW w \in Worker, BuildFails(w) \/ Publish(w) PROVE FALSE
  <2>1. \A y \in row : y \in Row
    BY DEF TypeOK, AtMostOne
  <2>2. \A y \in row' : y.status \in {"failed", "active"}
    <3>1. CASE BuildFails(w)
      BY <2>1, <3>1 DEF BuildFails, Row
    <3>2. CASE Publish(w)
      <4>1. PICK b \in build[w] :
              row' = {[y EXCEPT !.status = "active",
                                !.sha = IF b.seen.sha = b.sha THEN @ ELSE b.sha] : y \in row}
        BY <3>2 DEF Publish
      <4> QED BY <2>1, <4>1 DEF Row
    <3> QED BY <1>18, <3>1, <3>2
  <2> QED BY <2>2
<1>19. ASSUME NEW w \in Worker, RowGone(w) PROVE HasBuild(r)'
  <2>1. PICK b \in build[w] : ~Matches(b.seen)
    BY <1>19 DEF RowGone
  <2>2. r \in row /\ UNCHANGED <<queued, req>> /\ build' = [build EXCEPT ![w] = {}]
    BY <1>19 DEF RowGone
  <2>3. build[w] = {b} /\ b.seen.id # r.id
    BY <2>1, <2>2 DEF TypeOK, AtMostOne, Matches
  <2> QED BY <1>1, <2>2, <2>3 DEF HasBuild, TypeOK
<1>20. ASSUME NEW w \in Worker, WorkerLost(w) PROVE HasBuild(r)'
  BY <1>20 DEF WorkerLost, TypeOK, HasBuild
<1> QED
  BY <1>2, <1>3, <1>6, <1>7, <1>8, <1>9, <1>10, <1>11, <1>12, <1>13, <1>15, <1>16,
     <1>17, <1>18, <1>19, <1>20
  DEF Next, RequestStep, WorkerStep, EnqueueFails

\* While a row says "pending" or "building", a message is queued or about to be,
\* or a worker is building this very row.
THEOREM UnsettledRowHasBuild == Spec => []UnsettledHasBuild
<1>1. Init => UnsettledOwned
  BY DEF Init, UnsettledOwned
<1>2. UnsettledOwned => UnsettledHasBuild
  BY DEF UnsettledOwned, HasBuild, UnsettledHasBuild, Queueing
<1> QED BY <1>1, <1>2, UnsettledStep, TypeCorrect, PTL DEF Spec

-----------------------------------------------------------------------------
(* Where the published content comes from *)

PageStored(c, p) == \E o \in bucket : o.sha = c /\ o.page = p

OwnConfig(i, sha) == \A c \in sha : \E s \in sources[i] : c \in heads[s[1]]

AllStored(i, sha) ==
    \A c \in sha \ (lossy \cup scrubbed) :
        \E s \in sources[i] : Tree[c][s[2]] # {} /\ \A p \in Tree[c][s[2]] : PageStored(c, p)

RowGood(r) ==
    /\ <<r.branch, r.folder>> \in sources[r.id]
    /\ OwnConfig(r.id, r.sha) /\ AllStored(r.id, r.sha)

\* What a build has resolved and stored so far.
BuildGood(b) ==
    /\ <<b.seen.branch, b.seen.folder>> \in sources[b.seen.id]
    /\ b.step # "uploading" => b.sha = {}
    /\ \A c \in b.sha :
         /\ c \in heads[b.seen.branch] /\ Tree[c][b.seen.folder] # {}
         /\ \/ c \in lossy \cup scrubbed
            \/ \A p \in Tree[c][b.seen.folder] \ b.left : PageStored(c, p)

Provenance ==
    /\ \A b \in Branch : tip[b] \subseteq heads[b]
    /\ \A r \in row : RowGood(r)
    /\ \A w \in Worker : \A b \in build[w] : BuildGood(b)

\* The histories grow, and a page leaves MinIO only with its commit scrubbed.
Keeps ==
    /\ \A i \in RowId : sources[i] \subseteq sources'[i]
    /\ \A b \in Branch : heads[b] \subseteq heads'[b]
    /\ (lossy \cup scrubbed) \subseteq (lossy' \cup scrubbed')
    /\ \A c \in Commit \ (lossy' \cup scrubbed') : \A p : PageStored(c, p) => PageStored(c, p)'

LEMMA KeptPublished ==
    ASSUME TypeOK, Keeps, NEW i \in RowId, NEW sha \in SUBSET Commit
    PROVE  /\ OwnConfig(i, sha) => OwnConfig(i, sha)'
           /\ AllStored(i, sha) => AllStored(i, sha)'
<1>1. \A s \in sources[i] : s[1] \in Branch
  BY DEF TypeOK
<1>2. OwnConfig(i, sha) => OwnConfig(i, sha)'
  BY <1>1 DEF OwnConfig, Keeps
<1>3. AllStored(i, sha) => AllStored(i, sha)'
  BY DEF AllStored, Keeps
<1> QED BY <1>2, <1>3

LEMMA KeptRow ==
    ASSUME TypeOK, Keeps, NEW r \in Row, RowGood(r)
    PROVE  RowGood(r)'
<1>1. r.id \in RowId /\ r.sha \in SUBSET Commit
  BY DEF Row, AtMostOne
<1>2. <<r.branch, r.folder>> \in sources'[r.id]
  BY <1>1 DEF RowGood, Keeps
<1> QED BY <1>1, <1>2, KeptPublished DEF RowGood

LEMMA KeptBuild ==
    ASSUME TypeOK, Keeps, NEW b \in Build, BuildGood(b)
    PROVE  BuildGood(b)'
<1>1. b.seen.id \in RowId /\ b.seen.branch \in Branch /\ b.sha \in SUBSET Commit
  BY DEF Build, Row, AtMostOne
<1>2. <<b.seen.branch, b.seen.folder>> \in sources'[b.seen.id]
  BY <1>1 DEF BuildGood, Keeps
<1>3. ASSUME NEW c \in b.sha
      PROVE  /\ c \in heads'[b.seen.branch] /\ Tree[c][b.seen.folder] # {}
             /\ \/ c \in lossy' \cup scrubbed'
                \/ \A p \in Tree[c][b.seen.folder] \ b.left : PageStored(c, p)'
  BY <1>1, <1>3 DEF BuildGood, Keeps
<1> QED BY <1>2, <1>3 DEF BuildGood

LEMMA ProvenanceStep == TypeOK /\ TypeOK' /\ Provenance /\ [Next]_vars => Provenance'
<1> SUFFICES ASSUME TypeOK, TypeOK', Provenance, [Next]_vars PROVE Provenance'
  OBVIOUS
<1>1. /\ \A r \in row : r \in Row
      /\ \A w \in Worker : \A b \in build[w] : b \in Build
  BY DEF TypeOK, AtMostOne
<1>2. Keeps => /\ \A r \in row : RowGood(r)'
               /\ \A w \in Worker : \A b \in build[w] : BuildGood(b)'
  BY <1>1, KeptRow, KeptBuild DEF Provenance
<1>3. UNCHANGED <<sources, heads, bucket, lossy, scrubbed>> => Keeps
  BY DEF Keeps, PageStored
<1>4. UNCHANGED git => \A b \in Branch : tip'[b] \subseteq heads'[b]
  BY DEF Provenance, git
<1>5. ASSUME Keeps, UNCHANGED git, UNCHANGED build, \A r \in row' : RowGood(r)'
      PROVE  Provenance'
  BY <1>2, <1>4, <1>5 DEF Provenance
<1>6. ASSUME Keeps, UNCHANGED git, UNCHANGED row, NEW w \in Worker, NEW x,
             build' = [build EXCEPT ![w] = {x}], BuildGood(x)'
      PROVE  Provenance'
  <2>1. ASSUME NEW v \in Worker, NEW z \in build'[v] PROVE BuildGood(z)'
    <3>1. (v = w /\ z = x) \/ z \in build[v]
      BY <1>6 DEF TypeOK
    <3> QED BY <1>2, <1>6, <3>1
  <2> QED BY <1>2, <1>4, <1>6, <2>1 DEF Provenance
<1>7. CASE UNCHANGED vars
  BY <1>2, <1>3, <1>5, <1>7 DEF vars, git
<1>8. ASSUME NEW b \in Branch, NEW c \in Commit, Push(b, c) PROVE Provenance'
  <2>1. Keeps
    BY <1>8 DEF Push, Keeps, PageStored, TypeOK, damages
  <2>2. \A a \in Branch : tip'[a] \subseteq heads'[a]
    BY <1>8 DEF Push, Provenance, TypeOK
  <2> QED BY <1>2, <1>8, <2>1, <2>2 DEF Push, Provenance
<1>9. ASSUME UNCHANGED <<git, row, bucket, build, notes, lossy, scrubbed>> PROVE Provenance'
  BY <1>2, <1>3, <1>5, <1>9 DEF git, notes
<1>10. ASSUME NEW r \in Row, Record(r), NEW q \in Request, Commits(q),
              OwnConfig(r.id, r.sha), AllStored(r.id, r.sha)
       PROVE  Provenance'
  <2>1. Keeps
    BY <1>10 DEF Record, Commits, Keeps, PageStored, TypeOK, git, damages
  <2>2. r.id \in RowId /\ r.sha \in SUBSET Commit
    BY DEF Row, AtMostOne
  <2>3. <<r.branch, r.folder>> \in sources'[r.id]
    BY <1>10, <2>2 DEF Record, TypeOK
  <2>4. RowGood(r)'
    BY <1>10, <2>1, <2>2, <2>3, KeptPublished DEF RowGood
  <2>5. row' = {r} /\ UNCHANGED git /\ UNCHANGED build
    BY <1>10 DEF Record, Commits
  <2> QED BY <1>5, <2>1, <2>4, <2>5
<1>11. ASSUME NEW q \in Request, CommitInsert(q) PROVE Provenance'
  <2>1. PICK i \in RowId, b \in req[q].branch, f \in req[q].folder :
          Record([id |-> i, branch |-> b, folder |-> f, status |-> "pending", sha |-> {}])
    BY <1>11 DEF CommitInsert
  <2> DEFINE x == [id |-> i, branch |-> b, folder |-> f, status |-> "pending", sha |-> {}]
  <2>2. row' = {x}
    BY <2>1 DEF Record
  <2>3. x \in Row
    BY <2>2 DEF TypeOK, AtMostOne
  <2>4. OwnConfig(x.id, x.sha) /\ AllStored(x.id, x.sha)
    BY DEF OwnConfig, AllStored
  <2>5. Commits(q)
    BY <1>11 DEF CommitInsert
  <2> HIDE DEF x
  <2>6. Record(x)
    BY <2>1 DEF x
  <2> QED BY <1>10, <2>3, <2>4, <2>5, <2>6
<1>12. ASSUME NEW q \in Request, CommitUpdate(q) PROVE Provenance'
  <2>1. PICK s \in req[q].seen, r \in row :
          Record([r EXCEPT !.branch = Written(req[q].branch, @),
                           !.folder = Written(req[q].folder, @),
                           !.status = Written({"pending"} \ {s.status}, @)])
    BY <1>12 DEF CommitUpdate
  <2> DEFINE x == [r EXCEPT !.branch = Written(req[q].branch, @),
                            !.folder = Written(req[q].folder, @),
                            !.status = Written({"pending"} \ {s.status}, @)]
  <2>2. row' = {x}
    BY <2>1 DEF Record
  <2>3. x \in Row
    BY <2>2 DEF TypeOK, AtMostOne
  <2>4. x.id = r.id /\ x.sha = r.sha
    BY <1>1 DEF Row
  <2>5. OwnConfig(x.id, x.sha) /\ AllStored(x.id, x.sha)
    BY <2>4 DEF Provenance, RowGood
  <2>6. Commits(q)
    BY <1>12 DEF CommitUpdate
  <2> HIDE DEF x
  <2>7. Record(x)
    BY <2>1 DEF x
  <2> QED BY <1>10, <2>3, <2>5, <2>6, <2>7
<1>13. ASSUME NEW q \in Request, Scrub(q) PROVE Provenance'
  <2>1. Keeps
    BY <1>13 DEF Scrub, Keeps, PageStored, TypeOK, AtMostOne, git, notes
  <2> QED BY <1>2, <1>5, <1>13, <2>1 DEF Scrub
<1>14. ASSUME NEW q \in Request, DeleteRow(q) PROVE Provenance'
  <2>1. Keeps
    BY <1>3, <1>14 DEF DeleteRow, git, notes, damages
  <2> QED BY <1>2, <1>5, <1>14, <2>1 DEF DeleteRow
<1>15. ASSUME NEW w \in Worker, Take(w) PROVE Provenance'
  <2>1. Keeps
    BY <1>3, <1>15 DEF Take, git, notes, damages
  <2>2. PICK r \in row : row = {r}
    BY <1>15 DEF Take, TypeOK, AtMostOne
  <2>3. PICK x : x = [step |-> "loaded", seen |-> r, sha |-> {}, left |-> {}]
    OBVIOUS
  <2>4. BuildGood(x)'
    BY <1>2, <2>1, <2>3 DEF BuildGood, RowGood
  <2>5. build' = [build EXCEPT ![w] = {x}] /\ UNCHANGED row /\ UNCHANGED git
    BY <1>15, <2>2, <2>3 DEF Take
  <2> QED BY <1>6, <2>1, <2>4, <2>5
\* A changed row keeps what it publishes, a changed build what it has found.
<1>16. ASSUME Keeps, NEW r \in row, NEW x, x.id = r.id, x.sha = r.sha,
              x.branch = r.branch, x.folder = r.folder
       PROVE  RowGood(x)'
  BY <1>2, <1>16 DEF RowGood
<1>17. ASSUME NEW w \in Worker, MarkBuilding(w) PROVE Provenance'
  <2>1. Keeps
    BY <1>3, <1>17 DEF MarkBuilding, git, notes, damages
  <2>2. PICK b \in build[w] :
          /\ b.step = "loaded"
          /\ row' = {IF r.id = b.seen.id
                     THEN [r EXCEPT !.status = Written({"building"} \ {b.seen.status}, @)]
                     ELSE r : r \in row}
          /\ build' = [build EXCEPT ![w] = {[b EXCEPT !.step = "marked"]}]
    BY <1>17 DEF MarkBuilding
  <2>3. \A x \in row' : RowGood(x)'
    <3> TAKE x \in row'
    <3>1. PICK r \in row :
            x = IF r.id = b.seen.id
                THEN [r EXCEPT !.status = Written({"building"} \ {b.seen.status}, @)]
                ELSE r
      BY <2>2
    <3>2. x.id = r.id /\ x.sha = r.sha /\ x.branch = r.branch /\ x.folder = r.folder
      BY <1>1, <3>1 DEF Row
    <3> QED BY <1>16, <2>1, <3>2
  <2>4. BuildGood([b EXCEPT !.step = "marked"])'
    <3>1. b \in Build /\ BuildGood(b)'
      BY <1>1, <1>2, <2>1
    <3> QED BY <2>2, <3>1 DEF BuildGood, Build
  <2>5. \A v \in Worker : \A z \in build'[v] : BuildGood(z)'
    BY <1>2, <2>1, <2>2, <2>4 DEF TypeOK
  <2> QED BY <1>4, <1>17, <2>3, <2>5 DEF MarkBuilding, Provenance
<1>18. ASSUME NEW w \in Worker, Resolve(w) PROVE Provenance'
  <2>1. Keeps
    BY <1>3, <1>18 DEF Resolve, git, notes, damages
  <2>2. PICK b \in build[w] :
          /\ b.step = "marked" /\ Readable(b)
          /\ build' = [build EXCEPT ![w] = {[b EXCEPT
               !.step = "uploading",
               !.sha = tip[b.seen.branch],
               !.left = UNION {Tree[c][b.seen.folder] : c \in tip[b.seen.branch]}]}]
    BY <1>18 DEF Resolve
  <2> DEFINE new == [b EXCEPT
               !.step = "uploading",
               !.sha = tip[b.seen.branch],
               !.left = UNION {Tree[c][b.seen.folder] : c \in tip[b.seen.branch]}]
  <2>3. b \in Build /\ b.seen.branch \in Branch
    BY <1>1 DEF Build, Row
  <2>4. PICK c \in tip[b.seen.branch] : Tree[c][b.seen.folder] # {}
    BY <2>2 DEF Readable
  <2>5. tip[b.seen.branch] = {c} /\ c \in heads[b.seen.branch]
    BY <2>3, <2>4 DEF TypeOK, AtMostOne, Provenance
  <2>6. PICK x : x = new
    OBVIOUS
  <2>7. x.step = "uploading" /\ x.seen = b.seen /\ x.sha = {c} /\ x.left = Tree[c][b.seen.folder]
    BY <2>3, <2>5, <2>6 DEF Build
  <2>8. c \in heads'[b.seen.branch] /\ <<b.seen.branch, b.seen.folder>> \in sources'[b.seen.id]
    BY <1>18, <2>5 DEF Resolve, Provenance, BuildGood, git, notes
  <2>9. BuildGood(x)'
    BY <2>4, <2>7, <2>8 DEF BuildGood
  <2>10. build' = [build EXCEPT ![w] = {x}] /\ UNCHANGED row /\ UNCHANGED git
    BY <1>18, <2>2, <2>6 DEF Resolve
  <2> QED BY <1>6, <2>1, <2>9, <2>10
<1>19. ASSUME NEW w \in Worker, BuildFails(w) PROVE Provenance'
  <2>1. Keeps
    BY <1>3, <1>19 DEF BuildFails, git, notes, damages
  <2>2. \A x \in row' : RowGood(x)'
    <3> TAKE x \in row'
    <3>1. PICK r \in row : x = [r EXCEPT !.status = "failed"]
      BY <1>19 DEF BuildFails
    <3>2. x.id = r.id /\ x.sha = r.sha /\ x.branch = r.branch /\ x.folder = r.folder
      BY <1>1, <3>1 DEF Row
    <3> QED BY <1>16, <2>1, <3>2
  <2>3. \A v \in Worker : \A z \in build'[v] : BuildGood(z)'
    BY <1>2, <1>19, <2>1 DEF BuildFails, TypeOK
  <2> QED BY <1>4, <1>19, <2>2, <2>3 DEF BuildFails, Provenance
<1>20. ASSUME NEW w \in Worker, NEW p \in Page, Put(w, p) PROVE Provenance'
  <2>1. PICK b \in build[w] :
          /\ p \in b.left
          /\ bucket' = {o \in bucket : ~(o.sha \in b.sha /\ o.page = p)}
                       \cup {[sha |-> c, page |-> p, folder |-> b.seen.folder] : c \in b.sha}
          /\ build' = [build EXCEPT ![w] = {[b EXCEPT !.left = @ \ {p}]}]
    BY <1>20 DEF Put
  <2>2. \A c \in b.sha : PageStored(c, p)'
    <3> TAKE c \in b.sha
    <3>1. [sha |-> c, page |-> p, folder |-> b.seen.folder] \in bucket'
      BY <2>1
    <3> QED BY <3>1 DEF PageStored
  <2>3. \A c, y : PageStored(c, y) => PageStored(c, y)'
    <3> SUFFICES ASSUME NEW c, NEW y, NEW o \in bucket, o.sha = c, o.page = y
                 PROVE  PageStored(c, y)'
      BY DEF PageStored
    <3>1. CASE o \in bucket'
      BY <3>1 DEF PageStored
    <3>2. CASE c \in b.sha /\ y = p
      BY <2>2, <3>2
    <3> QED BY <2>1, <3>1, <3>2
  <2>4. Keeps
    BY <1>20, <2>3 DEF Put, Keeps, git, notes, damages
  <2>5. b \in Build /\ BuildGood(b)'
    BY <1>1, <1>2, <2>4
  <2>6. PICK x : x = [b EXCEPT !.left = @ \ {p}]
    OBVIOUS
  <2>7. x.step = b.step /\ x.seen = b.seen /\ x.sha = b.sha /\ x.left = b.left \ {p}
    BY <2>5, <2>6 DEF Build
  <2>8. BuildGood(x)'
    BY <2>2, <2>5, <2>7 DEF BuildGood
  <2>9. build' = [build EXCEPT ![w] = {x}] /\ UNCHANGED row /\ UNCHANGED git
    BY <1>20, <2>1, <2>6 DEF Put
  <2> QED BY <1>6, <2>4, <2>8, <2>9
<1>21. ASSUME NEW w \in Worker, NEW p \in Page, PutFails(w, p) PROVE Provenance'
  <2>1. PICK b \in build[w] :
          /\ lossy' = lossy \cup b.sha
          /\ build' = [build EXCEPT ![w] = {[b EXCEPT !.left = @ \ {p}]}]
    BY <1>21 DEF PutFails
  <2>2. Keeps
    BY <1>21, <2>1 DEF PutFails, Keeps, PageStored, git, notes
  <2>3. b \in Build /\ BuildGood(b)'
    BY <1>1, <1>2, <2>2
  <2>4. PICK x : x = [b EXCEPT !.left = @ \ {p}]
    OBVIOUS
  <2>5. x.step = b.step /\ x.seen = b.seen /\ x.sha = b.sha
    BY <2>3, <2>4 DEF Build
  <2>6. BuildGood(x)'
    BY <2>1, <2>3, <2>5 DEF BuildGood
  <2>7. build' = [build EXCEPT ![w] = {x}] /\ UNCHANGED row /\ UNCHANGED git
    BY <1>21, <2>1, <2>4 DEF PutFails
  <2> QED BY <1>6, <2>2, <2>6, <2>7
<1>22. ASSUME NEW w \in Worker, Publish(w) PROVE Provenance'
  <2>1. Keeps
    BY <1>3, <1>22 DEF Publish, git, notes, damages
  <2>2. PICK b \in build[w] :
          /\ b.left = {} /\ Matches(b.seen)
          /\ row' = {[r EXCEPT !.status = "active",
                               !.sha = IF b.seen.sha = b.sha THEN @ ELSE b.sha] : r \in row}
    BY <1>22 DEF Publish
  <2>3. b \in Build /\ BuildGood(b)'
    BY <1>1, <1>2, <2>1
  <2>4. OwnConfig(b.seen.id, b.sha)' /\ AllStored(b.seen.id, b.sha)'
    BY <2>2, <2>3 DEF BuildGood, OwnConfig, AllStored
  <2>5. \A x \in row' : RowGood(x)'
    <3> TAKE x \in row'
    <3>1. PICK r \in row :
            x = [r EXCEPT !.status = "active",
                          !.sha = IF b.seen.sha = b.sha THEN @ ELSE b.sha]
      BY <2>2
    <3>2. /\ x.id = r.id /\ x.branch = r.branch /\ x.folder = r.folder
          /\ x.sha = r.sha \/ x.sha = b.sha
      BY <1>1, <3>1 DEF Row
    <3>3. r.id = b.seen.id
      BY <2>2 DEF Matches, TypeOK, AtMostOne
    <3>4. CASE x.sha = r.sha
      BY <1>16, <2>1, <3>2, <3>4
    <3>5. CASE x.sha = b.sha
      BY <1>2, <2>1, <2>4, <3>2, <3>3, <3>5 DEF RowGood
    <3> QED BY <3>2, <3>4, <3>5
  <2>6. \A v \in Worker : \A z \in build'[v] : BuildGood(z)'
    BY <1>2, <1>22, <2>1 DEF Publish, TypeOK
  <2> QED BY <1>4, <1>22, <2>5, <2>6 DEF Publish, Provenance
<1>23. ASSUME NEW w \in Worker, RowGone(w) \/ WorkerLost(w) PROVE Provenance'
  <2>1. Keeps /\ UNCHANGED row /\ UNCHANGED git /\ build' = [build EXCEPT ![w] = {}]
    BY <1>3, <1>23 DEF RowGone, WorkerLost, git, notes, damages
  <2>2. \A v \in Worker : build'[v] \subseteq build[v]
    BY <2>1 DEF TypeOK
  <2> QED BY <1>2, <1>4, <2>1, <2>2 DEF Provenance
<1>24. ASSUME NEW q \in Request,
              \/ LoadEnable(q) \/ LoadUpdate(q) \/ LoadDisable(q) \/ CommitRefused(q)
              \/ RefreshFails(q) \/ Enqueue(q) \/ EnqueueFails(q) \/ ScrubFails(q)
       PROVE  Provenance'
  BY <1>9, <1>24
  DEF LoadEnable, LoadUpdate, LoadDisable, CommitRefused, RefreshFails, Enqueue,
      EnqueueFails, ScrubFails, Load, Refuse, damages
<1>25. ASSUME NEW w \in Worker, TakeNothing(w) PROVE Provenance'
  BY <1>9, <1>25 DEF TakeNothing, damages
<1> QED
  BY <1>7, <1>8, <1>11, <1>12, <1>13, <1>14, <1>15, <1>17, <1>18, <1>19, <1>20, <1>21,
     <1>22, <1>23, <1>24, <1>25
  DEF Next, RequestStep, WorkerStep

LEMMA Provenant == Spec => []Provenance
<1>1. Init => Provenance
  BY DEF Init, Provenance
<1> QED BY <1>1, TypeCorrect, ProvenanceStep, PTL DEF Spec

\* A site shows a commit of a branch this very row has named: a build that
\* outlives its row publishes nothing to the row that replaced it.
THEOREM PublishesOwnConfig == Spec => []PublishedFromOwnConfig
<1>1. Provenance => PublishedFromOwnConfig
  BY DEF Provenance, RowGood, OwnConfig, PublishedFromOwnConfig
<1> QED BY <1>1, Provenant, PTL

\* An active site has every file of a folder it was configured with, however
\* builds overlap, unless an upload failed or a request deleted its files.
THEOREM PublishesWholeFolder == Spec => []PublishedPagesStored
<1>1. Provenance => PublishedPagesStored
  BY DEF Provenance, RowGood, AllStored, PageStored, PublishedPagesStored
<1> QED BY <1>1, Provenant, PTL

-----------------------------------------------------------------------------
(* The site settles on a commit of its branch *)

OneBuild == \A v, w \in Worker : build[v] # {} /\ build[w] # {} => v = w

\* A build of row r still owed: its message waits, or is about to be queued.
Owed(r) ==
    \/ queued > 0
    \/ \E q \in Request : req[q].phase = "committed" /\ \E s \in req[q].seen : s.id = r.id

\* Nothing changed row r since the build loaded it, nor moved its branch out of
\* what counts as current.
UpToDate(b, r) ==
    /\ b.seen.id = r.id /\ b.seen.branch = r.branch
    /\ b.step = "uploading" => b.sha \subseteq current

\* A row whose build is not owed is being built from what it says, or shows a
\* commit its branch has pointed to since the last request.
RowSettles(r) ==
    /\ \A w \in Worker : \A b \in build[w] : b.seen.id = r.id => b.seen.sha = r.sha
    /\ \/ Owed(r)
       \/ \E w \in Worker : \E b \in build[w] : UpToDate(b, r)
       \/ (\A w \in Worker : build[w] = {}) /\ (r.status = "active" => r.sha \subseteq current)

\* A build that starts by itself settles the row, whatever went before; until
\* then only the tip of the row's branch is known to be current.
TipsCurrent == \A r \in row : tip[r.branch] \subseteq current

Settling == TipsCurrent /\ (~crossed => OneBuild /\ \A r \in row : RowSettles(r))

\* Only a message that is taken starts a build; any other step leaves `crossed`
\* alone or sets it.
LEMMA BuildsAreTaken ==
    ASSUME TypeOK, [Next]_vars
    PROVE  \/ \E w \in Worker : Take(w)
           \/ crossed'
           \/ ~crossed /\ \A w \in Worker : build'[w] # {} => build[w] # {}
<1> SUFFICES crossed' = TRUE \/ (\E w \in Worker : Take(w))
                 \/ (crossed' = crossed /\ \A w \in Worker : build'[w] # {} => build[w] # {})
  BY DEF TypeOK
<1> USE DEF TypeOK, damages
<1>1. CASE UNCHANGED vars
  BY <1>1 DEF vars
<1>2. ASSUME NEW b \in Branch, NEW c \in Commit, Push(b, c) PROVE crossed' = crossed /\ build' = build
  BY <1>2 DEF Push
<1>3. ASSUME NEW q \in Request, LoadEnable(q) \/ LoadUpdate(q) \/ LoadDisable(q)
      PROVE  crossed' = crossed /\ build' = build
  BY <1>3 DEF LoadEnable, LoadUpdate, LoadDisable, Load, Refuse
<1>4. ASSUME NEW q \in Request, RequestStep(q)
      PROVE  crossed' = TRUE \/ (crossed' = crossed /\ build' = build)
  BY <1>4 DEF RequestStep, CommitInsert, CommitUpdate, CommitRefused, RefreshFails, Refuse,
              Commits, Enqueue, EnqueueFails, Scrub, ScrubFails, DeleteRow
<1>5. ASSUME NEW w \in Worker, TakeNothing(w) \/ WorkerLost(w) \/ BuildFails(w)
                               \/ Publish(w) \/ RowGone(w)
      PROVE  crossed' = crossed /\ \A v \in Worker : build'[v] # {} => build[v] # {}
  BY <1>5 DEF TakeNothing, WorkerLost, BuildFails, Publish, RowGone
<1>6. ASSUME NEW w \in Worker, MarkBuilding(w) \/ Resolve(w) \/ \E p \in Page : Put(w, p) \/ PutFails(w, p)
      PROVE  crossed' = crossed /\ \A v \in Worker : build'[v] # {} => build[v] # {}
  BY <1>6 DEF MarkBuilding, Resolve, Put, PutFails
<1> QED BY <1>1, <1>2, <1>3, <1>4, <1>5, <1>6 DEF Next, WorkerStep

\* A push adds to `current`, and a committed request starts it from the tip.
LEMMA TipsStep == TypeOK /\ TipsCurrent /\ [Next]_vars => TipsCurrent'
<1> SUFFICES ASSUME TypeOK, TipsCurrent, [Next]_vars PROVE TipsCurrent'
  OBVIOUS
<1> USE DEF TipsCurrent
<1>1. CASE UNCHANGED vars
  BY <1>1 DEF vars
<1>2. ASSUME NEW b \in Branch, NEW c \in Commit, Push(b, c) PROVE TipsCurrent'
  BY <1>2 DEF Push, TypeOK, AtMostOne, Row
<1>3. ASSUME NEW r, Record(r), tip' = tip PROVE TipsCurrent'
  BY <1>3 DEF Record
<1>4. ASSUME row' \subseteq row, tip' = tip, current' = current PROVE TipsCurrent'
  BY <1>4
<1>5. ASSUME NEW q \in Request, CommitInsert(q) \/ CommitUpdate(q) PROVE TipsCurrent'
  BY <1>3, <1>5 DEF CommitInsert, CommitUpdate, Commits, git
<1>6. ASSUME NEW q \in Request, LoadEnable(q) \/ LoadUpdate(q) \/ LoadDisable(q) PROVE TipsCurrent'
  BY <1>4, <1>6 DEF LoadEnable, LoadUpdate, LoadDisable, Load, Refuse, git, notes
<1>7. ASSUME NEW q \in Request,
             CommitRefused(q) \/ RefreshFails(q) \/ Enqueue(q) \/ EnqueueFails(q)
               \/ Scrub(q) \/ ScrubFails(q) \/ DeleteRow(q)
      PROVE  TipsCurrent'
  BY <1>4, <1>7 DEF CommitRefused, RefreshFails, Refuse, Enqueue, EnqueueFails,
                    Scrub, ScrubFails, DeleteRow, git, notes
<1>8. ASSUME NEW w \in Worker, MarkBuilding(w) \/ BuildFails(w) \/ Publish(w) PROVE TipsCurrent'
  <2>1. \A y \in row : y \in Row
    BY DEF TypeOK, AtMostOne
  <2>2. \A x \in row' : \E y \in row : x.branch = y.branch
    <3>1. CASE MarkBuilding(w)
      BY <2>1, <3>1 DEF MarkBuilding, Row
    <3>2. CASE BuildFails(w)
      BY <2>1, <3>2 DEF BuildFails, Row
    <3>3. CASE Publish(w)
      BY <2>1, <3>3 DEF Publish, Row
    <3> QED BY <1>8, <3>1, <3>2, <3>3
  <2> QED BY <1>8, <2>2 DEF MarkBuilding, BuildFails, Publish, git, notes
<1>9. ASSUME NEW w \in Worker,
             TakeNothing(w) \/ Take(w) \/ Resolve(w) \/ RowGone(w) \/ WorkerLost(w)
               \/ \E p \in Page : Put(w, p) \/ PutFails(w, p)
      PROVE  TipsCurrent'
  BY <1>4, <1>9 DEF TakeNothing, Take, Resolve, RowGone, WorkerLost, Put, PutFails, git, notes
<1> QED BY <1>1, <1>2, <1>5, <1>6, <1>7, <1>8, <1>9 DEF Next, RequestStep, WorkerStep

\* A build that starts by itself is of the row as it is.
LEMMA LoneBuildSettles ==
    ASSUME TypeOK, NEW w \in Worker, Take(w), ~crossed', NEW r \in row'
    PROVE  OneBuild' /\ RowSettles(r)'
<1>1. row = {r} /\ row' = row /\ UNCHANGED <<tip, current, req>>
  BY DEF Take, git, notes, TypeOK, AtMostOne
<1>2. PICK x : x = [step |-> "loaded", seen |-> r, sha |-> {}, left |-> {}]
  OBVIOUS
<1>3. build' = [build EXCEPT ![w] = {x}] /\ \A v \in Worker : build[v] = {}
  BY <1>1, <1>2 DEF Take, Building
<1>4. build'[w] = {x} /\ \A v \in Worker \ {w} : build'[v] = {}
  BY <1>3 DEF TypeOK
<1>5. UpToDate(x, r)' /\ x.seen = r
  BY <1>2 DEF UpToDate
<1> QED BY <1>4, <1>5 DEF RowSettles, OneBuild

\* Any other step, while at most one build is under way.  Only the last disjunct
\* of RowSettles reads the status, and only when nothing is being built.
LEMMA RowKeepsSettling ==
    ASSUME TypeOK, Provenance, TipsCurrent, OneBuild, \A y \in row : RowSettles(y),
           [Next]_vars, ~crossed', ~\E w \in Worker : Take(w), NEW r \in row'
    PROVE  RowSettles(r)'
<1>1. r \in row => RowSettles(r)
  OBVIOUS
<1>2. /\ \A x \in row : x \in Row
      /\ \A w \in Worker : \A b \in build[w] : b \in Build
      /\ \A x, y \in row : x = y
  BY DEF TypeOK, AtMostOne
<1>3. CASE UNCHANGED vars
  BY <1>1, <1>3 DEF vars, RowSettles, Owed, UpToDate
<1>4. ASSUME NEW b \in Branch, NEW c \in Commit, Push(b, c) PROVE RowSettles(r)'
  <2>1. r \in row /\ r.branch \in Branch /\ current \subseteq current'
    BY <1>2, <1>4 DEF Push, Row
  <2>2. UNCHANGED <<row, queued, req, build>>
    BY <1>4 DEF Push
  <2> QED BY <1>1, <2>1, <2>2 DEF RowSettles, Owed, UpToDate
\* A request that owes this row no message may change its own record.
<1>5. ASSUME NEW q \in Request, r \in row, UNCHANGED <<tip, current, queued, build>>,
             req[q].phase # "committed" \/ \A s \in req[q].seen : s.id # r.id,
             \A p \in Request \ {q} : req'[p] = req[p]
      PROVE  RowSettles(r)'
  <2>1. Owed(r) => Owed(r)'
    BY <1>5 DEF Owed
  <2> QED BY <1>1, <1>5, <2>1 DEF RowSettles, UpToDate
<1>6. ASSUME NEW q \in Request, Refuse(q),
             req[q].phase # "committed" \/ \A s \in req[q].seen : s.id # r.id
      PROVE  RowSettles(r)'
  <2>1. \A p \in Request \ {q} : req'[p] = req[p]
    BY <1>6 DEF Refuse, TypeOK
  <2>2. r \in row /\ UNCHANGED <<tip, current, queued, build>>
    BY <1>6 DEF Refuse, git, notes
  <2> QED BY <1>5, <1>6, <2>1, <2>2
<1>7. ASSUME NEW q \in Request, req[q].phase = "new",
             LoadEnable(q) \/ LoadUpdate(q) \/ LoadDisable(q)
      PROVE  RowSettles(r)'
  <2>1. Refuse(q) \/ \E k, b, f : Load(q, k, b, f)
    BY <1>7 DEF LoadEnable, LoadUpdate, LoadDisable
  <2>2. ASSUME NEW k, NEW b, NEW f, Load(q, k, b, f) PROVE RowSettles(r)'
    <3>1. \A p \in Request \ {q} : req'[p] = req[p]
      BY <2>2 DEF Load, TypeOK
    <3>2. r \in row /\ UNCHANGED <<tip, current, queued, build>>
      BY <2>2 DEF Load, git, notes
    <3> QED BY <1>5, <1>7, <3>1, <3>2
  <2> QED BY <1>6, <1>7, <2>1, <2>2
\* The row a request has just written is owed a build by that request.
<1>8. ASSUME NEW x \in Row, Record(x), NEW q \in Request, Commits(q),
             \A w \in Worker : \A b \in build[w] : b.seen.id = x.id => b.seen.sha = x.sha
      PROVE  RowSettles(r)'
  <2>1. r = x /\ current' = tip[x.branch] /\ tip' = tip /\ build' = build
    BY <1>8 DEF Record, Commits, git
  <2>2. req'[q].phase = "committed" /\ req'[q].seen = {x}
    BY <1>8 DEF Record, Commits, TypeOK, Call
  <2>3. Owed(r)'
    BY <2>1, <2>2 DEF Owed
  <2> QED BY <1>8, <2>1, <2>3 DEF RowSettles
<1>9. ASSUME NEW q \in Request, CommitInsert(q) PROVE RowSettles(r)'
  <2>1. PICK i \in RowId, b \in req[q].branch, f \in req[q].folder :
          /\ sources[i] = {}
          /\ Record([id |-> i, branch |-> b, folder |-> f, status |-> "pending", sha |-> {}])
    BY <1>9 DEF CommitInsert
  <2>2. PICK x : x = [id |-> i, branch |-> b, folder |-> f, status |-> "pending", sha |-> {}]
    OBVIOUS
  <2>3. b \in Branch /\ f \in Folder /\ Commits(q)
    BY <1>9 DEF CommitInsert, TypeOK, Call, AtMostOne
  <2>4. x \in Row /\ x.id = i
    BY <2>2, <2>3 DEF Row, AtMostOne
  <2>5. \A w \in Worker : \A y \in build[w] : y.seen.id # x.id
    BY <2>1, <2>4 DEF Provenance, BuildGood
  <2> QED BY <1>8, <2>1, <2>2, <2>3, <2>4, <2>5
<1>10. ASSUME NEW q \in Request, CommitUpdate(q) PROVE RowSettles(r)'
  <2>1. PICK s \in req[q].seen, y \in row :
          Record([y EXCEPT !.branch = Written(req[q].branch, @),
                           !.folder = Written(req[q].folder, @),
                           !.status = Written({"pending"} \ {s.status}, @)])
    BY <1>10 DEF CommitUpdate
  <2>2. PICK x : x = [y EXCEPT !.branch = Written(req[q].branch, @),
                               !.folder = Written(req[q].folder, @),
                               !.status = Written({"pending"} \ {s.status}, @)]
    OBVIOUS
  <2>3. row' = {x} /\ Record(x) /\ Commits(q)
    BY <1>10, <2>1, <2>2 DEF Record, CommitUpdate
  <2>4. x \in Row
    BY <2>3, TypeStep DEF TypeOK, AtMostOne
  <2>5. x.id = y.id /\ x.sha = y.sha
    BY <1>2, <2>2 DEF Row
  <2>6. RowSettles(y)
    OBVIOUS
  <2> QED BY <1>8, <2>3, <2>4, <2>5, <2>6 DEF RowSettles
<1>11. ASSUME NEW q \in Request, CommitRefused(q) \/ RefreshFails(q) \/ EnqueueFails(q)
       PROVE  RowSettles(r)'
  <2>1. ~EnqueueFails(q)
    BY DEF EnqueueFails
  <2>2. Refuse(q) /\ (req[q].phase # "committed" \/ \A s \in req[q].seen : ~Matches(s))
    BY <1>11, <2>1 DEF CommitRefused, RefreshFails
  <2>3. r \in row
    BY <2>2 DEF Refuse
  <2> QED BY <1>6, <2>2, <2>3 DEF Matches
<1>12. ASSUME NEW q \in Request, Enqueue(q) PROVE RowSettles(r)'
  <2>1. r \in row /\ UNCHANGED <<tip, current, build>> /\ queued' > 0
    BY <1>12 DEF Enqueue, git, notes, TypeOK
  <2> QED BY <1>1, <2>1 DEF RowSettles, Owed
<1>13. ASSUME NEW q \in Request, Scrub(q) \/ ScrubFails(q) \/ DeleteRow(q)
       PROVE  RowSettles(r)'
  <2>1. req[q].phase # "committed" /\ \A p \in Request \ {q} : req'[p] = req[p]
    BY <1>13 DEF Scrub, ScrubFails, DeleteRow, TypeOK
  <2>2. r \in row /\ UNCHANGED <<tip, current, queued, build>>
    BY <1>13 DEF Scrub, ScrubFails, DeleteRow, git, notes
  <2> QED BY <1>5, <2>1, <2>2
<1>14. ASSUME NEW w \in Worker, TakeNothing(w) PROVE RowSettles(r)'
  BY <1>14 DEF TakeNothing
\* A step of the only build, which ends as build x.
<1>16. ASSUME NEW w \in Worker, NEW b \in build[w], NEW x, NEW y \in row,
              build' = [build EXCEPT ![w] = {x}], x.seen = b.seen,
              UpToDate(b, y) => UpToDate(x, y),
              r.id = y.id, r.branch = y.branch, r.sha = y.sha,
              UNCHANGED <<tip, current, queued, req>>
       PROVE  RowSettles(r)'
  <2>1. RowSettles(y)
    OBVIOUS
  <2>2. build'[w] = {x} /\ \A v \in Worker \ {w} : build[v] = {} /\ build'[v] = {}
    BY <1>16 DEF OneBuild, TypeOK
  <2>3. Owed(y) => Owed(r)'
    BY <1>16 DEF Owed
  <2>4. build[w] = {b}
    BY DEF TypeOK, AtMostOne
  <2>5. UpToDate(b, y) => UpToDate(x, r)'
    BY <1>16 DEF UpToDate
  <2> QED BY <1>16, <2>1, <2>2, <2>3, <2>4, <2>5 DEF RowSettles
<1>17. ASSUME NEW w \in Worker, MarkBuilding(w) PROVE RowSettles(r)'
  <2>1. PICK b \in build[w] :
          /\ b.step = "loaded"
          /\ row' = {IF z.id = b.seen.id
                     THEN [z EXCEPT !.status = Written({"building"} \ {b.seen.status}, @)]
                     ELSE z : z \in row}
          /\ build' = [build EXCEPT ![w] = {[b EXCEPT !.step = "marked"]}]
    BY <1>17 DEF MarkBuilding
  <2>2. PICK y \in row :
          r = IF y.id = b.seen.id
              THEN [y EXCEPT !.status = Written({"building"} \ {b.seen.status}, @)]
              ELSE y
    BY <2>1
  <2>3. r.id = y.id /\ r.branch = y.branch /\ r.sha = y.sha
    BY <1>2, <2>2 DEF Row
  <2>4. PICK x : x = [b EXCEPT !.step = "marked"]
    OBVIOUS
  <2>5. x.seen = b.seen /\ x.step = "marked"
    BY <1>2, <2>4 DEF Build
  <2>6. UNCHANGED <<tip, current, queued, req>>
    BY <1>17 DEF MarkBuilding, git, notes
  <2>7. UpToDate(b, y) => UpToDate(x, y)
    BY <2>5 DEF UpToDate
  <2>8. build' = [build EXCEPT ![w] = {x}]
    BY <2>1, <2>4
  <2> QED BY <1>16, <2>3, <2>5, <2>6, <2>7, <2>8
<1>18. ASSUME NEW w \in Worker, Resolve(w) PROVE RowSettles(r)'
  <2>1. PICK b \in build[w] :
          build' = [build EXCEPT ![w] = {[b EXCEPT
               !.step = "uploading",
               !.sha = tip[b.seen.branch],
               !.left = UNION {Tree[c][b.seen.folder] : c \in tip[b.seen.branch]}]}]
    BY <1>18 DEF Resolve
  <2>2. PICK x : x = [b EXCEPT
               !.step = "uploading",
               !.sha = tip[b.seen.branch],
               !.left = UNION {Tree[c][b.seen.folder] : c \in tip[b.seen.branch]}]
    OBVIOUS
  <2>3. x.seen = b.seen /\ x.sha = tip[b.seen.branch]
    BY <1>2, <2>2 DEF Build
  <2>4. r \in row /\ UNCHANGED <<tip, current, queued, req>>
    BY <1>18 DEF Resolve, git, notes
  <2>5. UpToDate(b, r) => UpToDate(x, r)
    BY <2>3, <2>4 DEF UpToDate, TipsCurrent
  <2>6. build' = [build EXCEPT ![w] = {x}]
    BY <2>1, <2>2
  <2> QED BY <1>16, <2>3, <2>4, <2>5, <2>6
<1>19. ASSUME NEW w \in Worker, NEW p \in Page, Put(w, p) \/ PutFails(w, p)
       PROVE  RowSettles(r)'
  <2>1. PICK b \in build[w] : build' = [build EXCEPT ![w] = {[b EXCEPT !.left = @ \ {p}]}]
    BY <1>19 DEF Put, PutFails
  <2>2. PICK x : x = [b EXCEPT !.left = @ \ {p}]
    OBVIOUS
  <2>3. x.seen = b.seen /\ x.step = b.step /\ x.sha = b.sha
    BY <1>2, <2>2 DEF Build
  <2>4. r \in row /\ UNCHANGED <<tip, current, queued, req>>
    BY <1>19 DEF Put, PutFails, git, notes
  <2>5. UpToDate(b, r) => UpToDate(x, r)
    BY <2>3 DEF UpToDate
  <2>6. build' = [build EXCEPT ![w] = {x}]
    BY <2>1, <2>2
  <2> QED BY <1>16, <2>3, <2>4, <2>5, <2>6
\* The only build ends: nothing is being built, and the row says what it said
\* but for its status and commit.
<1>20. ASSUME NEW w \in Worker, NEW y \in row, build[w] # {},
              build' = [build EXCEPT ![w] = {}],
              r.id = y.id, r.branch = y.branch,
              UNCHANGED <<tip, current, queued, req>>,
              Owed(y) \/ (r.status = "active" => r.sha \subseteq current)
       PROVE  RowSettles(r)'
  <2>1. \A v \in Worker : build'[v] = {}
    BY <1>20 DEF OneBuild, TypeOK
  <2>2. Owed(y) => Owed(r)'
    BY <1>20 DEF Owed
  <2> QED BY <1>20, <2>1, <2>2 DEF RowSettles
<1>21. ASSUME NEW w \in Worker, BuildFails(w) PROVE RowSettles(r)'
  <2>1. PICK y \in row : r = [y EXCEPT !.status = "failed"]
    BY <1>21 DEF BuildFails
  <2>2. r.id = y.id /\ r.branch = y.branch /\ r.status = "failed"
    BY <1>2, <2>1 DEF Row
  <2>3. build' = [build EXCEPT ![w] = {}] /\ UNCHANGED <<tip, current, queued, req>>
    BY <1>21 DEF BuildFails, git, notes
  <2>4. build[w] # {}
    BY <1>21 DEF BuildFails
  <2> QED BY <1>20, <2>2, <2>3, <2>4
<1>22. ASSUME NEW w \in Worker, Publish(w) PROVE RowSettles(r)'
  <2>1. PICK b \in build[w] :
          /\ b.step = "uploading" /\ Matches(b.seen)
          /\ row' = {[z EXCEPT !.status = "active",
                               !.sha = IF b.seen.sha = b.sha THEN @ ELSE b.sha] : z \in row}
    BY <1>22 DEF Publish
  <2>2. PICK y \in row :
          r = [y EXCEPT !.status = "active",
                        !.sha = IF b.seen.sha = b.sha THEN @ ELSE b.sha]
    BY <2>1
  <2>3. /\ r.id = y.id /\ r.branch = y.branch
        /\ r.sha = IF b.seen.sha = b.sha THEN y.sha ELSE b.sha
    BY <1>2, <2>2 DEF Row
  <2>4. build' = [build EXCEPT ![w] = {}] /\ UNCHANGED <<tip, current, queued, req>>
    BY <1>22 DEF Publish, git, notes
  <2>5. build[w] = {b} /\ \A v \in Worker \ {w} : build[v] = {}
    BY DEF TypeOK, AtMostOne, OneBuild
  <2>6. RowSettles(y) /\ b.seen.id = y.id
    BY <1>2, <2>1 DEF Matches
  <2>7. r.sha = b.sha
    BY <2>3, <2>6 DEF RowSettles
  <2>8. Owed(y) \/ b.sha \subseteq current
    BY <2>1, <2>5, <2>6 DEF RowSettles, UpToDate
  <2> QED BY <1>20, <2>3, <2>4, <2>7, <2>8
<1>23. ASSUME NEW w \in Worker, RowGone(w) PROVE RowSettles(r)'
  <2>1. PICK b \in build[w] : ~Matches(b.seen)
    BY <1>23 DEF RowGone
  <2>2. r \in row /\ build' = [build EXCEPT ![w] = {}] /\ UNCHANGED <<tip, current, queued, req>>
    BY <1>23 DEF RowGone, git, notes
  <2>3. build[w] = {b} /\ \A v \in Worker \ {w} : build[v] = {}
    BY DEF TypeOK, AtMostOne, OneBuild
  <2>4. Owed(r)
    BY <1>1, <2>1, <2>2, <2>3 DEF RowSettles, UpToDate, Matches
  <2> QED BY <1>20, <2>2, <2>4
<1>24. ASSUME NEW w \in Worker, WorkerLost(w) PROVE RowSettles(r)'
  <2>1. r \in row /\ UNCHANGED <<tip, current, req>> /\ queued' > 0
    BY <1>24 DEF WorkerLost, git, notes, TypeOK
  <2>2. \A v \in Worker : build'[v] \subseteq build[v]
    BY <1>24 DEF WorkerLost, TypeOK
  <2> QED BY <1>1, <2>1, <2>2 DEF RowSettles, Owed
<1>25. ASSUME NEW q \in Request, LoadEnable(q) \/ LoadUpdate(q) \/ LoadDisable(q)
       PROVE  RowSettles(r)'
  BY <1>7, <1>25 DEF LoadEnable, LoadUpdate, LoadDisable
<1> QED
  BY <1>3, <1>4, <1>9, <1>10, <1>11, <1>12, <1>13, <1>14, <1>17, <1>18, <1>19,
     <1>21, <1>22, <1>23, <1>24, <1>25
  DEF Next, RequestStep, WorkerStep

LEMMA SettlingStep == TypeOK /\ Provenance /\ Settling /\ [Next]_vars => Settling'
<1> SUFFICES ASSUME TypeOK, Provenance, Settling, [Next]_vars PROVE Settling'
  OBVIOUS
<1>1. TipsCurrent'
  BY TipsStep DEF Settling
<1>2. ASSUME ~crossed', NEW w \in Worker, Take(w)
      PROVE  OneBuild' /\ \A r \in row' : RowSettles(r)'
  <2>1. row' # {}
    BY <1>2 DEF Take
  <2> QED BY <1>2, <2>1, LoneBuildSettles
<1>3. ASSUME ~crossed', ~\E w \in Worker : Take(w)
      PROVE  OneBuild' /\ \A r \in row' : RowSettles(r)'
  <2>1. ~crossed /\ \A w \in Worker : build'[w] # {} => build[w] # {}
    BY <1>3, BuildsAreTaken
  <2>2. OneBuild' /\ OneBuild /\ \A r \in row : RowSettles(r)
    BY <2>1 DEF Settling, OneBuild
  <2> QED BY <1>3, <2>2, RowKeepsSettling DEF Settling
<1> QED BY <1>1, <1>2, <1>3 DEF Settling

\* A site that has come to rest shows a commit its branch has pointed to since
\* the last accepted request, for any number of workers, whatever fails, when
\* the last build to start ran by itself and no message was refused since.
THEOREM SettlesOnCurrent == Spec => []SettledIsCurrent
<1>1. Init => Settling
  BY DEF Init, Settling, TipsCurrent, OneBuild
<1>2. Settling => SettledIsCurrent
  BY DEF Settling, RowSettles, Owed, SettledIsCurrent, Quiet, Queueing, Building
<1>3. TypeOK /\ Provenance /\ Settling /\ [Next]_vars => Settling'
  BY SettlingStep
<1> QED BY <1>1, <1>2, <1>3, TypeCorrect, Provenant, PTL DEF Spec

=============================================================================
