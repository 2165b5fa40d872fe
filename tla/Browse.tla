------------------------------- MODULE Browse -------------------------------
(***************************************************************************)
(* Reading a repository while pushes and uploads move its refs: trees,     *)
(* files, READMEs, pages of the history, and clones.  Every read runs in   *)
(* one thread of the executor; a tree lists the branches in a thread of    *)
(* its own first, a history takes one request for each page, and a clone   *)
(* one for the refs and one for the pack.                                  *)
(*                                                                         *)
(* Source: backend/app/services/git_service.py, the /git routes of         *)
(* backend/app/api/v1/repos.py, backend/app/api/v1/git.py (upload_pack).   *)
(***************************************************************************)
EXTENDS Pushes

CONSTANTS
  ReadmeCandidates,   \* the names a README may have, in the order they are tried
  Undecodable,        \* paths whose content is not UTF-8
  PerPage,            \* commits on one page
  MaxPages            \* bound: pages one reader asks for

ASSUME BrowseAssumption == PerPage \in Nat \ {0} /\ MaxPages \in Nat

VARIABLE
  viewing             \* the one reader

browseVars == <<pushVars, viewing>>

NoView == [step |-> "idle", kind |-> "none", name |-> 0, path |-> <<>>, page |-> 0,
           got |-> <<>>, answer |-> {}, named |-> {}]

\* What a reader may name: branches, tags, commits by their hash.
Name == Branch \cup Tag \cup CommitId

\* _resolve_ref: a branch, else a tag, else a hash; 0 is "not found".
ResolveRef(n) ==
  IF n \in Branch /\ tips[BranchRef(n)] # 0 THEN tips[BranchRef(n)]
  ELSE IF n \in Tag /\ tips[<<"tags", n>>] # 0 THEN tips[<<"tags", n>>]
  ELSE IF n \in CommitId /\ lineage[n] # <<>> THEN n
  ELSE 0

\* _is_repo_empty: also when HEAD names a branch that is not there.
IsRepoEmpty == tips[BranchRef(HeadBranch)] = 0

\* _list_branches_sync
ListBranches == IF IsRepoEmpty THEN {} ELSE {b \in Branch : tips[BranchRef(b)] # 0}

\* NotFoundError, or another error.
Missing == {<<>>}

\* One level of a tree: names, each a file or a directory.
GetTree(c, dir) ==
  LET below == {p \in contents[c] : IsPrefix(dir, p) /\ p # dir} IN
  IF dir # <<>> /\ below = {} THEN Missing
  ELSE {<<p[Len(dir) + 1], Len(p) = Len(dir) + 1>> : p \in below}

GetBlob(c, path) == IF path \in contents[c] THEN {path} ELSE Missing

GetReadme(c) ==
  LET found == {i \in DOMAIN ReadmeCandidates :
                  LET p == <<ReadmeCandidates[i]>> IN p \in contents[c] \ Undecodable}
  IN IF found = {} THEN Missing
     ELSE {<<ReadmeCandidates[CHOOSE i \in found : \A j \in found : i <= j]>>}

\* Fault: pages are counted from zero.
GetCommits_FromZero(c, page) ==
  LET all == lineage[c]
      last == (page + 1) * PerPage
  IN SubSeq(all, page * PerPage + 1, IF last > Len(all) THEN Len(all) ELSE last)

\* The page of the history, which is read as a whole each time.
GetCommits(c, page) ==
  LET all == lineage[c]
      skip == (page - 1) * PerPage
      last == skip + PerPage
  IN SubSeq(all, skip + 1, IF last > Len(all) THEN Len(all) ELSE last)

\* What one read of a commit answers; nothing is found in an empty repository.
Answer(kind, c, path) ==
  IF c = 0 THEN Missing
  ELSE CASE kind = "tree"   -> GetTree(c, path)
         [] kind = "blob"   -> GetBlob(c, path)
         [] kind = "readme" -> GetReadme(c)

Opens(n) == IF present /\ ~IsRepoEmpty THEN ResolveRef(n) ELSE 0

-----------------------------------------------------------------------------
\* GET .../git/blob and .../git/readme
ReadAtOnce(u, kind, n, path) ==
  /\ viewing.step = "idle" /\ Permitted(u, "read") /\ hosted
  /\ kind \in {"blob", "readme"}
  /\ viewing' = [NoView EXCEPT !.step = "answered", !.kind = kind, !.name = n, !.path = path,
                    !.answer = Answer(kind, Opens(n), path), !.named = {Opens(n)}]
  /\ UNCHANGED pushVars

\* GET .../branches from the cached rows, and .../git/branches.
ShowBranches(u, cached) ==
  /\ viewing.step = "idle" /\ Permitted(u, "read") /\ hosted
  /\ viewing' = [NoView EXCEPT !.step = IF cached \/ present THEN "answered" ELSE "refused",
                    !.kind = "branches",
                    !.answer = IF cached THEN {b \in Branch : cache[b] # NoRow}
                               ELSE IF present THEN ListBranches ELSE {}]
  /\ UNCHANGED pushVars

\* GET .../git/tree: names that are not branches have an empty tree.
ListForTree(u, n, path) ==
  /\ viewing.step = "idle" /\ Permitted(u, "read") /\ hosted
  /\ viewing' = [NoView EXCEPT !.step = IF present /\ n \in ListBranches THEN "listed" ELSE "answered",
                    !.kind = "tree", !.name = n, !.path = path, !.named = {Opens(n)}]
  /\ UNCHANGED pushVars

ReadTree ==
  /\ viewing.step = "listed"
  /\ viewing' = [viewing EXCEPT !.step = "answered",
                    !.answer = Answer("tree", Opens(viewing.name), viewing.path)]
  /\ UNCHANGED pushVars

\* GET .../git/commits, page after page up to the total of the last answer.
ReadPage(u, n) ==
  LET c == Opens(n)
      page == viewing.page + 1
      got == viewing.got \o (IF c = 0 THEN <<>> ELSE GetCommits(c, page))
      total == IF c = 0 THEN 0 ELSE Len(lineage[c])
  IN
  /\ \/ viewing.step = "idle"
     \/ viewing.step = "paging" /\ viewing.name = n
  /\ page <= MaxPages /\ Permitted(u, "read") /\ hosted
  /\ viewing' = [viewing EXCEPT !.step = IF page * PerPage >= total THEN "paged" ELSE "paging",
                    !.kind = "history", !.name = n, !.page = page, !.got = got,
                    !.named = @ \cup {c}]
  /\ UNCHANGED pushVars

\* info/refs for upload-pack, then the pack: what the client wants has to be
\* reachable from a ref still, and it gets all its history.
ShowRefs(u) ==
  /\ viewing.step = "idle" /\ ResolveAndCheck(u, "read") /\ Backend
  /\ viewing' = [NoView EXCEPT !.step = "advertised", !.kind = "clone",
                    !.named = {tips[r] : r \in Ref} \ {0}]
  /\ UNCHANGED pushVars

UploadPack(u) ==
  LET reachable == UNION {ToSet(lineage[tips[r]]) : r \in {s \in Ref : tips[s] # 0}} IN
  /\ viewing.step = "advertised"
  /\ viewing' = IF ResolveAndCheck(u, "read") /\ Backend /\ viewing.named \subseteq reachable
                 THEN [viewing EXCEPT !.step = "answered",
                          !.answer = UNION {ToSet(lineage[c]) : c \in viewing.named}]
                 ELSE [viewing EXCEPT !.step = "refused"]
  /\ UNCHANGED pushVars

Look(u) ==
  \/ \E n \in Name : ReadPage(u, n)
  \/ \E n \in Name, kind \in {"blob", "readme"}, path \in Path : ReadAtOnce(u, kind, n, path)
  \/ \E n \in Name, path \in {<<>>} \cup Path \cup {Front(p) : p \in Path} : ListForTree(u, n, path)
  \/ \E cached \in BOOLEAN : ShowBranches(u, cached)
  \/ ShowRefs(u) \/ UploadPack(u)

\* Readers see refs, never the rows a hook writes, so no hook has work here.
\* A read under way goes through what its name stands for meanwhile.
Moves ==
  /\ \E q \in PushSlots : GitMoves(q, {FALSE})
  /\ \E n \in Name \cup {0} :
        /\ n = viewing.name
        /\ viewing' = [viewing EXCEPT !.named =
              IF viewing.step \in {"listed", "paging"} THEN @ \cup {Opens(n)'} ELSE @]

BrowseInit == PushesInit /\ viewing = NoView
BrowseNext == Moves \/ ReadTree \/ \E u \in Actor : Look(u)

-----------------------------------------------------------------------------
BrowseTypeOK ==
  /\ viewing.page \in 0..MaxPages
  /\ viewing.kind # "clone" => viewing.named \subseteq 0..MaxTips

\* A tree is the tree of a commit that its branch named while it was read; a
\* clone has the whole history of what it was shown, or fails; and somebody who
\* pages through the history of a name that does not move meanwhile is shown
\* every commit once, in order.
ReadsOneCommit ==
  /\ viewing.step = "answered" /\ viewing.kind = "tree" /\ viewing.answer # {} =>
        \E c \in viewing.named : viewing.answer = Answer("tree", c, viewing.path)
  /\ viewing.step = "answered" /\ viewing.kind = "clone" =>
        \A c \in viewing.named : ToSet(lineage[c]) \subseteq viewing.answer
  /\ viewing.step = "paged" =>
        \A c \in viewing.named : viewing.named = {c} /\ c # 0 => viewing.got = lineage[c]
=============================================================================
