----------------------------- MODULE MCServices -----------------------------
(***************************************************************************)
(* Instances of the request-driven services of the API: pull requests,     *)
(* issues, permissions, sessions, accounts, the small social records, AI   *)
(* reviews and their routing, pushes with their hooks, and readers.  They  *)
(* share no rows that another of them changes, so a behaviour moves one of *)
(* them, chosen at the start; the product of all would only repeat each    *)
(* state of one for every state of the others.                             *)
(***************************************************************************)
EXTENDS PullRequests, Issues, Access, Sessions, Accounts, Social, Reviews, Routing, Browse, TLC

CONSTANTS
    Part,                                   \* the services that may be chosen
    ann, wim,                               \* actors: an administrator, a writer
    base, f1, f2,                           \* repositories
    l1, l2, lo, m1,                         \* labels, one of another repository, a milestone
    u1, u2, ro, ru, org1, t1,               \* permissions
    e1, e2, n1, n2, x1, p1,                 \* accounts
    s1, c1, nobody,                         \* social records, a caller
    fa, fb,                                 \* files
    bm, bd, tg, readme, src                 \* branches, a tag, files

VARIABLE part

servicesVars == <<part, pullVars, issueVars, accessVars, sessionVars, accountVars, socialVars,
                  reviewVars, routeVars, browseVars>>

ServicesInit ==
    /\ part \in Part
    /\ PullsInit /\ IssuesInit /\ AccessInit /\ SessionsInit
    /\ AccountsInit /\ SocialInit /\ ReviewsInit /\ RouteInit /\ BrowseInit

ServicesNext ==
    /\ UNCHANGED part
    /\ \/ part = "pulls" /\ PullsNext
       \/ part # "pulls" /\ UNCHANGED pullVars
    /\ \/ part = "issues" /\ IssuesNext
       \/ part # "issues" /\ UNCHANGED issueVars
    /\ \/ part = "access" /\ AccessNext
       \/ part # "access" /\ UNCHANGED accessVars
    /\ \/ part = "sessions" /\ SessionsNext
       \/ part # "sessions" /\ UNCHANGED sessionVars
    /\ \/ part = "accounts" /\ AccountsNext
       \/ part # "accounts" /\ UNCHANGED accountVars
    /\ \/ part = "social" /\ SocialNext
       \/ part # "social" /\ UNCHANGED socialVars
    /\ \/ part = "reviews" /\ ReviewsNext
       \/ part # "reviews" /\ UNCHANGED reviewVars
    /\ \/ part = "routing" /\ RouteNext
       \/ part # "routing" /\ UNCHANGED routeVars
    /\ \/ part = "pushes" /\ PushesNext /\ UNCHANGED viewing
       \/ part = "browse" /\ BrowseNext
       \/ part \notin {"pushes", "browse"} /\ UNCHANGED browseVars

ServicesSpec == ServicesInit /\ [][ServicesNext]_servicesVars

-----------------------------------------------------------------------------
\* The rows, requests and tasks of every service have the types their tables
\* and payloads give them (models/*.py and the request handlers).
ServicesTypeOK ==
    /\ part = "pulls" => PullsTypeOK
    /\ part = "issues" => IssuesTypeOK
    /\ part = "access" => AccessTypeOK
    /\ part = "sessions" => SessionsTypeOK
    /\ part = "accounts" => AccountsTypeOK
    /\ part = "social" => SocialTypeOK
    /\ part = "reviews" => ReviewsTypeOK
    /\ part = "routing" => RouteTypeOK
    /\ part \in {"pushes", "browse"} => PushesTypeOK /\ BrowseTypeOK

-----------------------------------------------------------------------------
(* Values of the constants *)

Levels == [u \in Actor |-> IF u = ann THEN "admin" ELSE "write"]
FirstCommits == [s \in Source |-> CASE s = Base -> 1 [] s = f1 -> 2 [] OTHER -> 3]
TwoPulls == <<f1, f2>>

Payloads == {{}, {l1}, {l2, lo}}

Owners == [r \in Repository |-> IF r = ro THEN org1 ELSE u1]
TeamGrants == {[team |-> t1, repo |-> ro, level |-> "write"]}

OneMail == [x \in Identity |-> e1]

Commands ==
    LET headRef == <<"heads", bm>>  topical == <<"heads", bd>> IN
    {headRef :> "commit", headRef :> "force", topical :> "commit",
     headRef :> "commit" @@ topical :> "delete", <<"tags", tg>> :> "mark"}
NewFiles == [c \in 1..MaxTips |-> IF c = 2 THEN <<src, fa>> ELSE <<readme>>]
Readmes == <<readme, fa>>

Ranks == [f \in {fa, fb} |-> IF f = fa THEN 1 ELSE 2]

\* Diffs by their signals: nothing there, generated files only, and the
\* combinations that make every score win, tie or reach its cap.
NoSignals == [blank |-> FALSE, generated |-> FALSE, whitespace |-> FALSE, docFiles |-> 0,
              configFiles |-> 0, logic |-> 0, moves |-> 0, prose |-> 0, added |-> 0, removed |-> 0]
Diffs ==
    {[NoSignals EXCEPT !.blank = TRUE], [NoSignals EXCEPT !.generated = TRUE]} \cup
    {[NoSignals EXCEPT !.docFiles = d, !.configFiles = c, !.logic = l, !.moves = m, !.prose = p,
                       !.added = a, !.removed = r] :
        d \in 0..1, c \in {0, 2}, l \in {0, 1, 7}, m \in {0, 2}, p \in {0, 3}, a \in {1, 6}, r \in {0, 5}}

Hit(s, c) == [score |-> s, category |-> c]
OwnHits ==
    {<<>>, <<Hit(2, "functional")>>, <<Hit(1, "documentation")>>,
     <<Hit(2, "functional"), Hit(1, "documentation")>>,
     <<Hit(2, "false_positive"), Hit(2, "false_positive"), Hit(1, "functional")>>,
     <<Hit(2, "unknown"), Hit(2, "unknown"), Hit(1, "functional")>>}
SeededHits ==
    {<<>>, <<Hit(2, "discussion"), Hit(1, "refactoring")>>,
     <<Hit(2, "discussion"), Hit(2, "refactoring"), Hit(1, "refactoring")>>}

Remark(f, line, severity, words) == [place |-> <<f, line>>, severity |-> severity, words |-> words]
Says(severity, remarks) == [failed |-> FALSE, severity |-> severity, suggestions |-> remarks]
Replies ==
    {Says(0, <<>>), Says(1, <<Remark(fa, 1, 0, {1, 2})>>),
     Says(3, <<Remark(fb, 0, 3, {1}), Remark(fa, 1, 2, {1})>>),
     Says(2, <<Remark(fa, 1, 3, {2, 3})>>),
     Says(1, <<Remark(fb, 0, 1, {}), Remark(fb, 0, 2, {})>>),
     Says(3, <<Remark(fa, 2, 2, {1}), Remark(fa, 1, 2, {4})>>)}
=============================================================================
