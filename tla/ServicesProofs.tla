--------------------------- MODULE ServicesProofs ---------------------------
(***************************************************************************)
(* The services together: a behaviour of the composition that TLC checks   *)
(* is a behaviour of every service, so that what is proved of each of them *)
(* holds of the composition.                                               *)
(***************************************************************************)
EXTENDS MCServices, CollaborationProofs, IdentityProofs, GitProofs

-----------------------------------------------------------------------------
(* Each service moves by its own steps *)

LEMMA BrowsingPushes == BrowseNext => [PushesNext]_pushVars
<1> SUFFICES ASSUME BrowseNext PROVE [PushesNext]_pushVars
  OBVIOUS
<1>1. CASE Moves
  <2>1. PICK q \in PushSlots : GitMoves(q, {FALSE})
    BY <1>1 DEF Moves
  <2>2. GitMoves(q, BOOLEAN)
    BY <2>1 DEF GitMoves
  <2> QED BY <2>2 DEF PushesNext
<1>2. CASE ReadTree
  BY <1>2 DEF ReadTree
<1>3. ASSUME NEW u \in Actor, Look(u) PROVE UNCHANGED pushVars
  BY <1>3 DEF Look, ReadPage, ReadAtOnce, ListForTree, ShowBranches, ShowRefs, UploadPack
<1> QED BY <1>1, <1>2, <1>3 DEF BrowseNext

LEMMA EachMoves ==
  ASSUME [ServicesNext]_servicesVars
  PROVE  /\ [PullsNext]_pullVars /\ [IssuesNext]_issueVars /\ [AccessNext]_accessVars
         /\ [SessionsNext]_sessionVars /\ [AccountsNext]_accountVars /\ [SocialNext]_socialVars
         /\ [ReviewsNext]_reviewVars /\ [RouteNext]_routeVars /\ [PushesNext]_pushVars
<1>1. CASE UNCHANGED servicesVars
  BY <1>1 DEF servicesVars, browseVars
<1>2. CASE ServicesNext
  <2>1. /\ [PullsNext]_pullVars /\ [IssuesNext]_issueVars /\ [AccessNext]_accessVars
        /\ [SessionsNext]_sessionVars /\ [AccountsNext]_accountVars /\ [SocialNext]_socialVars
        /\ [ReviewsNext]_reviewVars /\ [RouteNext]_routeVars
    BY <1>2 DEF ServicesNext
  <2>2. [PushesNext]_pushVars
    BY <1>2, BrowsingPushes DEF ServicesNext, browseVars
  <2> QED BY <2>1, <2>2
<1> QED BY <1>1, <1>2

\* The services share no rows: seen from any one of them a behaviour of all is
\* one of its own, in which the others' requests are stuttering steps.
THEOREM ServicesComposeTheirParts ==
  ServicesSpec =>
    /\ PullsSpec /\ IssuesSpec /\ AccessSpec /\ SessionsSpec /\ AccountsSpec
    /\ SocialSpec /\ ReviewsSpec /\ RouteSpec /\ PushesSpec
<1>1. ServicesInit =>
        /\ PullsInit /\ IssuesInit /\ AccessInit /\ SessionsInit /\ AccountsInit
        /\ SocialInit /\ ReviewsInit /\ RouteInit /\ PushesInit
  BY DEF ServicesInit, BrowseInit
<1> QED
  BY <1>1, EachMoves, PTL
  DEF ServicesSpec, PullsSpec, IssuesSpec, AccessSpec, SessionsSpec, AccountsSpec,
      SocialSpec, ReviewsSpec, RouteSpec, PushesSpec

-----------------------------------------------------------------------------
(* Readers: their own part, or nobody reads *)

ReaderKept == ViewKept /\ (part # "browse" => viewing = NoView)

LEMMA NobodyReads == viewing = NoView => ViewKept
<1> SUFFICES ASSUME viewing = NoView PROVE ViewKept
  OBVIOUS
<1>1. /\ viewing = NoView /\ IsView(NoView) /\ NoView.step = "idle" /\ NoView.page = 0
      /\ NoView.named = {} /\ NoView.kind = "none"
  BY DEF NoView, IsView
<1> QED BY <1>1, BrowseAssumption DEF ViewKept, ViewShape, TreeOfOne, CloneIsWhole, PagesInOrder

LEMMA NobodyWillRead == (viewing = NoView => ViewKept)'
BY NobodyReads, PTL

LEMMA ReaderAlways == ServicesSpec => []ReaderKept
<1>1. ServicesInit => ReaderKept
  BY NobodyReads DEF ServicesInit, BrowseInit, ReaderKept
<1>2. ASSUME PushesKept, ReaderKept, [ServicesNext]_servicesVars
      PROVE  ReaderKept'
  <2>0. part' = part
    BY <1>2 DEF ServicesNext, servicesVars
  <2>1. CASE part = "browse"
    <3>1. [BrowseNext]_browseVars
      BY <1>2, <2>1 DEF ServicesNext, servicesVars
    <3>2. ViewKept'
      BY <1>2, <3>1, BrowseStepKept DEF ReaderKept
    <3> QED BY <2>0, <2>1, <3>2 DEF ReaderKept
  <2>2. CASE part # "browse"
    <3>1. viewing' = NoView
      BY <1>2, <2>2 DEF ServicesNext, servicesVars, browseVars, ReaderKept
    <3>2. ViewKept'
      BY <3>1, NobodyWillRead
    <3> QED BY <3>1, <3>2 DEF ReaderKept
  <2> QED BY <2>1, <2>2
<1> QED BY <1>1, <1>2, PushesAlways, ServicesComposeTheirParts, PTL DEF ServicesSpec

-----------------------------------------------------------------------------
\* ServicesTypeOK: every row, request and task of every service keeps the type
\* its table and payload give it.
THEOREM ServicesTyped == ServicesSpec => []ServicesTypeOK
<1>1. PushesKept /\ ReaderKept => BrowseTypeOK
  BY PushesAssumption DEF PushesKept, GitShape, ReaderKept, ViewKept, ViewShape, BrowseTypeOK
<1>2. /\ PullsTypeOK /\ IssuesTypeOK /\ AccessTypeOK /\ SessionsTypeOK /\ AccountsTypeOK
      /\ SocialTypeOK /\ ReviewsTypeOK /\ RouteTypeOK /\ PushesTypeOK /\ BrowseTypeOK
      => ServicesTypeOK
  BY DEF ServicesTypeOK
<1> QED
  BY <1>1, <1>2, ServicesComposeTheirParts, ReaderAlways, PushesAlways, PullsTyped, IssuesTyped,
     AccessTyped, SessionRowsTyped, AccountRowsTyped, SocialRowsTyped, ReviewsTyped, RouteTyped,
     PushesTyped, PTL

\* What the run of the services checks of a few requests holds of any number of
\* them: of merges and issues, of what a caller may do, of sessions, mails and
\* provider links, of the counters and the rate limiter, of reviews, of the
\* cached branches and of what a reader is shown.
THEOREM ServicesKeepWhatTheyPromise ==
  ServicesSpec =>
    /\ [](RecordedMergeInTarget /\ CalmMergeIsOwn /\ ClosedExactlyTimed /\ CalmReplaceExact)
    /\ [](ResolvesHighest /\ EarlierSessionsEnd /\ SingleUse /\ LatestMailWorks /\ CalmOneLink)
    /\ [](CalmCountExact /\ RefusalEnds /\ CalmOneReview /\ IndexedIsCurrent)
    /\ [](MergedCoversAll /\ CalmCacheCurrent /\ ReadsOneCommit)
    /\ TargetKeepsCommits /\ RaisedByEntitled /\ RevokedForGood
<1>1. ReaderKept => ReadsOneCommit
  BY DEF ReaderKept, ViewKept, TreeOfOne, CloneIsWhole, PagesInOrder, ReadsOneCommit
<1> QED
  BY <1>1, ServicesComposeTheirParts, ReaderAlways, RecordedMergesStand, CalmMergesAreOwn,
     TargetOnlyGrows, ClosingTimesMatch, CalmReplacesAreExact, ResolverAlwaysExact,
     RaisesAreEntitled, EndedSessionsStayEnded, TokensAreUsedOnce, LastMailVerifies, OneLinkEach,
     RevokedStaysRevoked, CountsAreExact, RefusalIsTemporary, CalmIsOneReview, IndexEndsCurrent,
     MergeCoversAll, CacheFollowsPushes, PTL
=============================================================================
