\* Two merges of pull requests from different forks fetch into one repository.
CONSTANTS
    Part = {"pulls"}
    ann = ann  wim = wim  base = base  f1 = f1  f2 = f2
    l1 = l1  l2 = l2  lo = lo  m1 = m1
    u1 = u1  u2 = u2  ro = ro  ru = ru  org1 = org1  t1 = t1  nobody = nobody
    e1 = e1  e2 = e2  n1 = n1  n2 = n2  x1 = x1  p1 = p1
    s1 = s1  c1 = c1  fa = fa  fb = fb
    bm = bm  bd = bd  tg = tg  readme = readme  src = src
    Actor = {ann, wim}
    LevelOf <- Levels
    \* pull requests
    Base = base
    Fork = {f1, f2}
    FirstCommit <- FirstCommits
    Author = ann
    FirstPulls <- TwoPulls
    PullSlots = 2
    MaxPullRequests = 2
    MaxPulls = 3
    MaxCommits = 5
    LocksAggregates = TRUE
    \* issues
    Label = {l1, l2}
    OtherLabel = lo
    Milestone = {m1}
    FirstAuthor = ann
    Payload <- Payloads
    FirstIds = {l1}
    MaxIssues = 3
    MaxComments = 1
    IssueSlots = 2
    MaxIssueRequests = 3
    \* permissions
    Person = {u1, u2}
    Anonymous = nobody
    Repository = {ro, ru}
    OwnerOf <- Owners
    Organization = org1
    FirstOwner = u2
    Team = {t1}
    TeamGrant <- TeamGrants
    Granted = {"triage", "admin"}
    MaxChanges = 4
    \* sessions
    SessionSlots = {1, 2}
    MaxTokens = 3
    MaxEnded = 2
    MaxResets = 1
    MaxSessionRequests = 4
    \* accounts
    Mail = {e1, e2}
    UserName = {n1, n2}
    Identity = {x1}
    MailOf <- OneMail
    Pat = {p1}
    AccountSlots = {1, 2}
    MaxMails = 3
    MaxErrands = 3
    \* stars, followers, startups, rate limiter
    Fan = {f1, f2}
    Startup = {s1}
    Client = {c1}
    Limit = 1
    SocialSlots = {1, 2}
    MaxVisits = 3
    MaxHits = 2
    \* AI reviews
    Reviewer = {1, 2}
    Indexer = {1, 2}
    MaxTriggers = 2
    MaxReviews = 2
    MaxHeads = 2
    MaxLost = 1
    \* routing
    Diff <- Diffs
    Reply <- Replies
    FileRank <- Ranks
    PrimaryHits <- OwnHits
    SecondaryHits <- SeededHits
    TopK = 4
    MinPrimary = 2
    Samples = 3
    Configured = TRUE
    \* pushes and reads
    Branch = {bm, bd}
    Tag = {tg}
    HeadBranch = bm
    PagesBranch = bm
    Command <- Commands
    NewFile <- NewFiles
    PushSlots = {1, 2}
    MaxPushEvents = 3
    MaxTips = 3
    ReadmeCandidates <- Readmes
    Undecodable = {}
    PerPage = 1
    MaxPages = 3
SPECIFICATION ServicesSpec

INVARIANTS MergesOwnBranch

\* The requests are bounded: the service may come to rest.
CHECK_DEADLOCK FALSE
