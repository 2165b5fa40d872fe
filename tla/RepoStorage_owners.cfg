\* A wiped root, an organization, and a user who changes names: two repositories
\* may come to share an archive key.
CONSTANTS
    alice = alice  acme = acme  n1 = n1  n2 = n2  h1 = h1  h2 = h2
    Repo = {r1, r2}
    User = {alice}
    Org = {acme}
    OrgAdmin <- AliceIsAdmin
    Handle = {h1, h2}
    FirstHandle <- FirstNames
    Name = {n1}
    Slug <- OwnSlug
    Commit = {c1}
    Thread = {t1}
    Worker = {w1}
    EphemeralDisk = TRUE
    SharedDisk = TRUE
    NameIndexed = FALSE
    Faults = FALSE
    MaxCrashes = 1
SPECIFICATION Spec
SYMMETRY RepoSymmetry
INVARIANTS StartupCoversMissing NoForeignCommits
CHECK_DEADLOCK FALSE
