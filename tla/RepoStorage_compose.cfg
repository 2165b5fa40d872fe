\* docker-compose: API and worker share one volume that survives restarts.
CONSTANTS
    alice = alice  acme = acme  n1 = n1  n2 = n2  h1 = h1  h2 = h2
    Repo = {r1, r2}
    User = {alice}
    Org = {}
    OrgAdmin <- NoAdmins
    Handle = {h1}
    FirstHandle <- FirstNames
    Name = {n1}
    Slug <- OwnSlug
    Commit = {c1, c2}
    Thread = {t1, t2}
    Worker = {w1}
    EphemeralDisk = FALSE
    SharedDisk = TRUE
    NameIndexed = TRUE
    Faults = TRUE
    MaxCrashes = 1
SPECIFICATION Spec

INVARIANTS TypeOK UniqueNames RowsHaveStorage AcknowledgedCommitsKept
PROPERTIES ImplementsHostedRepos
CHECK_DEADLOCK FALSE
