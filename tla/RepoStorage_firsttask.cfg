\* Liveness of the first backup: docker-compose, one repository, lossy workers.
CONSTANTS
    alice = alice  acme = acme  n1 = n1  n2 = n2  h1 = h1  h2 = h2
    Repo = {r1}
    User = {alice}
    Org = {}
    OrgAdmin <- NoAdmins
    Handle = {h1}
    FirstHandle <- FirstNames
    Name = {n1}
    Slug <- OwnSlug
    Commit = {c1, c2}
    Thread = {t1}
    Worker = {w1}
    EphemeralDisk = FALSE
    SharedDisk = TRUE
    NameIndexed = TRUE
    Faults = FALSE
    MaxCrashes = 2
SPECIFICATION FairSpec
PROPERTIES QueuedBackupArrives
CHECK_DEADLOCK FALSE
