\* A user changes names between a backup and a restart.
CONSTANTS
    alice = alice  acme = acme  n1 = n1  n2 = n2  h1 = h1  h2 = h2
    Repo = {r1}
    User = {alice}
    Org = {}
    OrgAdmin <- NoAdmins
    Handle = {h1, h2}
    FirstHandle <- FirstNames
    Name = {n1}
    Slug <- OwnSlug
    Commit = {c1}
    Thread = {t1}
    Worker = {w1}
    EphemeralDisk = TRUE
    SharedDisk = FALSE
    NameIndexed = TRUE
    Faults = FALSE
    MaxCrashes = 1
SPECIFICATION Spec
PROPERTIES RestoredIfBackedUp
CHECK_DEADLOCK FALSE
