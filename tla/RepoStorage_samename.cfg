\* The schema the head migration leaves: two creations with one name overlap.
CONSTANTS
    alice = alice  acme = acme  n1 = n1  n2 = n2  h1 = h1  h2 = h2
    Repo = {r1, r2}
    User = {alice}
    Org = {}
    OrgAdmin <- NoAdmins
    Handle = {h1}
    FirstHandle <- FirstNames
    Name = {n1}
    Slug <- OwnSlug
    Commit = {c1}
    Thread = {t1}
    Worker = {w1}
    EphemeralDisk = FALSE
    SharedDisk = TRUE
    NameIndexed = FALSE
    Faults = FALSE
    MaxCrashes = 0
SPECIFICATION Spec
INVARIANTS OneRowPerName
CHECK_DEADLOCK FALSE
