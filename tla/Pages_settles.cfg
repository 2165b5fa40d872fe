\* One worker process that may be lost once; the broker always answers.
CONSTANTS
    root = root  docs = docs  index = index  about = about
    RowId = {i1, i2}
    Branch = {main}
    Commit = {c1, c2}
    Folder = {root}
    Page = {index}
    Tree <- Site
    Request = {q1, q2, q3}
    Worker = {w1}
    Faults = {"disk"}
    MaxLost = 1
SPECIFICATION FairSpec

INVARIANTS UnsettledHasBuild
PROPERTIES SiteSettles

\* The requests are bounded: the system may come to rest.
CHECK_DEADLOCK FALSE
