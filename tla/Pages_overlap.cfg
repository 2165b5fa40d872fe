\* Two worker processes (docker-compose), overlapping requests, any service may fail.
CONSTANTS
    root = root  docs = docs  index = index  about = about
    RowId = {i1, i2}
    Branch = {main, gh}
    Commit = {c1, c2}
    Folder = {root}
    Page = {index, about}
    Tree <- Site
    Request = {q1, q2, q3}
    Worker = {w1, w2}
    Faults = {"minio", "disk", "broker"}
    MaxLost = 0
SPECIFICATION Spec

INVARIANTS TypeOK PublishedFromOwnConfig PublishedPagesStored SettledIsCurrent
SYMMETRY PagesSymmetry

\* The requests are bounded: the system may come to rest.
CHECK_DEADLOCK FALSE
