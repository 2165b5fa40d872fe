\* Two builds of two commits, then the site is disabled; nothing fails.
CONSTANTS
    root = root  docs = docs  index = index  about = about
    RowId = {i1, i2}
    Branch = {main}
    Commit = {c1, c2}
    Folder = {root}
    Page = {index}
    Tree <- Site
    Request = {q1, q2, q3}
    Worker = {w1}
    Faults = {}
    MaxLost = 0
SPECIFICATION Spec

PROPERTIES DisableRemovesArtifacts

\* The requests are bounded: the system may come to rest.
CHECK_DEADLOCK FALSE
