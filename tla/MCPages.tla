------------------------------ MODULE MCPages ------------------------------
(* Instances of Pages for TLC. *)
EXTENDS Pages, TLC

CONSTANTS root, docs, index, about

\* Every commit has both pages at its root and a docs folder with one of them.
Site == [c \in Commit |-> [f \in Folder |-> IF f = root THEN Page ELSE {index}]]

PagesSymmetry == Permutations(RowId) \cup Permutations(Request) \cup Permutations(Worker)
                 \cup Permutations(Branch)
=============================================================================
