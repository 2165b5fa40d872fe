--------------------------- MODULE MCRepoStorage ---------------------------
(* Instances of RepoStorage for TLC. *)
EXTENDS RepoStorage, TLC

CONSTANTS alice, acme, n1, n2, h1, h2

OneSlug == [n \in Name |-> "slug"]
OwnSlug == [n \in Name |-> n]

FirstNames == [o \in Owner |-> IF o = alice THEN h1 ELSE h2]
NoAdmins   == {}
AliceIsAdmin == {<<alice, acme>>}

RepoSymmetry == Permutations(Repo) \cup Permutations(Commit)
=============================================================================
