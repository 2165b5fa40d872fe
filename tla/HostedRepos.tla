---------------------------- MODULE HostedRepos ----------------------------
(***************************************************************************)
(* What the hosting service promises its clients: a set of repositories,   *)
(* each of them a growing set of commits.  Nothing but a push, an upload   *)
(* or a merge into a repository changes what it holds, nothing but a       *)
(* deletion ends it, and commits travel between repositories only by a     *)
(* fork.                                                                   *)
(***************************************************************************)
CONSTANTS Repo, Commit

VARIABLE content  \* the commits of every repository that exists

Existing == DOMAIN content
Known    == UNION {content[r] : r \in Existing}

With(r, C) == [s \in Existing \cup {r} |-> IF s = r THEN C ELSE content[s]]

Init == content = [r \in {} |-> {}]

\* A new repository is empty or starts with commits nobody else has.
Create(r, C) ==
    /\ r \notin Existing
    /\ C \cap Known = {}
    /\ content' = With(r, C)

\* A fork starts with what its source held at some moment of the request.
Fork(r, s, C) ==
    /\ r \notin Existing /\ s \in Existing
    /\ C \subseteq content[s]
    /\ content' = With(r, C)

Write(r, c) ==
    /\ r \in Existing
    /\ c \notin Known
    /\ content' = With(r, content[r] \cup {c})

\* One repository, or all those of an organization.
Delete(D) == content' = [r \in Existing \ D |-> content[r]]

Next ==
    \/ \E r \in Repo, C \in SUBSET Commit :
          Create(r, C) \/ \E s \in Repo : Fork(r, s, C)
    \/ \E r \in Repo, c \in Commit : Write(r, c)
    \/ \E D \in SUBSET Repo : Delete(D)

Spec == Init /\ [][Next]_content

=============================================================================
