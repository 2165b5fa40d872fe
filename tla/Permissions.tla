---------------------------- MODULE Permissions ----------------------------
(***************************************************************************)
(* Permission levels and the two ways the backend compares them: by the    *)
(* resolver's rank table, and with Python's `<` on an enum that is a str.  *)
(***************************************************************************)
EXTENDS Naturals, FiniteSets, Sequences

CONSTANTS
    Actor,     \* users
    LevelOf    \* the level resolve_permission gives each on the repository

NoAccess == "none"

\* _LEVEL_RANK
LevelRank == [read |-> 1, triage |-> 2, write |-> 3, maintain |-> 4, admin |-> 5]

PermissionLevel == DOMAIN LevelRank

\* Fault: the lower of two grants wins.
MaxLevel_Lower(a, b) ==
    CASE a = NoAccess -> b
      [] b = NoAccess -> a
      [] OTHER        -> IF LevelRank[a] >= LevelRank[b] THEN b ELSE a

MaxLevel(a, b) ==
    CASE a = NoAccess -> b
      [] b = NoAccess -> a
      [] OTHER        -> IF LevelRank[a] >= LevelRank[b] THEN a ELSE b

MeetsMinimum(resolved, minimum) ==
    resolved # NoAccess /\ LevelRank[resolved] >= LevelRank[minimum]

ASSUME LevelsAssumption == LevelOf \in [Actor -> PermissionLevel \cup {NoAccess}]

\* require_repo_permission(minimum)
Permitted(u, minimum) == MeetsMinimum(LevelOf[u], minimum)

\* PermissionLevel is a str, and `a < b` compares the spelled values: this is
\* each value's place in the alphabet.
Spelling == [admin |-> 1, maintain |-> 2, read |-> 3, triage |-> 4, write |-> 5]

SpelledBelow(a, b) == Spelling[a] < Spelling[b]
=============================================================================
