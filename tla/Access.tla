------------------------------- MODULE Access -------------------------------
(***************************************************************************)
(* Who may do what with a repository: its owner, the members and teams of  *)
(* the organization, direct collaborators and the visibility.  A request   *)
(* passes its gate first (_require_org_owner, require_repo_permission) and *)
(* writes later; whoever let it in may have lost the right in between.     *)
(***************************************************************************)
EXTENDS Permissions

CONSTANTS
    Person,        \* users
    Anonymous,     \* the caller without a token
    Repository,
    OwnerOf,       \* the person each repository belongs to, or Organization
    Organization,  \* the organization
    FirstOwner,    \* the person who made it
    Team,
    TeamGrant,     \* rows of team_repositories, which no request writes
    Granted,       \* levels that are given to collaborators
    MaxChanges     \* bound on requests

ASSUME AccessAssumption ==
    /\ Anonymous \notin Person /\ Organization \notin Person
    /\ FirstOwner \in Person
    /\ OwnerOf \in [Repository -> Person \cup {Organization}]
    /\ TeamGrant \subseteq [team : Team, repo : {r \in Repository : OwnerOf[r] = Organization},
                            level : PermissionLevel]
    /\ Granted \subseteq PermissionLevel /\ MaxChanges \in Nat

VARIABLES
    org,         \* the organization exists
    role,        \* the role each person has in the organization
    teams,       \* teams that exist
    teammates,   \* rows of team_members
    collab,      \* rows of repository_collaborators
    visibility,  \* of every repository that exists
    gated,       \* requests that have passed their gate
    changes      \* requests so far

accessVars == <<org, role, teams, teammates, collab, visibility, gated, changes>>

grants == <<org, role, teams, teammates, collab, visibility>>

-----------------------------------------------------------------------------
(* Types *)

NoRole == "stranger"

Visibility == {"public", "internal", "private"}

Change == {"members", "teams", "delete", "repository"}

\* `entitled`: the actor had the right the gate asked for when it was let in.
Gate == [actor : Person, to : Change, on : Repository \cup {Organization}, entitled : BOOLEAN]

AccessTypeOK ==
    /\ org \in BOOLEAN
    /\ role \in [Person -> {"owner", "admin", "member", NoRole}]
    /\ teams \subseteq Team
    /\ teammates \subseteq Person \X Team
    /\ collab \in [Repository \X Person -> PermissionLevel \cup {NoAccess}]
    /\ visibility \in [Repository -> Visibility \cup {"gone"}]
    /\ gated \subseteq Gate /\ changes \in 0..MaxChanges

-----------------------------------------------------------------------------
(* permissions/resolver.py *)

TeamLevels(u, r) == {g.level : g \in {h \in TeamGrant : h.repo = r /\ <<u, h.team>> \in teammates}}

\* The loop over the team grants, in whatever order the rows come.
Highest(levels, first) ==
    CHOOSE l \in levels \cup {first} :
        \A k \in levels \cup {first} : MaxLevel(l, k) = l

Resolve(u, r) ==
    LET effective == Highest(TeamLevels(u, r), IF u \in Person THEN collab[<<r, u>>] ELSE NoAccess)
        owner     == \/ OwnerOf[r] = u
                     \/ OwnerOf[r] = Organization /\ role[u] \in {"owner", "admin"}
    IN  IF visibility[r] = "gone" THEN NoAccess                       \* a 404 before
        ELSE IF u \in Person /\ owner THEN "admin"
        ELSE IF u \in Person /\ effective # NoAccess THEN effective
        ELSE IF visibility[r] = "public" \/ (visibility[r] = "internal" /\ u \in Person) THEN "read"
        ELSE NoAccess

-----------------------------------------------------------------------------
(* The gates *)

IsOrgOwner(u) == role[u] = "owner"

Let(u, to, on, entitled) ==
    /\ changes < MaxChanges /\ changes' = changes + 1
    /\ gated' = gated \cup {[actor |-> u, to |-> to, on |-> on, entitled |-> entitled]}
    /\ UNCHANGED grants

\* _require_org_owner
OwnerGate(u, to) ==
    /\ to \in {"members", "teams", "delete"} /\ IsOrgOwner(u)
    /\ Let(u, to, Organization, role[u] = "owner")

\* Fault: the gate of the collaborator and settings routes is WRITE.
AdminGate_Write(u, r) ==
    /\ MeetsMinimum(Resolve(u, r), "write")
    /\ Let(u, "repository", r, Resolve(u, r) = "admin")

\* require_repo_permission(ADMIN, allow_anonymous=False)
AdminGate(u, r) ==
    /\ MeetsMinimum(Resolve(u, r), "admin")
    /\ Let(u, "repository", r, Resolve(u, r) = "admin")

\* A request that has passed its gate does its work.
Acts(to, on) ==
    /\ \E g \in gated : g.to = to /\ g.on = on /\ gated' = gated \ {g}
    /\ UNCHANGED changes

-----------------------------------------------------------------------------
(* api/v1/orgs.py *)

\* The name is free; its maker is the first owner, and it has no repository yet.
CreateOrg(u) ==
    /\ changes < MaxChanges /\ changes' = changes + 1
    /\ ~org /\ org' = TRUE /\ role' = [role EXCEPT ![u] = "owner"]
    /\ UNCHANGED <<teams, teammates, collab, visibility, gated>>

\* uq_org_member refuses a second row for a member.
AddMember(u, as) ==
    /\ Acts("members", Organization) /\ org /\ role[u] = NoRole
    /\ role' = [role EXCEPT ![u] = as]
    /\ UNCHANGED <<org, teams, teammates, collab, visibility>>

\* Of the last owner too; places in teams are kept.
RemoveMember(u) ==
    /\ Acts("members", Organization) /\ role[u] # NoRole
    /\ role' = [role EXCEPT ![u] = NoRole]
    /\ UNCHANGED <<org, teams, teammates, collab, visibility>>

CreateTeam(t) ==
    /\ Acts("teams", Organization) /\ org /\ t \notin teams
    /\ teams' = teams \cup {t}
    /\ UNCHANGED <<org, role, teammates, collab, visibility>>

\* Its members and grants go with it; the name may be used again, by a team
\* without grants: one team of a name is enough here.
DeleteTeam(t) ==
    /\ Acts("teams", Organization) /\ t \in teams
    /\ teams' = teams \ {t} /\ teammates' = {m \in teammates : m[2] # t}
    /\ UNCHANGED <<org, role, collab, visibility>>

\* The user need not be a member of the organization.
AddTeamMember(u, t) ==
    /\ Acts("teams", Organization) /\ t \in teams /\ <<u, t>> \notin teammates
    /\ teammates' = teammates \cup {<<u, t>>}
    /\ UNCHANGED <<org, role, teams, collab, visibility>>

RemoveTeamMember(u, t) ==
    /\ Acts("teams", Organization) /\ <<u, t>> \in teammates
    /\ teammates' = teammates \ {<<u, t>>}
    /\ UNCHANGED <<org, role, teams, collab, visibility>>

\* Members, teams and repositories go with the organization.
DeleteOrg ==
    /\ Acts("delete", Organization) /\ org /\ org' = FALSE
    /\ role' = [u \in Person |-> NoRole] /\ teams' = {} /\ teammates' = {}
    /\ visibility' = [r \in Repository |-> IF OwnerOf[r] = Organization THEN "gone" ELSE visibility[r]]
    /\ collab' = [c \in Repository \X Person |->
                     IF OwnerOf[c[1]] = Organization THEN NoAccess ELSE collab[c]]

-----------------------------------------------------------------------------
(* repo_service: collaborators *)

AddCollaborator(r, u, level) ==
    /\ Acts("repository", r) /\ visibility[r] # "gone"
    /\ collab' = [collab EXCEPT ![<<r, u>>] = level]
    /\ UNCHANGED <<org, role, teams, teammates, visibility>>

RemoveCollaborator(r, u) ==
    /\ Acts("repository", r)
    /\ collab' = [collab EXCEPT ![<<r, u>>] = NoAccess]
    /\ UNCHANGED <<org, role, teams, teammates, visibility>>

\* update_repository: visibility is one of the fields of the payload.
SetVisibility(r, v) ==
    /\ Acts("repository", r) /\ visibility[r] \notin {v, "gone"}
    /\ visibility' = [visibility EXCEPT ![r] = v]
    /\ UNCHANGED <<org, role, teams, teammates, collab>>

\* delete_repository; its collaborators go with the row.
DeleteRepository(r) ==
    /\ Acts("repository", r) /\ visibility[r] # "gone"
    /\ visibility' = [visibility EXCEPT ![r] = "gone"]
    /\ collab' = [c \in Repository \X Person |-> IF c[1] = r THEN NoAccess ELSE collab[c]]
    /\ UNCHANGED <<org, role, teams, teammates>>

AccessInit ==
    /\ org = TRUE /\ role = [u \in Person |-> IF u = FirstOwner THEN "owner" ELSE NoRole]
    /\ teams = {} /\ teammates = {}
    /\ collab = [c \in Repository \X Person |-> NoAccess]
    /\ visibility = [r \in Repository |-> "private"]
    /\ gated = {} /\ changes = 0

AccessNext ==
    \/ \E u \in Person :
        \/ CreateOrg(u) \/ RemoveMember(u)
        \/ \E to \in Change : OwnerGate(u, to)
        \/ \E r \in Repository :
              \/ AdminGate(u, r) \/ RemoveCollaborator(r, u)
              \/ \E level \in Granted : AddCollaborator(r, u, level)
        \/ \E as \in {"owner", "admin", "member"} : AddMember(u, as)
        \/ \E t \in Team : AddTeamMember(u, t) \/ RemoveTeamMember(u, t)
    \/ \E t \in Team : CreateTeam(t) \/ DeleteTeam(t)
    \/ \E r \in Repository : DeleteRepository(r) \/ \E v \in Visibility : SetVisibility(r, v)
    \/ DeleteOrg

AccessSpec == AccessInit /\ [][AccessNext]_accessVars

-----------------------------------------------------------------------------
(* Properties *)

\* Everything that entitles a caller to a level of a repository.
Entitlements(u, r) ==
    {l \in PermissionLevel :
        \/ l = "admin" /\ u \in Person /\ OwnerOf[r] = u
        \/ /\ l = "admin" /\ u \in Person /\ OwnerOf[r] = Organization
           /\ role[u] \in {"owner", "admin"}
        \/ u \in Person /\ collab[<<r, u>>] = l
        \/ l \in TeamLevels(u, r)
        \/ l = "read" /\ visibility[r] = "public"
        \/ l = "read" /\ visibility[r] = "internal" /\ u \in Person}

\* The resolver, with its early returns and its fallback, gives every caller the
\* highest level anything entitles him to, and none when nothing does.
ResolvesHighest ==
    \A u \in Person \cup {Anonymous}, r \in Repository :
        visibility[r] # "gone" =>
            LET entitled == Entitlements(u, r)
                level    == Resolve(u, r)
            IN  IF entitled = {} THEN level = NoAccess
                ELSE level \in entitled /\ \A l \in entitled : MeetsMinimum(level, l)

\* Nobody's level of a repository goes up but by a request of someone who was an
\* owner of the organization, or an administrator of that repository, when the
\* request was let in; no chain of lesser rights gives a right.
RaisedByEntitled ==
    [][grants' # grants => \A u \in Person \cup {Anonymous}, r \in Repository :
          (Resolve(u, r)' # NoAccess /\ ~MeetsMinimum(Resolve(u, r), Resolve(u, r)')) =>
              \E g \in gated \ gated' : g.entitled /\ g.on \in {r, OwnerOf[r]}]_accessVars
=============================================================================
