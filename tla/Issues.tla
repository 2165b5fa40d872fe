------------------------------- MODULE Issues -------------------------------
(***************************************************************************)
(* The issues of one repository, with their labels, milestones and         *)
(* comments.  A request loads its issue, works on the copy, and commits    *)
(* the columns it changed and the label rows it deleted and added; other   *)
(* requests commit in between.  An issue is known to clients by its        *)
(* number, to the database by its row.                                     *)
(***************************************************************************)
EXTENDS Permissions

CONSTANTS
    Label,             \* label ids of the repository
    OtherLabel,        \* a label id of another repository
    Payload,           \* the label lists requests carry; {} for none
    Milestone,         \* milestone ids
    FirstIds,          \* the labels and milestones there are at first
    FirstAuthor,       \* the author of issue #1, which is open at first
    MaxIssues,         \* bound on issues created
    MaxComments,       \* bound on comments made
    IssueSlots,        \* requests the API serves at once
    MaxIssueRequests   \* bound on the requests served

IssueId == 1..MaxIssues
IssueSlot == 1..IssueSlots

ASSUME IssuesAssumption ==
    /\ OtherLabel \notin Label /\ Payload \subseteq SUBSET (Label \cup {OtherLabel})
    /\ Label \cap Milestone = {}
    /\ FirstIds \subseteq Label \cup Milestone /\ FirstAuthor \in Actor
    /\ MaxIssues \in Nat \ {0} /\ MaxComments \in Nat
    /\ IssueSlots \in Nat /\ MaxIssueRequests \in Nat

VARIABLES
    issues,      \* table issues with issue_labels: the rows, by insertion
    opened,      \* issues inserted so far
    labels,      \* labels that exist
    milestones,  \* milestones that exist
    unused,      \* label and milestone ids not drawn yet (uuid4)
    comments,    \* comments that exist, with the row they are on
    commented,   \* comments made so far
    work,        \* the requests in progress
    calls        \* requests received so far

issueVars == <<issues, opened, labels, milestones, unused, comments, commented, work,
               calls>>

issueTables == <<labels, milestones, unused, comments, commented>>

-----------------------------------------------------------------------------
(* Types *)

\* `closedAt`: closed_at is set; `milestone` and `author` are sets of at most one.
Issue == [number : 0..MaxIssues, state : {"open", "closed", "gone"}, author : SUBSET Actor,
          closedAt : BOOLEAN, locked : BOOLEAN, milestone : SUBSET Milestone,
          labels : SUBSET Label]

Comment == [id : 1..MaxComments, issue : IssueId, author : Actor]

\* `seen` is the row as loaded (for a creation, as it will be inserted), `asked`
\* the labels of the payload, `dropped` and `valid` what the DELETE and the
\* SELECT of a label replacement saw; `calm`: no other edit of the issue has
\* committed since.
IssueWork == [step : {"idle", "numbered", "loaded", "replaced", "answering", "commenting"},
              actor : SUBSET Actor, issue : 0..MaxIssues, seen : Issue,
              asked : SUBSET (Label \cup {OtherLabel}),
              dropped : SUBSET Label, valid : SUBSET Label, calm : BOOLEAN]

NoIssue == [number |-> 0, state |-> "gone", author |-> {}, closedAt |-> FALSE,
            locked |-> FALSE, milestone |-> {}, labels |-> {}]

NoWork == [step |-> "idle", actor |-> {}, issue |-> 0, seen |-> NoIssue, asked |-> {},
           dropped |-> {}, valid |-> {}, calm |-> TRUE]

IssuesTypeOK ==
    /\ issues \in [IssueId -> Issue] /\ opened \in 0..MaxIssues
    /\ labels \subseteq Label /\ milestones \subseteq Milestone
    /\ unused \subseteq (Label \cup Milestone) \ (labels \cup milestones)
    /\ comments \subseteq Comment /\ commented \in 0..MaxComments
    /\ work \in [IssueSlot -> IssueWork] /\ calls \in 0..MaxIssueRequests

IssuesInit ==
    /\ opened = 1
    /\ issues = [i \in IssueId |-> IF i > 1 THEN NoIssue
          ELSE [NoIssue EXCEPT !.number = 1, !.state = "open", !.author = {FirstAuthor}]]
    /\ labels = Label \cap FirstIds /\ milestones = Milestone \cap FirstIds
    /\ unused = (Label \cup Milestone) \ FirstIds
    /\ comments = {} /\ commented = 0
    /\ work = [q \in IssueSlot |-> NoWork] /\ calls = 0

-----------------------------------------------------------------------------
(* Helpers *)

IssueRows == {i \in 1..opened : issues[i].state # "gone"}

\* The level each handler of api/v1/issues.py asks of its caller.
IssueRoute == [create |-> "read", edit |-> "read", delete |-> "admin"]
CommentRoute == [create |-> "read", delete |-> "read"]
PlanningRoute == [label |-> "triage", milestone |-> "triage"]

\* A request comes in, on the first slot that is free.
Called(q) ==
    /\ calls < MaxIssueRequests /\ calls' = calls + 1
    /\ work[q].step = "idle" /\ \A r \in IssueSlot : r < q => work[r].step # "idle"

Done(q) == work' = [work EXCEPT ![q] = NoWork]

\* A request that one transaction of one statement serves.
AtOnce == calls < MaxIssueRequests /\ calls' = calls + 1 /\ UNCHANGED <<opened, work>>

-----------------------------------------------------------------------------
(* POST /issues *)

MaxIssueNumber ==
    CHOOSE n \in 0..MaxIssues : /\ \A i \in IssueRows : issues[i].number <= n
                                /\ n = 0 \/ \E i \in IssueRows : issues[i].number = n

\* _assign_next_number, on a database that accepts its SELECT, and the
\* validation of the labels.
NumberIssue(q, u, asked, ms) ==
    /\ Called(q) /\ opened < MaxIssues /\ Permitted(u, IssueRoute.create)
    /\ work' = [work EXCEPT ![q] = [NoWork EXCEPT !.step = "numbered", !.actor = {u},
          !.valid = asked \cap labels,
          !.seen = [NoIssue EXCEPT !.number = MaxIssueNumber + 1, !.state = "open",
                                   !.author = {u}, !.milestone = ms]]]
    /\ UNCHANGED <<issues, opened, issueTables>>

\* The commit of create_issue: the unique constraint and the foreign keys decide.
InsertIssue(q) ==
    LET row == [work[q].seen EXCEPT !.labels = work[q].valid]
        accepted == /\ \A i \in IssueRows : issues[i].number # row.number
                    /\ row.labels \subseteq labels /\ row.milestone \subseteq milestones
    IN  /\ work[q].step = "numbered" /\ opened < MaxIssues
        /\ \/ accepted /\ opened' = opened + 1
                       /\ issues' = [issues EXCEPT ![opened + 1] = row]
           \/ ~accepted /\ UNCHANGED <<issues, opened>>
        /\ Done(q)
        /\ UNCHANGED <<issueTables, calls>>

-----------------------------------------------------------------------------
(* PATCH /issues/{number}, POST close and reopen: issue_service.update_issue *)

LoadIssue(q, u, i, asked) ==
    /\ Called(q) /\ Permitted(u, IssueRoute.edit) /\ i \in IssueRows
    /\ work' = [work EXCEPT ![q] = [NoWork EXCEPT !.step = "loaded", !.actor = {u},
          !.issue = i, !.seen = issues[i], !.asked = asked]]
    /\ UNCHANGED <<issues, opened, issueTables>>

\* `asked = {OtherLabel}` stands for a payload whose labels are all of another
\* repository.  The DELETE and the SELECT see what is committed; their effect
\* is committed with the row.
ReplaceLabels(q) ==
    /\ work[q].step = "loaded" /\ work[q].asked # {}
    /\ work' = [work EXCEPT ![q].step = "replaced", ![q].dropped = issues[work[q].issue].labels,
                            ![q].valid = work[q].asked \cap labels]
    /\ UNCHANGED <<issues, opened, issueTables, calls>>

\* `author_id == actor.id or actor_permission >= TRIAGE`, spelled
MayChangeIssue(q) ==
    \/ work[q].actor = work[q].seen.author
    \/ \E u \in work[q].actor : ~SpelledBelow(LevelOf[u], "triage")

\* `not actor_permission < TRIAGE`, spelled
MayLock(q) == \E u \in work[q].actor : ~SpelledBelow(LevelOf[u], "triage")

\* Fault: closed_at is only written by a close.
Columns_KeepTime(row, seen, state, lock) ==
    [row EXCEPT
        !.state    = IF state # seen.state THEN state ELSE @,
        !.closedAt = IF state # seen.state /\ state = "closed" THEN TRUE ELSE @,
        !.locked   = IF lock # seen.locked THEN lock ELSE @]

\* The UPDATE names the columns whose value is not the loaded one; `state` and
\* `lock` equal to the loaded ones stand for a payload without them too.
Columns(row, seen, state, lock) ==
    [row EXCEPT
        !.state    = IF state # seen.state THEN state ELSE @,
        !.closedAt = IF state # seen.state THEN state = "closed" ELSE @,
        !.locked   = IF lock # seen.locked THEN lock ELSE @]

\* Fault: the old labels stay.
Relabel_Adds(row, dropped, valid) == [row EXCEPT !.labels = @ \cup valid]

Relabel(row, dropped, valid) == [row EXCEPT !.labels = (@ \ dropped) \cup valid]

\* The transaction: the row must still be there, the added labels must exist
\* and not be attached (PK of issue_labels); otherwise it fails as a whole.
CommitEdit(q, state, lock) ==
    LET w == work[q]
        row == issues[w.issue]
        refused == \/ state # w.seen.state /\ ~MayChangeIssue(q)
                   \/ lock # w.seen.locked /\ ~MayLock(q)
                   \/ row.state = "gone"
                   \/ ~(w.valid \subseteq labels)
                   \/ w.valid \cap (row.labels \ w.dropped) # {}
    IN  /\ w.step = IF w.asked = {} THEN "loaded" ELSE "replaced"
        /\ \/ /\ ~refused
              /\ issues' = [issues EXCEPT ![w.issue] =
                               Columns(Relabel(row, w.dropped, w.valid), w.seen, state, lock)]
              /\ work' = [r \in IssueSlot |->
                    IF r = q THEN [w EXCEPT !.step = "answering"]
                    ELSE [work[r] EXCEPT !.calm = @ /\ work[r].issue # w.issue]]
           \/ refused /\ Done(q) /\ UNCHANGED issues
        /\ UNCHANGED <<opened, issueTables, calls>>

\* The issue is read again and sent.
AnswerEdit(q) ==
    /\ work[q].step = "answering" /\ Done(q)
    /\ UNCHANGED <<issues, opened, issueTables, calls>>

\* A PATCH of the milestone only: the id is written as given, and looked up by
\* its foreign key alone.
SetMilestone(u, i, ms) ==
    /\ AtOnce /\ Permitted(u, IssueRoute.edit) /\ i \in IssueRows /\ ms \subseteq milestones /\ ms # {}
    /\ issues' = [issues EXCEPT ![i].milestone = ms]
    /\ UNCHANGED issueTables

\* DELETE /issues/{number}; labels, assignees and comments go with the row.
DeleteIssue(u, i) ==
    /\ AtOnce /\ Permitted(u, IssueRoute.delete) /\ i \in IssueRows
    /\ issues' = [issues EXCEPT ![i] = NoIssue]
    /\ comments' = {c \in comments : c.issue # i}
    /\ UNCHANGED <<labels, milestones, unused, commented>>

-----------------------------------------------------------------------------
(* Labels and milestones *)

\* Fault: an id that was drawn can be drawn again.
CreateLabel_Redraws(u, l) ==
    /\ AtOnce /\ Permitted(u, PlanningRoute.label) /\ l \in Label \cap unused
    /\ labels' = labels \cup {l} /\ UNCHANGED unused
    /\ UNCHANGED <<issues, milestones, comments, commented>>

CreateLabel(u, l) ==
    /\ AtOnce /\ Permitted(u, PlanningRoute.label) /\ l \in Label \cap unused
    /\ labels' = labels \cup {l} /\ unused' = unused \ {l}
    /\ UNCHANGED <<issues, milestones, comments, commented>>

\* issue_labels rows go with the label (ON DELETE CASCADE).
DeleteLabel(u, l) ==
    /\ AtOnce /\ Permitted(u, PlanningRoute.label) /\ l \in labels
    /\ labels' = labels \ {l}
    /\ issues' = [i \in IssueId |-> [issues[i] EXCEPT !.labels = @ \ {l}]]
    /\ UNCHANGED <<milestones, unused, comments, commented>>

CreateMilestone(u, ms) ==
    /\ AtOnce /\ Permitted(u, PlanningRoute.milestone) /\ ms \in Milestone \cap unused
    /\ milestones' = milestones \cup {ms} /\ unused' = unused \ {ms}
    /\ UNCHANGED <<issues, labels, comments, commented>>

\* issues.milestone_id is ON DELETE SET NULL.
DeleteMilestone(u, ms) ==
    /\ AtOnce /\ Permitted(u, PlanningRoute.milestone) /\ ms \in milestones
    /\ milestones' = milestones \ {ms}
    /\ issues' = [i \in IssueId |-> [issues[i] EXCEPT !.milestone = @ \ {ms}]]
    /\ UNCHANGED <<labels, unused, comments, commented>>

-----------------------------------------------------------------------------
(* Comments *)

\* create_comment loads the issue and looks at its lock.
StartComment(q, u, i) ==
    /\ Called(q) /\ Permitted(u, CommentRoute.create) /\ i \in IssueRows /\ ~issues[i].locked
    /\ work' = [work EXCEPT ![q] = [NoWork EXCEPT !.step = "commenting", !.actor = {u}, !.issue = i]]
    /\ UNCHANGED <<issues, opened, issueTables>>

\* The insert; the foreign key refuses a comment on a row that is gone.
InsertComment(q) ==
    /\ work[q].step = "commenting" /\ commented < MaxComments /\ Done(q)
    /\ \/ /\ work[q].issue \in IssueRows
          /\ commented' = commented + 1
          /\ \E u \in work[q].actor :
                comments' = comments \cup {[id |-> commented + 1, issue |-> work[q].issue, author |-> u]}
       \/ work[q].issue \notin IssueRows /\ UNCHANGED <<comments, commented>>
    /\ UNCHANGED <<issues, opened, labels, milestones, unused, calls>>

\* `comment.author_id != actor.id and actor_permission < WRITE`, spelled; an edit
\* of the text passes the same test and changes nothing kept here.
MayEditComment(u, c) == c.author = u \/ ~SpelledBelow(LevelOf[u], "write")

DeleteComment(u, c) ==
    /\ AtOnce /\ Permitted(u, CommentRoute.delete) /\ MayEditComment(u, c)
    /\ comments' = comments \ {c}
    /\ UNCHANGED <<issues, labels, milestones, unused, commented>>

RestartIssues ==
    /\ \E q \in IssueSlot : work[q].step # "idle"
    /\ work' = [q \in IssueSlot |-> NoWork]
    /\ UNCHANGED <<issues, opened, issueTables, calls>>

IssuesNext ==
    \/ \E q \in IssueSlot :
        \/ \E u \in Actor, asked \in Payload :
              \/ \E ms \in {{}} \cup {{m} : m \in Milestone} : NumberIssue(q, u, asked, ms)
              \/ \E i \in IssueId : LoadIssue(q, u, i, asked)
        \/ InsertIssue(q) \/ ReplaceLabels(q) \/ AnswerEdit(q) \/ InsertComment(q)
        \/ \E state \in {"open", "closed"}, lock \in BOOLEAN : CommitEdit(q, state, lock)
        \/ \E u \in Actor, i \in IssueId : StartComment(q, u, i)
    \/ \E u \in Actor :
        \/ \E i \in IssueId : DeleteIssue(u, i) \/ \E m \in Milestone : SetMilestone(u, i, {m})
        \/ \E l \in Label : CreateLabel(u, l) \/ DeleteLabel(u, l)
        \/ \E m \in Milestone : CreateMilestone(u, m) \/ DeleteMilestone(u, m)
        \/ \E c \in comments : DeleteComment(u, c)
    \/ RestartIssues

IssuesSpec == IssuesInit /\ [][IssuesNext]_issueVars

-----------------------------------------------------------------------------
(* Properties *)

\* closed_at is set exactly while an issue is closed, whatever stale copies the
\* closes and reopens that commit were computed from (update_issue).
ClosedExactlyTimed ==
    \A i \in IssueRows : issues[i].closedAt <=> issues[i].state = "closed"

\* "Labels - full replace if provided": an edit during whose label replacement no
\* other edit of the issue commits leaves the labels it named that exist.
CalmReplaceExact ==
    \A q \in IssueSlot :
        (/\ work[q].step = "answering" /\ work[q].calm /\ work[q].asked # {}
         /\ work[q].issue \in IssueRows)
        => issues[work[q].issue].labels = work[q].asked \cap work[q].valid \cap labels
=============================================================================
