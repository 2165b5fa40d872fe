------------------------------- MODULE Social -------------------------------
(***************************************************************************)
(* Stars and watches with their counters, followers, startups, and the     *)
(* rate limiter in front of the sign-in routes: small records that several *)
(* requests read first and write later.                                    *)
(*                                                                         *)
(* Source: backend/app/services/repo_service.py (star_repository to        *)
(* is_watching), backend/app/api/v1/auth.py (follow_user, unfollow_user),  *)
(* backend/app/services/startup_service.py, backend/app/core/rate_limit.py.*)
(***************************************************************************)
EXTENDS Naturals, FiniteSets

CONSTANTS
  Fan,            \* users
  Startup,        \* slugs of startups
  Client,         \* addresses the rate limiter counts
  Limit,          \* requests a client may make in one window
  SocialSlots,    \* requests in flight at once
  MaxVisits,      \* bound: requests
  MaxHits         \* bound: a counter of the rate limiter

ASSUME LimitAssumption == Limit \in Nat \ {0}
ASSUME VisitsAssumption == MaxVisits \in Nat /\ MaxHits \in Nat

VARIABLES
  marks,          \* repository_stars and repository_watchers of one repository
  tally,          \* its star_count and watcher_count
  disturbed,      \* counters that overlapping requests or a removal of nothing touched
  follows,        \* user_follows
  startups,       \* the creator of each startup, None without a row
  hits,           \* rate limiter: the counter of each client, 0 without a key
  timed,          \* clients whose counter has a time to live
  stuck,          \* clients whose EXPIRE failed, or whose request died before it
  visits,         \* the requests in flight
  arrived         \* how many of them were ever started

socialVars == <<marks, tally, disturbed, follows, startups, hits, timed, stuck, visits, arrived>>
popularity == <<marks, tally, disturbed>>
limiter == <<hits, timed, stuck>>

Mark == {"star", "watch"}
None == "none"
NoVisit == [kind |-> "idle", what |-> None, fan |-> None, whom |-> None, seen |-> 0]

SocialInit ==
  /\ marks = [k \in Mark |-> {}] /\ tally = [k \in Mark |-> 0] /\ disturbed = {}
  /\ follows = {} /\ startups = [s \in Startup |-> None]
  /\ hits = [c \in Client |-> 0] /\ timed = {} /\ stuck = {}
  /\ visits = [q \in SocialSlots |-> NoVisit] /\ arrived = 0

Visit(q, visit) ==
  /\ visits[q].kind = "idle" /\ \A r \in SocialSlots : r < q => visits[r].kind # "idle"
  /\ arrived < MaxVisits
  /\ visits' = [visits EXCEPT ![q] = visit]
  /\ arrived' = arrived + 1
GoOn(q, kind) == visits' = [visits EXCEPT ![q].kind = kind] /\ UNCHANGED arrived
Leave(q) == visits' = [visits EXCEPT ![q] = NoVisit] /\ UNCHANGED arrived

(***************************************************************************)
(* Stars and watches.  The repository is loaded with the request; its      *)
(* counter is written from what was read then.                             *)
(***************************************************************************)
LoadRepository(q, k, f, kind) ==
  /\ kind \in {"mark", "unmark"}
  /\ Visit(q, [NoVisit EXCEPT !.kind = kind, !.what = k, !.fan = f, !.seen = tally[k]])
  /\ disturbed' = IF \E o \in SocialSlots \ {q} : visits[o].what = k
                  THEN disturbed \cup {k} ELSE disturbed
  /\ UNCHANGED <<marks, tally, follows, startups, limiter>>

\* Fault: the counter goes up although the row was there.
AlreadyMarked_Counts(q) ==
  LET v == visits[q] IN
  /\ v.kind = "mark"
  /\ v.fan \in marks[v.what]
  /\ tally' = [tally EXCEPT ![v.what] = v.seen + 1]
  /\ Leave(q)
  /\ UNCHANGED <<marks, disturbed, follows, startups, limiter>>

AlreadyMarked(q) ==
  LET v == visits[q] IN
  /\ v.kind = "mark"
  /\ v.fan \in marks[v.what]
  /\ Leave(q)
  /\ UNCHANGED <<popularity, follows, startups, limiter>>

NotYetMarked(q) ==
  LET v == visits[q] IN
  /\ v.kind = "mark"
  /\ v.fan \notin marks[v.what]
  /\ GoOn(q, "marking")
  /\ UNCHANGED <<popularity, follows, startups, limiter>>

\* A second row of the same user breaks the primary key: nothing is written.
CommitMark(q) ==
  LET v == visits[q] IN
  /\ v.kind = "marking"
  /\ IF v.fan \in marks[v.what] THEN UNCHANGED <<marks, tally>>
     ELSE /\ marks' = [marks EXCEPT ![v.what] = @ \cup {v.fan}]
          /\ tally' = [tally EXCEPT ![v.what] = v.seen + 1]
  /\ Leave(q)
  /\ UNCHANGED <<disturbed, follows, startups, limiter>>

\* max(0, seen - 1) is written whether or not there was a row to delete; a
\* counter that was read as 0 is not written at all.
CommitUnmark(q) ==
  LET v == visits[q] IN
  /\ v.kind = "unmark"
  /\ marks' = [marks EXCEPT ![v.what] = @ \ {v.fan}]
  /\ tally' = IF v.seen = 0 THEN tally ELSE [tally EXCEPT ![v.what] = v.seen - 1]
  /\ disturbed' = IF v.fan \in marks[v.what] THEN disturbed ELSE disturbed \cup {v.what}
  /\ Leave(q)
  /\ UNCHANGED <<follows, startups, limiter>>

(***************************************************************************)
(* Followers.                                                              *)
(***************************************************************************)
CheckFollow(q, f, g) ==
  /\ f # g /\ <<f, g>> \notin follows
  /\ Visit(q, [NoVisit EXCEPT !.kind = "follow", !.fan = f, !.whom = g])
  /\ UNCHANGED <<popularity, follows, startups, limiter>>

\* The primary key refuses a second row.
InsertFollow(q) ==
  /\ visits[q].kind = "follow"
  /\ follows' = follows \cup {<<visits[q].fan, visits[q].whom>>}
  /\ Leave(q)
  /\ UNCHANGED <<popularity, startups, limiter>>

Unfollow(f, g) ==
  /\ <<f, g>> \in follows
  /\ follows' = follows \ {<<f, g>>}
  /\ UNCHANGED <<popularity, startups, limiter, visits, arrived>>

(***************************************************************************)
(* Startups: the slug is checked, then inserted with its founder.          *)
(***************************************************************************)
CheckSlug(q, f, s) ==
  /\ startups[s] = None
  /\ Visit(q, [NoVisit EXCEPT !.kind = "found", !.fan = f, !.whom = s])
  /\ UNCHANGED <<popularity, follows, startups, limiter>>

InsertStartup(q) ==
  LET v == visits[q] IN
  /\ v.kind = "found"
  /\ startups' = IF startups[v.whom] = None THEN [startups EXCEPT ![v.whom] = v.fan] ELSE startups
  /\ Leave(q)
  /\ UNCHANGED <<popularity, follows, limiter>>

(***************************************************************************)
(* RateLimiter.__call__: INCR, then EXPIRE for the first of a window.      *)
(***************************************************************************)
Increment(q, c) ==
  /\ hits[c] < MaxHits
  /\ hits' = [hits EXCEPT ![c] = @ + 1]
  /\ IF hits[c] = 0
     THEN Visit(q, [NoVisit EXCEPT !.kind = "expire", !.whom = c])
     ELSE UNCHANGED <<visits, arrived>>
  /\ UNCHANGED <<popularity, follows, startups, timed, stuck>>

\* Fault: only a refused request starts the window.
Expire_WhenRefused(q) ==
  LET c == visits[q].whom IN
  /\ visits[q].kind = "expire"
  /\ timed' = IF hits[c] > Limit THEN timed \cup {c} ELSE timed
  /\ Leave(q)
  /\ UNCHANGED <<popularity, follows, startups, hits, stuck>>

Expire(q) ==
  /\ visits[q].kind = "expire"
  /\ timed' = timed \cup {visits[q].whom}
  /\ Leave(q)
  /\ UNCHANGED <<popularity, follows, startups, hits, stuck>>

\* Redis cannot be reached: the request fails, the counter stays.
ExpireFails(q) ==
  /\ visits[q].kind = "expire"
  /\ stuck' = stuck \cup {visits[q].whom}
  /\ Leave(q)
  /\ UNCHANGED <<popularity, follows, startups, hits, timed>>

WindowEnds(c) ==
  /\ c \in timed
  /\ hits' = [hits EXCEPT ![c] = 0]
  /\ timed' = timed \ {c}
  /\ UNCHANGED <<popularity, follows, startups, stuck, visits, arrived>>

\* The API process restarts; Redis keeps its keys.
RestartSocial ==
  /\ \E q \in SocialSlots : visits[q].kind # "idle"
  /\ visits' = [q \in SocialSlots |-> NoVisit]
  /\ stuck' = stuck \cup {visits[q].whom : q \in {o \in SocialSlots : visits[o].kind = "expire"}}
  /\ UNCHANGED <<popularity, follows, startups, hits, timed, arrived>>

SocialNext ==
  \/ \E q \in SocialSlots :
       \/ \E k \in Mark, f \in Fan, kind \in {"mark", "unmark"} : LoadRepository(q, k, f, kind)
       \/ AlreadyMarked(q) \/ NotYetMarked(q) \/ CommitMark(q) \/ CommitUnmark(q)
       \/ \E f, g \in Fan : CheckFollow(q, f, g)
       \/ InsertFollow(q)
       \/ \E f \in Fan, s \in Startup : CheckSlug(q, f, s)
       \/ InsertStartup(q)
       \/ \E c \in Client : Increment(q, c)
       \/ Expire(q) \/ ExpireFails(q)
  \/ \E f, g \in Fan : Unfollow(f, g)
  \/ \E c \in Client : WindowEnds(c)
  \/ RestartSocial

SocialSpec == SocialInit /\ [][SocialNext]_socialVars

-----------------------------------------------------------------------------
SocialTypeOK ==
  /\ marks \in [Mark -> SUBSET Fan] /\ tally \in [Mark -> 0..MaxVisits]
  /\ disturbed \subseteq Mark /\ follows \subseteq Fan \X Fan
  /\ startups \in [Startup -> Fan \cup {None}]
  /\ hits \in [Client -> 0..MaxHits] /\ timed \subseteq Client /\ stuck \subseteq Client
  /\ visits \in [SocialSlots ->
        [kind : {"idle", "mark", "marking", "unmark", "follow", "found", "expire"},
         what : Mark \cup {None}, fan : Fan \cup {None},
         whom : Fan \cup Startup \cup Client \cup {None}, seen : 0..MaxVisits]]
  /\ arrived \in 0..MaxVisits

\* The counter a repository shows is the number of its stars (or watches)
\* unless requests for it overlapped or somebody took back a star that was
\* not there: nothing else makes them differ.
CalmCountExact == \A k \in Mark \ disturbed : tally[k] = Cardinality(marks[k])

\* A client over the limit is let in again at the end of a window, unless the
\* EXPIRE of the window's first request failed or never came: its counter has a
\* time to live, or is just being given one.
RefusalEnds ==
  \A c \in Client \ stuck :
    hits[c] > Limit => c \in timed \/ \E q \in SocialSlots : visits[q].whom = c

=============================================================================
