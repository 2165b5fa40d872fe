------------------------------ MODULE Sessions ------------------------------
(***************************************************************************)
(* The sessions of one account: refresh tokens and their rotation, the     *)
(* ways of ending all of them (password change, password reset, a token    *)
(* presented twice), two-factor challenges and the two-factor secret.      *)
(*                                                                         *)
(* Source: backend/app/services/auth_service.py with its routes in         *)
(* backend/app/api/v1/auth.py.  Every request has a database session of    *)
(* its own: rows are read first, changed columns are written at the        *)
(* commit, and an UPDATE that finds its row deleted fails the request.     *)
(* Access tokens are stateless and carry no rows; they are not modelled.   *)
(***************************************************************************)
EXTENDS Naturals, Sequences, FiniteSets

CONSTANTS
  SessionSlots,   \* requests in flight at once
  MaxTokens,      \* bound: refresh tokens ever issued
  MaxEnded,       \* bound: times all sessions are ended
  MaxResets,      \* bound: reset mails
  MaxSessionRequests  \* bound: requests that read first and write later

ASSUME SessionsAssumption == MaxTokens \in Nat /\ MaxEnded \in Nat /\ MaxSessionRequests \in Nat

VARIABLES
  tokens,         \* refresh_tokens in the order of issue
  ended,          \* how often every session of the account was ended
  resets,         \* password_reset_tokens in the order of issue
  challenges,     \* two-factor challenges not yet expired, by the count they were signed at
  twofactor,      \* users.two_factor_enabled and whether a secret is stored
  signing,        \* the requests in flight
  started         \* how many of them were ever started

sessionVars == <<tokens, ended, resets, challenges, twofactor, signing, started>>

Idle == [kind |-> "idle", since |-> 0, about |-> 0, doomed |-> {}, met |-> FALSE]
Busy(s) == signing[s].kind # "idle"

SessionsInit ==
  /\ tokens = <<>> /\ ended = 0 /\ resets = <<>> /\ challenges = {}
  /\ twofactor = [enabled |-> FALSE, secret |-> FALSE]
  /\ signing = [s \in SessionSlots |-> Idle] /\ started = 0

\* Request t holds the same token to exchange, or the same reset mail.
Stage(kind) == IF kind = "ending" THEN "end" ELSE kind
Presents(t, kind, about) ==
  about # 0 /\ signing[t].about = about /\ Stage(signing[t].kind) = kind

\* A request starts; it and those in flight that presented the same have met.
Start(s, kind, since, about) ==
  /\ ~Busy(s) /\ \A t \in SessionSlots : t < s => Busy(t)
  /\ started < MaxSessionRequests
  /\ started' = started + 1
  /\ signing' = [t \in SessionSlots |->
        IF t = s THEN [Idle EXCEPT !.kind = kind, !.since = since, !.about = about,
                                   !.met = \E u \in SessionSlots : Presents(u, kind, about)]
        ELSE [signing[t] EXCEPT !.met = @ \/ Presents(t, kind, about)]]

Finish(s) == signing' = [signing EXCEPT ![s] = Idle]

Present(i) == tokens[i].state # "gone"

\* issue_token_pair: the new row of a login (parent 0) or of a rotation.
\* "since" is the count at which the password, code or provider was checked;
\* "late" marks a token written when that check was already outdated.
NewToken(parent, since, s) ==
  [state |-> "live", parent |-> parent, since |-> since, met |-> signing[s].met,
   late |-> IF parent = 0 THEN since < ended ELSE tokens[parent].late]

(***************************************************************************)
(* Signing in.                                                             *)
(***************************************************************************)
\* authenticate_password without two factors; the pair is issued later.
Login(s) ==
  /\ ~twofactor.enabled
  /\ Start(s, "issue", ended, 0)
  /\ UNCHANGED <<tokens, ended, resets, challenges, twofactor>>

\* ... with two factors the answer is a signed challenge, no row.
LoginChallenged ==
  /\ twofactor.enabled
  /\ challenges' = challenges \cup {ended}
  /\ UNCHANGED <<tokens, ended, resets, twofactor, signing, started>>

\* The right code for a challenge: it is not consumed and may be used again.
AnswerChallenge(s) ==
  /\ twofactor.enabled /\ twofactor.secret
  /\ \E c \in challenges : Start(s, "issue", c, 0)
  /\ UNCHANGED <<tokens, ended, resets, challenges, twofactor>>

ChallengeExpires ==
  /\ \E c \in challenges : challenges' = challenges \ {c}
  /\ UNCHANGED <<tokens, ended, resets, twofactor, signing, started>>

\* A linked provider account signs in: no second factor is asked for.
OAuthLogin(s) ==
  /\ Start(s, "issue", ended, 0)
  /\ UNCHANGED <<tokens, ended, resets, challenges, twofactor>>

IssuePair(s) ==
  /\ signing[s].kind = "issue"
  /\ Len(tokens) < MaxTokens
  /\ tokens' = Append(tokens, NewToken(0, signing[s].since, s))
  /\ Finish(s)
  /\ UNCHANGED <<ended, resets, challenges, twofactor, started>>

(***************************************************************************)
(* Rotation and logout.                                                    *)
(***************************************************************************)
\* rotate_refresh_token reads the record: a live one is exchanged, a revoked
\* or expired one ends every session.
PresentToken(s) ==
  /\ \E i \in DOMAIN tokens :
        /\ Present(i)
        /\ Start(s, IF tokens[i].state = "live" THEN "rotate" ELSE "end", 0,
                 IF tokens[i].state = "live" THEN i ELSE 0)
  /\ UNCHANGED <<tokens, ended, resets, challenges, twofactor>>

\* Fault: the pair is issued although the row it is exchanged for is gone.
Rotate_Unchecked(s) ==
  /\ signing[s].kind = "rotate" /\ Len(tokens) < MaxTokens
  /\ LET i == signing[s].about IN
     tokens' = Append([tokens EXCEPT ![i].state = IF @ = "gone" THEN @ ELSE "revoked"],
                      NewToken(i, tokens[i].since, s))
  /\ Finish(s)
  /\ UNCHANGED <<ended, resets, challenges, twofactor, started>>

\* Fault: the exchanged token stays valid.
Rotate_KeepsOld(s) ==
  /\ signing[s].kind = "rotate" /\ Len(tokens) < MaxTokens
  /\ LET i == signing[s].about IN
     tokens' = IF Present(i) THEN Append(tokens, NewToken(i, tokens[i].since, s)) ELSE tokens
  /\ Finish(s)
  /\ UNCHANGED <<ended, resets, challenges, twofactor, started>>

\* One commit revokes the old row and inserts the new one; an UPDATE that
\* finds no row raises StaleDataError and the whole commit is rolled back.
Rotate(s) ==
  /\ signing[s].kind = "rotate"
  /\ Len(tokens) < MaxTokens
  /\ LET i == signing[s].about IN
     tokens' = IF Present(i)
               THEN Append([tokens EXCEPT ![i].state = "revoked"],
                           NewToken(i, tokens[i].since, s))
               ELSE tokens
  /\ Finish(s)
  /\ UNCHANGED <<ended, resets, challenges, twofactor, started>>

Logout ==
  /\ \E i \in DOMAIN tokens :
        Present(i) /\ tokens' = [tokens EXCEPT ![i].state = "gone"]
  /\ UNCHANGED <<ended, resets, challenges, twofactor, signing, started>>

TokenExpires ==
  /\ \E i \in DOMAIN tokens :
        tokens[i].state = "live" /\ tokens' = [tokens EXCEPT ![i].state = "expired"]
  /\ UNCHANGED <<ended, resets, challenges, twofactor, signing, started>>

(***************************************************************************)
(* Ending every session: change_password, confirm_password_reset and the   *)
(* answer to a token that was used before.                                 *)
(***************************************************************************)
ChangePassword(s) ==
  /\ Start(s, "end", 0, 0)
  /\ UNCHANGED <<tokens, ended, resets, challenges, twofactor>>

RequestReset ==
  /\ Len(resets) < MaxResets
  /\ resets' = Append(resets, [state |-> "fresh", uses |-> 0, calm |-> 0])
  /\ UNCHANGED <<tokens, ended, challenges, twofactor, signing, started>>

ResetExpires ==
  /\ \E r \in DOMAIN resets :
        resets[r].state = "fresh" /\ resets' = [resets EXCEPT ![r].state = "expired"]
  /\ UNCHANGED <<tokens, ended, challenges, twofactor, signing, started>>

\* The record is read; used and expired ones are refused.
ConfirmReset(s) ==
  /\ \E r \in DOMAIN resets : resets[r].state = "fresh" /\ Start(s, "end", 0, r)
  /\ UNCHANGED <<tokens, ended, resets, challenges, twofactor>>

\* DELETE sees the rows committed when the statement starts.
ExecuteDelete(s) ==
  /\ signing[s].kind = "end"
  /\ signing' = [signing EXCEPT ![s].kind = "ending",
                                ![s].doomed = {i \in DOMAIN tokens : Present(i)}]
  /\ UNCHANGED <<tokens, ended, resets, challenges, twofactor, started>>

\* The commit; a token issued since the statement started is not deleted.
CommitDelete(s) ==
  /\ signing[s].kind = "ending"
  /\ ended < MaxEnded
  /\ ended' = ended + 1
  /\ tokens' = [i \in DOMAIN tokens |->
        IF i \in signing[s].doomed THEN [tokens[i] EXCEPT !.state = "gone"]
        ELSE [tokens[i] EXCEPT !.late = @ \/ Present(i)]]
  /\ LET r == signing[s].about IN
     resets' = IF r = 0 THEN resets
               ELSE [resets EXCEPT ![r].state = "used", ![r].uses = @ + 1,
                                   ![r].calm = IF signing[s].met THEN @ ELSE @ + 1]
  /\ Finish(s)
  /\ UNCHANGED <<challenges, twofactor, started>>

(***************************************************************************)
(* The second factor.                                                      *)
(***************************************************************************)
\* The code was checked against the secret the client sent back; the user
\* row had been read when the request was authenticated.
EnableTwoFactor(s) ==
  /\ Start(s, "enable", 0, IF twofactor.enabled THEN 1 ELSE 0)
  /\ UNCHANGED <<tokens, ended, resets, challenges, twofactor>>

\* Only changed columns are written: a flag read as set is not set again.
CommitEnable(s) ==
  /\ signing[s].kind = "enable"
  /\ twofactor' = [enabled |-> twofactor.enabled \/ signing[s].about = 0, secret |-> TRUE]
  /\ Finish(s)
  /\ UNCHANGED <<tokens, ended, resets, challenges, started>>

DisableTwoFactor(s) ==
  /\ twofactor.enabled /\ twofactor.secret
  /\ Start(s, "disable", 0, 0)
  /\ UNCHANGED <<tokens, ended, resets, challenges, twofactor>>

CommitDisable(s) ==
  /\ signing[s].kind = "disable"
  /\ twofactor' = [enabled |-> FALSE, secret |-> FALSE]
  /\ Finish(s)
  /\ UNCHANGED <<tokens, ended, resets, challenges, started>>

\* The process ends: open transactions are rolled back.
RestartSessions ==
  /\ \E s \in SessionSlots : Busy(s)
  /\ signing' = [s \in SessionSlots |-> Idle]
  /\ UNCHANGED <<tokens, ended, resets, challenges, twofactor, started>>

SessionsNext ==
  \/ \E s \in SessionSlots :
        \/ Login(s) \/ AnswerChallenge(s) \/ OAuthLogin(s) \/ IssuePair(s)
        \/ PresentToken(s) \/ Rotate(s)
        \/ ChangePassword(s) \/ ConfirmReset(s) \/ ExecuteDelete(s) \/ CommitDelete(s)
        \/ EnableTwoFactor(s) \/ CommitEnable(s) \/ DisableTwoFactor(s) \/ CommitDisable(s)
  \/ LoginChallenged \/ ChallengeExpires \/ Logout \/ TokenExpires
  \/ RequestReset \/ ResetExpires
  \/ RestartSessions

SessionsSpec == SessionsInit /\ [][SessionsNext]_sessionVars

-----------------------------------------------------------------------------
\* Tokens, resets and requests have the shape of their rows and stages.
SessionsTypeOK ==
  /\ tokens \in Seq([state: {"live", "revoked", "expired", "gone"}, parent: 0 .. MaxTokens,
                     since: 0 .. MaxEnded, late: BOOLEAN, met: BOOLEAN])
  /\ Len(tokens) <= MaxTokens
  /\ ended \in 0 .. MaxEnded
  /\ resets \in Seq([state: {"fresh", "used", "expired"}, uses: Nat, calm: Nat])
  /\ challenges \subseteq 0 .. MaxEnded
  /\ twofactor \in [enabled: BOOLEAN, secret: BOOLEAN]
  /\ started \in 0 .. MaxSessionRequests
  /\ signing \in [SessionSlots ->
        [kind: {"idle", "issue", "rotate", "end", "ending", "enable", "disable"},
         since: 0 .. MaxEnded, about: Nat, doomed: SUBSET (1 .. MaxTokens), met: BOOLEAN]]

\* A session older than the last "end every session" is over, in every later
\* state, unless a sign-in that had already checked its credentials (or a
\* rotation committed while the DELETE ran) wrote its token too late to be
\* deleted.  A rotation in flight cannot carry an ended session on.
EarlierSessionsEnd ==
  \A i \in DOMAIN tokens :
     (tokens[i].state = "live" /\ tokens[i].since < ended) => tokens[i].late

\* A refresh token is exchanged once and a reset mail used once, unless two
\* requests that presented it overlapped: each had read it as unused.
SingleUse ==
  /\ \A i, j \in DOMAIN tokens :
        (i # j /\ tokens[i].parent = tokens[j].parent /\ tokens[i].parent # 0)
          => (tokens[i].met /\ tokens[j].met)
  /\ \A r \in DOMAIN resets : resets[r].uses > 1 => resets[r].calm = 0
=============================================================================
