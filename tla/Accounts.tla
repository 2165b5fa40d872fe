------------------------------ MODULE Accounts ------------------------------
(***************************************************************************)
(* How accounts come to be and how programs act for them: registration and *)
(* the e-mail that proves an address, sign-in through a provider, change   *)
(* of the user name, and the personal access tokens git presents.          *)
(*                                                                         *)
(* Source: backend/app/services/auth_service.py, the routes of             *)
(* backend/app/api/v1/auth.py and backend/app/git_engine/auth.py.  User    *)
(* names and e-mail addresses are unique by index, provider links are not: *)
(* the head migration drops their constraint.                              *)
(***************************************************************************)
EXTENDS Naturals, FiniteSets

CONSTANTS
  Mail,           \* e-mail addresses: an account has one and keeps it
  UserName,       \* user names
  Identity,       \* accounts at the providers (Google, GitHub)
  MailOf,         \* the address each provider account reports
  Pat,            \* personal access tokens
  AccountSlots,   \* requests in flight at once
  MaxMails,       \* bound: verification mails per address
  MaxErrands      \* bound: requests that read first and write later

ASSUME IdentityAssumption == MailOf \in [Identity -> Mail]
ASSUME ErrandsAssumption == MaxMails \in Nat /\ MaxErrands \in Nat

VARIABLES
  names,          \* users: the name of each address, NoUser without a row
  verified,       \* addresses with users.is_verified
  mails,          \* verification mails sent to each address
  proofs,         \* email_verification_tokens that verify_email would take
  lapsed,         \* mailed tokens that expired or whose row was rolled back
  links,          \* number of oauth_accounts rows of each provider account
  crossed,        \* provider accounts two of whose sign-ins overlapped
  pats,           \* personal_access_tokens
  errands,        \* the requests in flight
  launched        \* how many of them were ever started

accountVars == <<names, verified, mails, proofs, lapsed, links, crossed, pats, errands, launched>>
mailbox == <<verified, mails, proofs, lapsed>>

NoUser == "nobody"
ASSUME NameAssumption == NoUser \notin UserName
Nothing == "nothing"
NoErrand == [kind |-> "idle", mail |-> Nothing, name |-> NoUser, about |-> Nothing,
             token |-> 0, doomed |-> {}]
Scope == {"repo", "repo:admin", "repo:read", "repo:write"}
NoPat == [state |-> "none", scopes |-> {}, used |-> FALSE]

AccountsInit ==
  /\ names = [e \in Mail |-> NoUser] /\ verified = {}
  /\ mails = [e \in Mail |-> 0]
  /\ proofs = [e \in Mail |-> {}] /\ lapsed = [e \in Mail |-> {}]
  /\ links = [x \in Identity |-> 0] /\ crossed = {}
  /\ pats = [p \in Pat |-> NoPat]
  /\ errands = [q \in AccountSlots |-> NoErrand] /\ launched = 0

Registered(e) == names[e] # NoUser
Taken(n) == \E e \in Mail : names[e] = n

Launch(q, errand) ==
  /\ errands[q].kind = "idle" /\ \A r \in AccountSlots : r < q => errands[r].kind # "idle"
  /\ launched < MaxErrands
  /\ errands' = [errands EXCEPT ![q] = errand]
  /\ launched' = launched + 1
Proceed(q, errand) == errands' = [errands EXCEPT ![q] = errand] /\ UNCHANGED launched
Return(q) == Proceed(q, NoErrand)

\* An INSERT that holds its index entries until its transaction ends.
Inserting(q) == errands[q].kind \in {"registering", "joining"}
IndexWaits(q) ==
  \E o \in AccountSlots \ {q} :
    Inserting(o) /\ (errands[o].mail = errands[q].mail \/ errands[o].name = errands[q].name)

(***************************************************************************)
(* Registration and verification of the address.                           *)
(***************************************************************************)
\* register_user looks for a row with the name or the address.
CheckRegistration(q, e, n) ==
  /\ ~Registered(e) /\ ~Taken(n)
  /\ Launch(q, [NoErrand EXCEPT !.kind = "register", !.mail = e, !.name = n])
  /\ UNCHANGED <<names, mailbox, links, crossed, pats>>

\* flush, and the mail, which is sent before the commit.
InsertRegistration(q) ==
  LET r == errands[q] IN
  /\ r.kind = "register" /\ ~IndexWaits(q) /\ mails[r.mail] < MaxMails
  /\ IF Registered(r.mail) \/ Taken(r.name)
     THEN Return(q) /\ UNCHANGED mails
     ELSE /\ mails' = [mails EXCEPT ![r.mail] = @ + 1]
          /\ Proceed(q, [r EXCEPT !.kind = "registering", !.token = mails[r.mail] + 1])
  /\ UNCHANGED <<names, verified, proofs, lapsed, links, crossed, pats>>

CommitRegistration(q) ==
  LET r == errands[q] IN
  /\ r.kind = "registering"
  /\ names' = [names EXCEPT ![r.mail] = r.name]
  /\ proofs' = [proofs EXCEPT ![r.mail] = @ \cup {r.token}]
  /\ Return(q)
  /\ UNCHANGED <<verified, mails, lapsed, links, crossed, pats>>

\* verify_email: any live token of the address ends all of them.  Its DELETE
\* waits for a resend that has deleted the same rows.
VerifyEmail(e) ==
  /\ proofs[e] # {}
  /\ \A q \in AccountSlots : errands[q].kind = "resent" => errands[q].doomed \cap proofs[e] = {}
  /\ verified' = verified \cup {e}
  /\ proofs' = [proofs EXCEPT ![e] = {}]
  /\ UNCHANGED <<names, mails, lapsed, links, crossed, pats, errands, launched>>

\* resend_verification reads the account and starts to delete what it sees;
StartResend(q, e) ==
  /\ Registered(e) /\ e \notin verified
  /\ Launch(q, [NoErrand EXCEPT !.kind = "resend", !.mail = e, !.doomed = proofs[e]])
  /\ UNCHANGED <<names, mailbox, links, crossed, pats>>

\* ... it waits for another that deletes the same rows, then sends the mail;
MailToken(q) ==
  LET r == errands[q] IN
  /\ r.kind = "resend" /\ mails[r.mail] < MaxMails
  /\ \A o \in AccountSlots \ {q} :
        errands[o].kind = "resent" => errands[o].doomed \cap r.doomed \cap proofs[r.mail] = {}
  /\ mails' = [mails EXCEPT ![r.mail] = @ + 1]
  /\ Proceed(q, [r EXCEPT !.kind = "resent", !.token = mails[r.mail] + 1])
  /\ UNCHANGED <<names, verified, proofs, lapsed, links, crossed, pats>>

\* Fault: the old tokens are deleted after the new one was added.
CommitResend_DeletesLast(q) ==
  LET r == errands[q] IN
  /\ r.kind = "resent"
  /\ proofs' = [proofs EXCEPT ![r.mail] = {}]
  /\ Return(q)
  /\ UNCHANGED <<names, verified, mails, lapsed, links, crossed, pats>>

\* ... and commits the deletion with the new token.
CommitResend(q) ==
  LET r == errands[q] IN
  /\ r.kind = "resent"
  /\ proofs' = [proofs EXCEPT ![r.mail] = (@ \ r.doomed) \cup {r.token}]
  /\ Return(q)
  /\ UNCHANGED <<names, verified, mails, lapsed, links, crossed, pats>>

ProofExpires(e, k) ==
  /\ k \in proofs[e]
  /\ proofs' = [proofs EXCEPT ![e] = @ \ {k}]
  /\ lapsed' = [lapsed EXCEPT ![e] = @ \cup {k}]
  /\ UNCHANGED <<names, verified, mails, links, crossed, pats, errands, launched>>

(***************************************************************************)
(* Signing in through a provider: handle_oauth_login.                      *)
(***************************************************************************)
\* Fault: the account is looked up by its address before the link is.
FindLink_MailFirst(q, x) ==
  LET e == MailOf[x]
      kind == IF Registered(e) THEN "link" ELSE "join"
      overlaps == \E o \in AccountSlots \ {q} : errands[o].about = x
  IN /\ \E n \in UserName :
          /\ IF kind = "join" THEN ~Taken(n) ELSE n = names[e]
          /\ Launch(q, [NoErrand EXCEPT !.kind = kind, !.mail = e, !.name = n, !.about = x])
     /\ crossed' = IF overlaps THEN crossed \cup {x} ELSE crossed
     /\ UNCHANGED <<names, mailbox, links, pats>>

\* A linked account is signed in and writes nothing here; two links make
\* scalar_one_or_none raise.  Without one the account with the provider's
\* address is linked, or a new one is made under a name that is free.
FindLink(q, x) ==
  LET e == MailOf[x]
      kind == IF Registered(e) THEN "link" ELSE "join"
      overlaps == \E o \in AccountSlots \ {q} : errands[o].about = x
  IN /\ links[x] = 0
     /\ \E n \in UserName :
          /\ IF kind = "join" THEN ~Taken(n) ELSE n = names[e]
          /\ Launch(q, [NoErrand EXCEPT !.kind = kind, !.mail = e, !.name = n, !.about = x])
     /\ crossed' = IF overlaps THEN crossed \cup {x} ELSE crossed
     /\ UNCHANGED <<names, mailbox, links, pats>>

InsertJoiner(q) ==
  LET r == errands[q] IN
  /\ r.kind = "join" /\ ~IndexWaits(q)
  /\ IF Registered(r.mail) \/ Taken(r.name)
     THEN Return(q)
     ELSE Proceed(q, [r EXCEPT !.kind = "joining"])
  /\ UNCHANGED <<names, mailbox, links, crossed, pats>>

\* The provider has verified the address already.
CommitLink(q) ==
  LET r == errands[q] IN
  /\ r.kind \in {"link", "joining"} /\ links[r.about] < 2
  /\ links' = [links EXCEPT ![r.about] = @ + 1]
  /\ IF r.kind = "joining"
     THEN /\ names' = [names EXCEPT ![r.mail] = r.name]
          /\ verified' = verified \cup {r.mail}
     ELSE UNCHANGED <<names, verified>>
  /\ Return(q)
  /\ UNCHANGED <<mails, proofs, lapsed, crossed, pats>>

(***************************************************************************)
(* PATCH /me with a new user name: checked, then written.                  *)
(***************************************************************************)
CheckName(q, e, n) ==
  /\ Registered(e) /\ ~Taken(n)
  /\ Launch(q, [NoErrand EXCEPT !.kind = "rename", !.mail = e, !.name = n])
  /\ UNCHANGED <<names, mailbox, links, crossed, pats>>

CommitName(q) ==
  LET r == errands[q] IN
  /\ r.kind = "rename" /\ ~IndexWaits(q)
  /\ names' = IF Taken(r.name) THEN names ELSE [names EXCEPT ![r.mail] = r.name]
  /\ Return(q)
  /\ UNCHANGED <<mailbox, links, crossed, pats>>

(***************************************************************************)
(* Personal access tokens.                                                 *)
(***************************************************************************)
CreatePat(p, scopes) ==
  /\ pats[p].state = "none"
  /\ pats' = [pats EXCEPT ![p] = [state |-> "live", scopes |-> scopes, used |-> FALSE]]
  /\ UNCHANGED <<names, mailbox, links, crossed, errands, launched>>

\* revoke_personal_access_token writes the one column it changes.
RevokePat(p) ==
  /\ pats[p].state \in {"live", "expired"}
  /\ pats' = [pats EXCEPT ![p].state = "revoked"]
  /\ UNCHANGED <<names, mailbox, links, crossed, errands, launched>>

PatExpires(p) ==
  /\ pats[p].state = "live"
  /\ pats' = [pats EXCEPT ![p].state = "expired"]
  /\ UNCHANGED <<names, mailbox, links, crossed, errands, launched>>

\* authenticate_git_request: revoked and expired tokens and too narrow ones
\* are no user at all.
PresentPat(q, p, required) ==
  /\ pats[p].state = "live"
  /\ pats[p].scopes \cap {"repo", "repo:admin", required} # {}
  /\ Launch(q, [NoErrand EXCEPT !.kind = "git", !.about = p])
  /\ UNCHANGED <<names, mailbox, links, crossed, pats>>

\* Fault: the commit writes the whole row back as it was read.
CommitUse_WholeRow(q) ==
  LET p == errands[q].about IN
  /\ errands[q].kind = "git"
  /\ pats' = [pats EXCEPT ![p].used = TRUE, ![p].state = "live"]
  /\ Return(q)
  /\ UNCHANGED <<names, mailbox, links, crossed>>

\* last_used_at, committed or rolled back: the user is authenticated anyway.
CommitUse(q) ==
  LET p == errands[q].about IN
  /\ errands[q].kind = "git"
  /\ \/ pats' = [pats EXCEPT ![p].used = TRUE]
     \/ UNCHANGED pats
  /\ Return(q)
  /\ UNCHANGED <<names, mailbox, links, crossed>>

-----------------------------------------------------------------------------
\* The process restarts: open transactions are rolled back, mails are out.
RestartAccounts ==
  /\ \E q \in AccountSlots : errands[q].kind # "idle"
  /\ errands' = [q \in AccountSlots |-> NoErrand]
  /\ lapsed' = [e \in Mail |-> lapsed[e] \cup
        {errands[q].token : q \in {o \in AccountSlots :
            errands[o].mail = e /\ errands[o].kind \in {"registering", "resent"}}}]
  /\ UNCHANGED <<names, verified, mails, proofs, links, crossed, pats, launched>>

AccountsNext ==
  \/ \E q \in AccountSlots :
       \/ \E e \in Mail, n \in UserName : CheckRegistration(q, e, n) \/ CheckName(q, e, n)
       \/ InsertRegistration(q) \/ CommitRegistration(q)
       \/ \E e \in Mail : StartResend(q, e)
       \/ MailToken(q) \/ CommitResend(q)
       \/ \E x \in Identity : FindLink(q, x)
       \/ InsertJoiner(q) \/ CommitLink(q) \/ CommitName(q)
       \/ \E p \in Pat : PresentPat(q, p, "repo:read") \/ PresentPat(q, p, "repo:write")
       \/ CommitUse(q)
  \/ \E e \in Mail : VerifyEmail(e) \/ \E k \in proofs[e] : ProofExpires(e, k)
  \/ \E p \in Pat : CreatePat(p, {"repo:read"}) \/ CreatePat(p, {"repo"})
                    \/ RevokePat(p) \/ PatExpires(p)
  \/ RestartAccounts

AccountsSpec == AccountsInit /\ [][AccountsNext]_accountVars

-----------------------------------------------------------------------------
AccountsTypeOK ==
  /\ names \in [Mail -> UserName \cup {NoUser}] /\ verified \subseteq Mail
  /\ mails \in [Mail -> 0..MaxMails]
  /\ proofs \in [Mail -> SUBSET (1..MaxMails)] /\ lapsed \in [Mail -> SUBSET (1..MaxMails)]
  /\ links \in [Identity -> 0..2] /\ crossed \subseteq Identity
  /\ pats \in [Pat -> [state : {"none", "live", "expired", "revoked"},
                       scopes : SUBSET Scope, used : BOOLEAN]]
  /\ errands \in [AccountSlots ->
        [kind : {"idle", "register", "registering", "resend", "resent", "link", "join",
                 "joining", "rename", "git"},
         mail : Mail \cup {Nothing}, name : UserName \cup {NoUser},
         about : Identity \cup Pat \cup {Nothing}, token : 0..MaxMails,
         doomed : SUBSET (1..MaxMails)]]
  /\ launched \in 0..MaxErrands

\* The last mail an unverified account was sent holds a token that works,
\* until it expires, however registrations and resends of it interleave: a
\* resend deletes what was there before its own token.
LatestMailWorks ==
  \A e \in Mail : Registered(e) /\ e \notin verified =>
    \/ mails[e] \in proofs[e] \cup lapsed[e]
    \/ \E q \in AccountSlots : errands[q].mail = e /\ errands[q].token = mails[e]

\* A provider account is linked twice, which makes every later sign-in with
\* it fail, only by first sign-ins that overlap.
CalmOneLink == \A x \in Identity \ crossed : links[x] <= 1

\* A revoked access token stays revoked, whatever git requests that read it
\* before still write.
RevokedForGood ==
  [][\A p \in Pat : pats[p].state = "revoked" => pats'[p].state = "revoked"]_accountVars

=============================================================================
