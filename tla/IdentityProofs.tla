--------------------------- MODULE IdentityProofs ---------------------------
(***************************************************************************)
(* Proofs about Sessions, Accounts and Access, for any number of tokens,   *)
(* mails, addresses, names, providers, people and repositories.            *)
(***************************************************************************)
EXTENDS Sessions, Accounts, Access, SequenceTheorems, TLAPS

-----------------------------------------------------------------------------
(***************************************************************************)
(* Sessions, reset mails and two-factor                                    *)
(***************************************************************************)

TokenRow == [state : {"live", "revoked", "expired", "gone"}, parent : Nat, since : Nat,
             late : BOOLEAN, met : BOOLEAN]
ResetRow == [state : {"fresh", "used", "expired"}, uses : Nat, calm : Nat]
Request == [kind : {"idle", "issue", "rotate", "end", "ending", "enable", "disable"},
            since : Nat, about : Nat, doomed : SUBSET Nat, met : BOOLEAN]

SessionsTyped ==
  /\ tokens \in Seq(TokenRow) /\ resets \in Seq(ResetRow)
  /\ ended \in Nat /\ challenges \subseteq Nat
  /\ signing \in [SessionSlots -> Request]

\* Two requests in flight that presented the same have met.
AllMet ==
  \A s, t \in SessionSlots :
     s # t /\ Presents(t, Stage(signing[s].kind), signing[s].about) => signing[s].met

\* A session that was ended is over or marked, whatever its token's state.
OldMarked ==
  \A i \in DOMAIN tokens : (Present(i) /\ tokens[i].since < ended) => tokens[i].late

\* A token that was exchanged is not live, and who still exchanges it met the
\* request that did.
ExchangedOnce ==
  /\ \A s \in SessionSlots : signing[s].kind = "rotate" => signing[s].about \in DOMAIN tokens
  /\ \A j \in DOMAIN tokens : tokens[j].parent # 0 =>
        /\ tokens[j].parent \in DOMAIN tokens
        /\ tokens[tokens[j].parent].state \notin {"live", "expired"}
  /\ \A s \in SessionSlots : signing[s].kind = "rotate" =>
        \A j \in DOMAIN tokens : tokens[j].parent = signing[s].about =>
           tokens[j].met /\ signing[s].met
  /\ \A i, j \in DOMAIN tokens :
        (i # j /\ tokens[i].parent = tokens[j].parent /\ tokens[i].parent # 0)
          => (tokens[i].met /\ tokens[j].met)

\* A reset mail not yet used has no use; who still uses a used one met that use.
ResetOnce ==
  /\ \A s \in SessionSlots : signing[s].kind \in {"end", "ending"} =>
        signing[s].about \in {0} \cup DOMAIN resets
  /\ \A r \in DOMAIN resets :
        /\ resets[r].state # "used" => resets[r].uses = 0
        /\ resets[r].uses = 0 => resets[r].calm = 0
        /\ resets[r].uses > 1 => resets[r].calm = 0
  /\ \A s \in SessionSlots : signing[s].kind \in {"end", "ending"} /\ signing[s].about # 0 =>
        (resets[signing[s].about].uses > 0 =>
           resets[signing[s].about].calm = 0 /\ signing[s].met)

SessionsKept == SessionsTyped /\ AllMet /\ OldMarked /\ ExchangedOnce /\ ResetOnce

LEMMA IdleRequest ==
  Idle \in Request /\ Idle.kind = "idle" /\ Idle.about = 0
  BY DEF Idle, Request

\* The requests in flight change, no row does.
LEMMA RequestsMove ==
  ASSUME SessionsKept, UNCHANGED <<tokens, ended, resets>>, challenges' \subseteq Nat,
         signing' \in [SessionSlots -> Request], AllMet',
         \A s \in SessionSlots : signing'[s].kind = "rotate" =>
            \/ signing[s].kind = "rotate" /\ signing'[s].about = signing[s].about
               /\ (signing[s].met => signing'[s].met)
            \/ /\ signing'[s].about \in DOMAIN tokens
               /\ \A j \in DOMAIN tokens : tokens[j].parent # signing'[s].about,
         \A s \in SessionSlots : signing'[s].kind \in {"end", "ending"} =>
            \/ signing[s].kind \in {"end", "ending"} /\ signing'[s].about = signing[s].about
               /\ (signing[s].met => signing'[s].met)
            \/ signing'[s].about = 0
            \/ signing'[s].about \in DOMAIN resets /\ resets[signing'[s].about].uses = 0
  PROVE  SessionsKept'
<1>1. SessionsTyped' /\ AllMet' /\ OldMarked'
  BY DEF SessionsKept, SessionsTyped, OldMarked, Present
<1>2. ExchangedOnce'
  BY DEF SessionsKept, ExchangedOnce
<1>3. ResetOnce'
  <2>1. \A s \in SessionSlots : signing'[s].kind \in {"end", "ending"} =>
           signing'[s].about \in {0} \cup DOMAIN resets
    BY DEF SessionsKept, ResetOnce
  <2>2. ASSUME NEW s \in SessionSlots, signing'[s].kind \in {"end", "ending"}, signing'[s].about # 0,
               resets[signing'[s].about].uses > 0
        PROVE  resets[signing'[s].about].calm = 0 /\ signing'[s].met
    BY <2>2 DEF SessionsKept, ResetOnce
  <2> QED BY <2>1, <2>2 DEF SessionsKept, ResetOnce
<1> QED BY <1>1, <1>2, <1>3 DEF SessionsKept

LEMMA StartKept ==
  ASSUME SessionsKept, NEW s \in SessionSlots, NEW kind \in {"issue", "rotate", "end", "enable", "disable"},
         NEW since \in Nat, NEW about \in Nat, Start(s, kind, since, about),
         UNCHANGED <<tokens, ended, resets, challenges>>,
         kind = "rotate" => about \in DOMAIN tokens /\ tokens[about].state = "live",
         kind = "end" => about = 0 \/ (about \in DOMAIN resets /\ resets[about].state = "fresh")
  PROVE  SessionsKept'
<1> DEFINE mine == [Idle EXCEPT !.kind = kind, !.since = since, !.about = about,
                                !.met = \E u \in SessionSlots : Presents(u, kind, about)]
<1>1. signing' = [t \in SessionSlots |->
          IF t = s THEN mine ELSE [signing[t] EXCEPT !.met = @ \/ Presents(t, kind, about)]]
  BY DEF Start
<1>2. /\ mine \in Request /\ mine.kind = kind /\ mine.about = about
      /\ mine.met = (\E u \in SessionSlots : Presents(u, kind, about))
  <2>1. (\E u \in SessionSlots : Presents(u, kind, about)) \in BOOLEAN
    OBVIOUS
  <2> QED BY <2>1 DEF Idle, Request
<1> HIDE DEF mine
<1>3. ASSUME NEW t \in SessionSlots, t # s
      PROVE  /\ signing'[t] \in Request /\ signing'[t].kind = signing[t].kind
             /\ signing'[t].about = signing[t].about
             /\ signing'[t].met = (signing[t].met \/ Presents(t, kind, about))
  <2> DEFINE met == signing[t].met \/ Presents(t, kind, about)
  <2>1. signing[t] \in Request /\ met \in BOOLEAN
    BY DEF SessionsKept, SessionsTyped
  <2>2. signing'[t] = [signing[t] EXCEPT !.met = met]
    BY <1>1, <1>3
  <2> HIDE DEF met
  <2>3. signing'[t].met = met /\ signing'[t] \in Request
        /\ signing'[t].kind = signing[t].kind /\ signing'[t].about = signing[t].about
    BY <2>1, <2>2 DEF Request
  <2> QED BY <2>3 DEF met
<1>4. signing'[s] = mine
  BY <1>1
<1>5. signing' \in [SessionSlots -> Request]
  <2>1. \A t \in SessionSlots : signing'[t] \in Request
    BY <1>2, <1>3, <1>4
  <2> QED BY <1>1, <2>1
<1>6. AllMet'
  <2> SUFFICES ASSUME NEW u \in SessionSlots, NEW t \in SessionSlots, u # t,
                      Presents(t, Stage(signing[u].kind), signing[u].about)'
               PROVE  signing'[u].met
    BY DEF AllMet
  <2>1. CASE u = s
    <3>1. Presents(t, kind, about)
      BY <1>2, <1>3, <1>4, <2>1 DEF Presents, Stage
    <3> QED BY <1>2, <1>4, <2>1, <3>1
  <2>2. CASE t = s
    <3>1. Presents(u, kind, about)
      BY <1>2, <1>3, <1>4, <2>2 DEF Presents, Stage
    <3> QED BY <1>3, <2>2, <3>1
  <2>3. CASE u # s /\ t # s
    <3>1. Presents(t, Stage(signing[u].kind), signing[u].about)
      BY <1>3, <2>3 DEF Presents
    <3> QED BY <1>3, <2>3, <3>1 DEF SessionsKept, AllMet
  <2> QED BY <2>1, <2>2, <2>3
<1>7. ASSUME NEW t \in SessionSlots, signing'[t].kind = "rotate"
      PROVE  \/ signing[t].kind = "rotate" /\ signing'[t].about = signing[t].about
                /\ (signing[t].met => signing'[t].met)
             \/ /\ signing'[t].about \in DOMAIN tokens
                /\ \A j \in DOMAIN tokens : tokens[j].parent # signing'[t].about
  <2>1. CASE t = s
    <3>1. about \in DOMAIN tokens /\ tokens[about].state = "live" /\ about # 0
      BY <1>2, <1>4, <1>7, <2>1 DEF SessionsKept, SessionsTyped
    <3> QED BY <1>2, <1>4, <2>1, <3>1 DEF SessionsKept, ExchangedOnce
  <2>2. CASE t # s
    BY <1>3, <1>7, <2>2
  <2> QED BY <2>1, <2>2
<1>8. ASSUME NEW t \in SessionSlots, signing'[t].kind \in {"end", "ending"}
      PROVE  \/ signing[t].kind \in {"end", "ending"} /\ signing'[t].about = signing[t].about
                /\ (signing[t].met => signing'[t].met)
             \/ signing'[t].about = 0
             \/ signing'[t].about \in DOMAIN resets /\ resets[signing'[t].about].uses = 0
  <2>1. CASE t = s
    BY <1>2, <1>4, <1>8, <2>1 DEF SessionsKept, ResetOnce
  <2>2. CASE t # s
    BY <1>3, <1>8, <2>2
  <2> QED BY <2>1, <2>2
<1>9. challenges' \subseteq Nat
  BY DEF SessionsKept, SessionsTyped
<1> QED BY <1>5, <1>6, <1>7, <1>8, <1>9, RequestsMove

\* A request ends, or all do, or one goes on with the same row.
LEMMA LeaveKept ==
  ASSUME SessionsKept, UNCHANGED <<tokens, ended, resets>>, challenges' \subseteq Nat,
         signing' \in [SessionSlots -> Request],
         \A s \in SessionSlots :
            \/ signing'[s] = Idle
            \/ signing'[s] = signing[s]
            \/ /\ signing[s].kind = "end" /\ signing'[s].kind = "ending"
               /\ signing'[s].about = signing[s].about /\ signing'[s].met = signing[s].met
  PROVE  SessionsKept'
<1>1. AllMet'
  BY IdleRequest DEF SessionsKept, AllMet, Presents, Stage
<1>2. \A s \in SessionSlots : signing'[s].kind = "rotate" => signing'[s] = signing[s]
  BY IdleRequest
<1>3. \A s \in SessionSlots : signing'[s].kind \in {"end", "ending"} =>
         /\ signing[s].kind \in {"end", "ending"} /\ signing'[s].about = signing[s].about
         /\ signing'[s].met = signing[s].met
  BY IdleRequest
<1> QED BY <1>1, <1>2, <1>3, RequestsMove

-----------------------------------------------------------------------------
(* Steps that write rows *)

\* A token expires or its row is deleted at a logout.
LEMMA TokenEndsKept ==
  ASSUME SessionsKept, NEW i \in DOMAIN tokens,
         NEW state \in {"expired", "gone"}, tokens' = [tokens EXCEPT ![i].state = state],
         state = "expired" => tokens[i].state = "live",
         UNCHANGED <<ended, resets, challenges, signing>>, Present(i)
  PROVE  SessionsKept'
<1>1. tokens \in Seq(TokenRow) /\ tokens[i] \in TokenRow
  BY DEF SessionsKept, SessionsTyped
<1>2. [tokens[i] EXCEPT !.state = state] \in TokenRow
  BY <1>1 DEF TokenRow
<1>3. tokens' = [tokens EXCEPT ![i] = [tokens[i] EXCEPT !.state = state]]
  OBVIOUS
<1>4. tokens' \in Seq(TokenRow) /\ DOMAIN tokens' = DOMAIN tokens
  BY <1>1, <1>2, <1>3
<1>5. \A j \in DOMAIN tokens : tokens[j] \in TokenRow
  BY <1>1
<1>6. \A j \in DOMAIN tokens :
         /\ tokens'[j].parent = tokens[j].parent /\ tokens'[j].since = tokens[j].since
         /\ tokens'[j].late = tokens[j].late /\ tokens'[j].met = tokens[j].met
         /\ tokens'[j].state = IF j = i THEN state ELSE tokens[j].state
  BY <1>1, <1>2, <1>3, <1>5 DEF TokenRow
<1>7. SessionsTyped' /\ AllMet' /\ ResetOnce'
  BY <1>4 DEF SessionsKept, SessionsTyped, AllMet, ResetOnce, Presents, Stage
<1>8. OldMarked'
  BY <1>4, <1>6 DEF SessionsKept, OldMarked, Present
<1>9. ExchangedOnce'
  BY <1>4, <1>6 DEF SessionsKept, ExchangedOnce
<1> QED BY <1>7, <1>8, <1>9 DEF SessionsKept

\* A row is appended to others, of which some changed their state.
LEMMA Appended ==
  ASSUME NEW before \in Seq(TokenRow), NEW row \in TokenRow
  PROVE  /\ Append(before, row) \in Seq(TokenRow)
         /\ DOMAIN Append(before, row) = DOMAIN before \cup {Len(before) + 1}
         /\ \A j \in DOMAIN before : Append(before, row)[j] = before[j]
         /\ Append(before, row)[Len(before) + 1] = row
         /\ Len(before) + 1 \notin DOMAIN before /\ Len(before) \in Nat
OBVIOUS

LEMMA IssuedKept ==
  ASSUME SessionsKept, NEW s \in SessionSlots, IssuePair(s)
  PROVE  SessionsKept'
<1> DEFINE row == NewToken(0, signing[s].since, s)
           n == Len(tokens) + 1
<1>1. tokens \in Seq(TokenRow) /\ signing[s] \in Request /\ ended \in Nat
  BY DEF SessionsKept, SessionsTyped
<1>2. /\ row \in TokenRow /\ row.parent = 0 /\ row.state = "live"
      /\ row.since = signing[s].since /\ row.late = (signing[s].since < ended)
  BY <1>1 DEF NewToken, TokenRow, Request
<1>3. /\ tokens' = Append(tokens, row) /\ signing' = [signing EXCEPT ![s] = Idle]
      /\ UNCHANGED <<ended, resets, challenges>>
  BY DEF IssuePair, Finish
<1> HIDE DEF row
<1>4. /\ tokens' \in Seq(TokenRow) /\ DOMAIN tokens' = DOMAIN tokens \cup {n}
      /\ \A j \in DOMAIN tokens : tokens'[j] = tokens[j]
      /\ tokens'[n] = row /\ n \notin DOMAIN tokens
  BY <1>1, <1>2, <1>3, Appended
<1> HIDE DEF n
<1>5. signing' \in [SessionSlots -> Request] /\ \A t \in SessionSlots : signing'[t] = IF t = s THEN Idle ELSE signing[t]
  BY <1>3, IdleRequest DEF SessionsKept, SessionsTyped
<1>6. SessionsTyped' /\ AllMet'
  BY <1>3, <1>4, <1>5, IdleRequest DEF SessionsKept, SessionsTyped, AllMet, Presents, Stage
<1>7. OldMarked'
  BY <1>1, <1>2, <1>3, <1>4 DEF SessionsKept, OldMarked, Present
<1>8. ExchangedOnce'
  <2>0. 0 \notin DOMAIN tokens
    BY <1>1
  <2>1. \A t \in SessionSlots : signing'[t].kind = "rotate" => signing'[t] = signing[t] /\ signing'[t].about \in DOMAIN tokens
    BY <1>5, IdleRequest DEF SessionsKept, ExchangedOnce
  <2>2. \A j \in DOMAIN tokens' : tokens'[j].parent # 0 => j \in DOMAIN tokens /\ tokens'[j] = tokens[j]
    BY <1>2, <1>4
  <2>3. \A j \in DOMAIN tokens' : tokens'[j].parent # 0 =>
           /\ tokens'[j].parent \in DOMAIN tokens'
           /\ tokens'[tokens'[j].parent].state \notin {"live", "expired"}
    BY <1>4, <2>2 DEF SessionsKept, ExchangedOnce
  <2>4. \A t \in SessionSlots : signing'[t].kind = "rotate" =>
           \A j \in DOMAIN tokens' : tokens'[j].parent = signing'[t].about =>
              tokens'[j].met /\ signing'[t].met
    BY <2>0, <2>1, <2>2 DEF SessionsKept, ExchangedOnce
  <2>5. \A i, j \in DOMAIN tokens' :
           (i # j /\ tokens'[i].parent = tokens'[j].parent /\ tokens'[i].parent # 0)
             => (tokens'[i].met /\ tokens'[j].met)
    BY <2>2 DEF SessionsKept, ExchangedOnce
  <2> QED BY <1>4, <2>1, <2>3, <2>4, <2>5 DEF ExchangedOnce
<1>9. ResetOnce'
  BY <1>3, <1>5, IdleRequest DEF SessionsKept, ResetOnce
<1> QED BY <1>6, <1>7, <1>8, <1>9 DEF SessionsKept

LEMMA RotateKept ==
  ASSUME SessionsKept, NEW s \in SessionSlots, Rotate(s), Present(signing[s].about)
  PROVE  SessionsKept'
<1> DEFINE i == signing[s].about
           old == [tokens[i] EXCEPT !.state = "revoked"]
           before == [tokens EXCEPT ![i].state = "revoked"]
           row == NewToken(i, tokens[i].since, s)
           n == Len(before) + 1
<1>1. /\ tokens \in Seq(TokenRow) /\ signing[s] \in Request /\ ended \in Nat
      /\ signing[s].kind = "rotate" /\ i \in DOMAIN tokens /\ i \in Nat /\ i # 0
      /\ tokens[i] \in TokenRow /\ Present(i)
  BY DEF SessionsKept, SessionsTyped, Rotate, ExchangedOnce
<1>2. /\ row \in TokenRow /\ row.parent = i /\ row.state = "live"
      /\ row.since = tokens[i].since /\ row.late = tokens[i].late /\ row.met = signing[s].met
  BY <1>1 DEF NewToken, TokenRow, Request
<1>3. /\ tokens' = Append(before, row) /\ signing' = [signing EXCEPT ![s] = Idle]
      /\ UNCHANGED <<ended, resets, challenges>>
  BY <1>1 DEF Rotate, Finish
<1> HIDE DEF row
<1>4. before = [tokens EXCEPT ![i] = old] /\ old \in TokenRow
  BY <1>1 DEF TokenRow
<1>5. before \in Seq(TokenRow) /\ DOMAIN before = DOMAIN tokens
  BY <1>1, <1>4
<1>6. \A j \in DOMAIN tokens : tokens[j] \in TokenRow
  BY <1>1
<1>7. \A j \in DOMAIN tokens :
         /\ before[j].parent = tokens[j].parent /\ before[j].since = tokens[j].since
         /\ before[j].late = tokens[j].late /\ before[j].met = tokens[j].met
         /\ before[j].state = IF j = i THEN "revoked" ELSE tokens[j].state
  BY <1>1, <1>4, <1>6 DEF TokenRow
<1> HIDE DEF before, old, i
<1>8. /\ tokens' \in Seq(TokenRow) /\ DOMAIN tokens' = DOMAIN tokens \cup {n}
      /\ \A j \in DOMAIN tokens : tokens'[j] = before[j]
      /\ tokens'[n] = row /\ n \notin DOMAIN tokens
  BY <1>2, <1>3, <1>5, Appended
<1> HIDE DEF n
<1>9. signing' \in [SessionSlots -> Request] /\ \A t \in SessionSlots : signing'[t] = IF t = s THEN Idle ELSE signing[t]
  BY <1>3, IdleRequest DEF SessionsKept, SessionsTyped
<1>10. SessionsTyped' /\ AllMet'
  BY <1>3, <1>8, <1>9, IdleRequest DEF SessionsKept, SessionsTyped, AllMet, Presents, Stage
<1>11. OldMarked'
  <2>1. tokens[i].since < ended => tokens[i].late
    BY <1>1 DEF SessionsKept, OldMarked
  <2>2. ASSUME NEW j \in DOMAIN tokens, Present(j)', tokens'[j].since < ended'
        PROVE  tokens'[j].late
    BY <1>1, <1>3, <1>7, <1>8, <2>1, <2>2 DEF SessionsKept, OldMarked, Present
  <2>3. row.since < ended => row.late
    BY <1>2, <2>1
  <2> QED BY <1>3, <1>8, <2>2, <2>3 DEF OldMarked
<1>12. ExchangedOnce'
  <2>1. \A t \in SessionSlots : signing'[t].kind = "rotate" =>
           t # s /\ signing'[t] = signing[t] /\ signing'[t].about \in DOMAIN tokens
    BY <1>9, IdleRequest DEF SessionsKept, ExchangedOnce
  <2>2. \A j \in DOMAIN tokens : tokens'[j].parent = tokens[j].parent /\ tokens'[j].met = tokens[j].met
    BY <1>7, <1>8
  <2>3. ASSUME NEW j \in DOMAIN tokens', tokens'[j].parent # 0
        PROVE  /\ tokens'[j].parent \in DOMAIN tokens'
               /\ tokens'[tokens'[j].parent].state \notin {"live", "expired"}
    <3>1. CASE j \in DOMAIN tokens
      <4>1. tokens[j].parent \in DOMAIN tokens /\ tokens[tokens[j].parent].state \notin {"live", "expired"}
        BY <2>2, <2>3, <3>1 DEF SessionsKept, ExchangedOnce
      <4> QED BY <1>7, <1>8, <2>2, <3>1, <4>1
    <3>2. CASE j = n
      BY <1>1, <1>2, <1>7, <1>8, <3>2
    <3> QED BY <1>8, <3>1, <3>2
  <2>4. ASSUME NEW t \in SessionSlots, signing'[t].kind = "rotate",
               NEW j \in DOMAIN tokens', tokens'[j].parent = signing'[t].about
        PROVE  tokens'[j].met /\ signing'[t].met
    <3>1. CASE j \in DOMAIN tokens
      BY <2>1, <2>2, <2>4, <3>1 DEF SessionsKept, ExchangedOnce
    <3>2. CASE j = n
      <4>1. t # s /\ signing'[t] = signing[t] /\ signing[t].about = i
        BY <1>2, <1>8, <2>1, <2>4, <3>2
      <4>2. signing[s].about = i
        BY DEF i
      <4>3. signing[t].met /\ signing[s].met
        BY <1>1, <2>4, <4>1, <4>2 DEF SessionsKept, AllMet, Presents, Stage
      <4> QED BY <1>2, <1>8, <3>2, <4>1, <4>3
    <3> QED BY <1>8, <3>1, <3>2
  <2>5. ASSUME NEW j \in DOMAIN tokens, tokens[j].parent = i
        PROVE  tokens'[j].met /\ row.met
    <3>1. tokens[j].met /\ signing[s].met
      BY <1>1, <2>5 DEF SessionsKept, ExchangedOnce, i
    <3> QED BY <1>2, <2>2, <3>1
  <2>6. \A j, k \in DOMAIN tokens' :
           (j # k /\ tokens'[j].parent = tokens'[k].parent /\ tokens'[j].parent # 0)
             => (tokens'[j].met /\ tokens'[k].met)
    <3>1. \A j, k \in DOMAIN tokens :
             (j # k /\ tokens'[j].parent = tokens'[k].parent /\ tokens'[j].parent # 0)
               => (tokens'[j].met /\ tokens'[k].met)
      BY <2>2 DEF SessionsKept, ExchangedOnce
    <3>2. \A j \in DOMAIN tokens : tokens'[j].parent = tokens'[n].parent => tokens'[j].met /\ tokens'[n].met
      BY <1>2, <1>8, <2>2, <2>5
    <3> QED BY <1>8, <3>1, <3>2
  <2> QED BY <1>8, <2>1, <2>3, <2>4, <2>6 DEF ExchangedOnce
<1>13. ResetOnce'
  BY <1>3, <1>9, IdleRequest DEF SessionsKept, ResetOnce
<1> QED BY <1>10, <1>11, <1>12, <1>13 DEF SessionsKept

\* The rows of a DELETE go, those it did not see are marked.
LEMMA TokensDeleted ==
  ASSUME SessionsKept, NEW doomed,
         tokens' = [i \in DOMAIN tokens |->
            IF i \in doomed THEN [tokens[i] EXCEPT !.state = "gone"]
            ELSE [tokens[i] EXCEPT !.late = @ \/ Present(i)]]
  PROVE  /\ tokens' \in Seq(TokenRow) /\ DOMAIN tokens' = DOMAIN tokens
         /\ \A i \in DOMAIN tokens :
              /\ tokens'[i].parent = tokens[i].parent /\ tokens'[i].met = tokens[i].met
              /\ tokens'[i].state \in {tokens[i].state, "gone"}
              /\ tokens'[i].state # "gone" => tokens'[i].late
<1>1. tokens \in Seq(TokenRow) /\ \A i \in DOMAIN tokens : tokens[i] \in TokenRow
  BY DEF SessionsKept, SessionsTyped
<1>2. ASSUME NEW i \in DOMAIN tokens
      PROVE  /\ tokens'[i] \in TokenRow
             /\ tokens'[i].parent = tokens[i].parent /\ tokens'[i].met = tokens[i].met
             /\ tokens'[i].state \in {tokens[i].state, "gone"}
             /\ tokens'[i].state # "gone" => tokens'[i].late
  <2>1. tokens[i] \in TokenRow
    BY <1>1
  <2>2. CASE i \in doomed
    <3>1. tokens'[i] = [tokens[i] EXCEPT !.state = "gone"]
      BY <2>2
    <3> QED BY <2>1, <3>1 DEF TokenRow
  <2>3. CASE i \notin doomed
    <3> DEFINE late == tokens[i].late \/ Present(i)
    <3>1. tokens'[i] = [tokens[i] EXCEPT !.late = late]
      BY <2>3
    <3>2. late \in BOOLEAN /\ (tokens[i].state # "gone" => late)
      BY DEF Present
    <3> HIDE DEF late
    <3> QED BY <2>1, <3>1, <3>2 DEF TokenRow
  <2> QED BY <2>2, <2>3
<1>3. DOMAIN tokens = 1..Len(tokens) /\ Len(tokens) \in Nat
  BY <1>1
<1>4. tokens' = [i \in 1..Len(tokens) |-> tokens'[i]]
  BY <1>3
<1>5. tokens' \in [1..Len(tokens) -> TokenRow]
  BY <1>2, <1>3, <1>4
<1>6. tokens' \in Seq(TokenRow)
  BY <1>3, <1>5, SeqDef
<1> QED BY <1>2, <1>3, <1>5, <1>6

LEMMA DeleteKept ==
  ASSUME SessionsKept, NEW s \in SessionSlots, CommitDelete(s)
  PROVE  SessionsKept'
<1> DEFINE r == signing[s].about
           met == signing[s].met
<1>1. /\ signing[s].kind = "ending" /\ r \in {0} \cup DOMAIN resets /\ ended \in Nat
      /\ ended' = ended + 1 /\ UNCHANGED challenges /\ met \in BOOLEAN
      /\ signing' = [signing EXCEPT ![s] = Idle]
  BY DEF SessionsKept, SessionsTyped, Request, ResetOnce, CommitDelete, Finish
<1>2. /\ tokens' \in Seq(TokenRow) /\ DOMAIN tokens' = DOMAIN tokens
      /\ \A i \in DOMAIN tokens :
           /\ tokens'[i].parent = tokens[i].parent /\ tokens'[i].met = tokens[i].met
           /\ tokens'[i].state \in {tokens[i].state, "gone"}
           /\ tokens'[i].state # "gone" => tokens'[i].late
  BY TokensDeleted DEF CommitDelete
<1>3. signing' \in [SessionSlots -> Request] /\ \A t \in SessionSlots : signing'[t] = IF t = s THEN Idle ELSE signing[t]
  BY <1>1, IdleRequest DEF SessionsKept, SessionsTyped
<1>4. /\ resets' \in Seq(ResetRow) /\ DOMAIN resets' = DOMAIN resets
      /\ \A k \in DOMAIN resets : k # r => resets'[k] = resets[k]
      /\ r # 0 => /\ resets'[r].state = "used" /\ resets'[r].uses = resets[r].uses + 1
                  /\ resets'[r].calm = IF met THEN resets[r].calm ELSE resets[r].calm + 1
      /\ \A k \in DOMAIN resets : resets[k].uses \in Nat /\ resets[k].calm \in Nat
  <2>1. resets \in Seq(ResetRow) /\ \A k \in DOMAIN resets : resets[k] \in ResetRow
    BY DEF SessionsKept, SessionsTyped
  <2>2. \A k \in DOMAIN resets : resets[k].uses \in Nat /\ resets[k].calm \in Nat
    BY <2>1 DEF ResetRow
  <2>3. CASE r = 0
    <3>1. resets' = resets
      BY <2>3 DEF CommitDelete
    <3> QED BY <2>1, <2>2, <2>3, <3>1
  <2>4. CASE r # 0
    <3> DEFINE calm == IF met THEN resets[r].calm ELSE resets[r].calm + 1
               row == [resets[r] EXCEPT !.state = "used", !.uses = @ + 1, !.calm = calm]
    <3>1. r \in DOMAIN resets /\ resets[r] \in ResetRow
      BY <1>1, <2>1, <2>4
    <3>2. resets' = [resets EXCEPT ![r] = row]
      BY <2>4 DEF CommitDelete
    <3>3. calm \in Nat /\ resets[r].uses + 1 \in Nat
      BY <2>2, <3>1
    <3>4. calm = IF met THEN resets[r].calm ELSE resets[r].calm + 1
      OBVIOUS
    <3> HIDE DEF calm
    <3>5. row \in ResetRow /\ row.state = "used" /\ row.uses = resets[r].uses + 1 /\ row.calm = calm
      BY <3>1, <3>3 DEF ResetRow
    <3> HIDE DEF row
    <3>6. resets' \in Seq(ResetRow) /\ DOMAIN resets' = DOMAIN resets /\ resets'[r] = row
      BY <2>1, <3>1, <3>2, <3>5
    <3>7. \A k \in DOMAIN resets : k # r => resets'[k] = resets[k]
      BY <3>2
    <3> QED BY <2>2, <3>4, <3>5, <3>6, <3>7
  <2> QED BY <2>3, <2>4
<1> HIDE DEF r, met
<1>5. SessionsTyped' /\ AllMet'
  BY <1>1, <1>2, <1>3, <1>4, IdleRequest DEF SessionsKept, SessionsTyped, AllMet, Presents, Stage
<1>6. OldMarked'
  BY <1>2 DEF OldMarked, Present
<1>7. ExchangedOnce'
  <2>1. \A t \in SessionSlots : signing'[t].kind = "rotate" => signing'[t] = signing[t]
    BY <1>3, IdleRequest
  <2>2. \A j \in DOMAIN tokens : tokens[j].state \notin {"live", "expired"} => tokens'[j].state \notin {"live", "expired"}
    BY <1>2
  <2> QED BY <1>2, <2>1, <2>2 DEF SessionsKept, ExchangedOnce
<1>8. ResetOnce'
  <2>1. ASSUME NEW t \in SessionSlots, signing'[t].kind \in {"end", "ending"}
        PROVE  t # s /\ signing'[t] = signing[t] /\ signing'[t].about \in {0} \cup DOMAIN resets
    BY <1>3, <2>1, IdleRequest DEF SessionsKept, ResetOnce
  <2>2. r # 0 => /\ r \in DOMAIN resets /\ (resets[r].uses > 0 => resets[r].calm = 0 /\ met)
                 /\ (resets[r].uses = 0 => resets[r].calm = 0)
    <3>1. r # 0 /\ resets[r].uses > 0 => resets[r].calm = 0 /\ met
      BY <1>1 DEF SessionsKept, ResetOnce, r, met
    <3>2. r # 0 => r \in DOMAIN resets
      BY <1>1
    <3>3. r # 0 /\ resets[r].uses = 0 => resets[r].calm = 0
      BY <3>2 DEF SessionsKept, ResetOnce
    <3> QED BY <3>1, <3>2, <3>3
  <2>3. ASSUME NEW k \in DOMAIN resets
        PROVE  /\ resets'[k].state # "used" => resets'[k].uses = 0
               /\ resets'[k].uses = 0 => resets'[k].calm = 0
               /\ resets'[k].uses > 1 => resets'[k].calm = 0
    <3>1. CASE k # r
      BY <1>4, <3>1 DEF SessionsKept, ResetOnce
    <3>2. CASE k = r
      <4>1. r # 0
        BY <3>2 DEF SessionsKept, SessionsTyped
      <4> QED BY <1>4, <2>2, <3>2, <4>1
    <3> QED BY <3>1, <3>2
  <2>4. ASSUME NEW t \in SessionSlots, signing'[t].kind \in {"end", "ending"}, signing'[t].about # 0,
               resets'[signing'[t].about].uses > 0
        PROVE  resets'[signing'[t].about].calm = 0 /\ signing'[t].met
    <3>1. CASE signing'[t].about = r
      <4>1. t # s /\ signing'[t] = signing[t] /\ signing[t].about = signing[s].about
        BY <2>1, <2>4, <3>1 DEF r
      <4>2. signing[t].met /\ met
        BY <1>1, <2>4, <4>1 DEF SessionsKept, AllMet, Presents, Stage, met
      <4>3. resets[r].calm = 0 /\ r # 0
        BY <1>4, <2>2, <2>4, <3>1
      <4> QED BY <1>4, <3>1, <4>1, <4>2, <4>3
    <3>2. CASE signing'[t].about # r
      BY <1>4, <2>1, <2>4, <3>2 DEF SessionsKept, ResetOnce
    <3> QED BY <3>1, <3>2
  <2> QED BY <1>4, <2>1, <2>3, <2>4 DEF ResetOnce
<1> QED BY <1>5, <1>6, <1>7, <1>8 DEF SessionsKept

LEMMA ResetRowsKept ==
  ASSUME SessionsKept, RequestReset \/ ResetExpires
  PROVE  SessionsKept'
<1> DEFINE row == [state |-> "fresh", uses |-> 0, calm |-> 0]
<1>1. resets \in Seq(ResetRow) /\ \A k \in DOMAIN resets : resets[k] \in ResetRow
  BY DEF SessionsKept, SessionsTyped
<1>2. UNCHANGED <<tokens, ended, challenges, signing>>
  BY DEF RequestReset, ResetExpires
<1>3. /\ resets' \in Seq(ResetRow) /\ DOMAIN resets \subseteq DOMAIN resets'
      /\ \A k \in DOMAIN resets :
           /\ resets'[k].uses = resets[k].uses /\ resets'[k].calm = resets[k].calm
           /\ resets'[k].state = "used" <=> resets[k].state = "used"
      /\ \A k \in DOMAIN resets' \ DOMAIN resets : resets'[k] = row
  <2>1. CASE RequestReset
    <3>1. resets' = Append(resets, row) /\ row \in ResetRow
      BY <2>1 DEF RequestReset, ResetRow
    <3> HIDE DEF row
    <3> QED BY <1>1, <3>1
  <2>2. CASE ResetExpires
    <3>1. PICK r \in DOMAIN resets : resets[r].state = "fresh" /\ resets' = [resets EXCEPT ![r].state = "expired"]
      BY <2>2 DEF ResetExpires
    <3>2. [resets[r] EXCEPT !.state = "expired"] \in ResetRow
      BY <1>1 DEF ResetRow
    <3>3. resets' \in Seq(ResetRow) /\ DOMAIN resets' = DOMAIN resets
      BY <1>1, <3>1, <3>2
    <3>4. \A k \in DOMAIN resets : resets'[k] = IF k = r THEN [resets[r] EXCEPT !.state = "expired"] ELSE resets[k]
      BY <3>1
    <3> QED BY <1>1, <3>1, <3>3, <3>4 DEF ResetRow
  <2> QED BY <2>1, <2>2
<1>4. SessionsTyped' /\ AllMet' /\ OldMarked' /\ ExchangedOnce'
  BY <1>2, <1>3 DEF SessionsKept, SessionsTyped, AllMet, OldMarked, ExchangedOnce, Presents, Stage, Present
<1>5. ResetOnce'
  BY <1>2, <1>3 DEF SessionsKept, ResetOnce
<1> QED BY <1>4, <1>5 DEF SessionsKept

-----------------------------------------------------------------------------
(* Theorems *)

LEMMA SessionsStart ==
  ASSUME SessionsInit
  PROVE  SessionsKept
<1>1. tokens = <<>> /\ resets = <<>> /\ DOMAIN tokens = {} /\ DOMAIN resets = {}
  BY DEF SessionsInit
<1>2. \A s \in SessionSlots : signing[s].kind = "idle"
  BY IdleRequest DEF SessionsInit
<1>3. SessionsTyped
  BY IdleRequest DEF SessionsInit, SessionsTyped
<1>4. AllMet
  BY IdleRequest DEF SessionsInit, AllMet, Presents
<1> QED BY <1>1, <1>2, <1>3, <1>4 DEF SessionsKept, OldMarked, ExchangedOnce, ResetOnce

LEMMA SessionsStep ==
  ASSUME SessionsKept, [SessionsNext]_sessionVars
  PROVE  SessionsKept'
<1>0. /\ challenges \subseteq Nat /\ ended \in Nat /\ DOMAIN tokens \subseteq Nat /\ DOMAIN resets \subseteq Nat
      /\ signing \in [SessionSlots -> Request]
  BY DEF SessionsKept, SessionsTyped
<1>1. ASSUME NEW s \in SessionSlots, Login(s) \/ AnswerChallenge(s) \/ OAuthLogin(s)
      PROVE  SessionsKept'
  <2>1. PICK since \in Nat : Start(s, "issue", since, 0)
    BY <1>0, <1>1 DEF Login, AnswerChallenge, OAuthLogin
  <2>2. UNCHANGED <<tokens, ended, resets, challenges>>
    BY <1>1 DEF Login, AnswerChallenge, OAuthLogin
  <2> QED BY <2>1, <2>2, StartKept
<1>2. ASSUME NEW s \in SessionSlots, PresentToken(s)
      PROVE  SessionsKept'
  <2>1. UNCHANGED <<tokens, ended, resets, challenges>>
    BY <1>2 DEF PresentToken
  <2>2. PICK i \in DOMAIN tokens :
           Start(s, IF tokens[i].state = "live" THEN "rotate" ELSE "end", 0, IF tokens[i].state = "live" THEN i ELSE 0)
    BY <1>2 DEF PresentToken
  <2>3. CASE tokens[i].state = "live"
    BY <1>0, <2>1, <2>2, <2>3, StartKept
  <2>4. CASE tokens[i].state # "live"
    BY <2>1, <2>2, <2>4, StartKept
  <2> QED BY <2>3, <2>4
<1>3. ASSUME NEW s \in SessionSlots, ChangePassword(s) \/ ConfirmReset(s)
      PROVE  SessionsKept'
  <2>1. UNCHANGED <<tokens, ended, resets, challenges>>
    BY <1>3 DEF ChangePassword, ConfirmReset
  <2>2. CASE ChangePassword(s)
    BY <2>1, <2>2, StartKept DEF ChangePassword
  <2>3. CASE ConfirmReset(s)
    <3>1. PICK r \in DOMAIN resets : resets[r].state = "fresh" /\ Start(s, "end", 0, r)
      BY <2>3 DEF ConfirmReset
    <3> QED BY <1>0, <2>1, <3>1, StartKept
  <2> QED BY <1>3, <2>2, <2>3
<1>4. ASSUME NEW s \in SessionSlots, EnableTwoFactor(s) \/ DisableTwoFactor(s)
      PROVE  SessionsKept'
  <2>1. UNCHANGED <<tokens, ended, resets, challenges>>
    BY <1>4 DEF EnableTwoFactor, DisableTwoFactor
  <2>2. \/ Start(s, "enable", 0, IF twofactor.enabled THEN 1 ELSE 0)
        \/ Start(s, "disable", 0, 0)
    BY <1>4 DEF EnableTwoFactor, DisableTwoFactor
  <2>3. CASE Start(s, "disable", 0, 0)
    BY <2>1, <2>3, StartKept
  <2>4. ASSUME NEW a \in Nat, Start(s, "enable", 0, a)
        PROVE  SessionsKept'
    BY <2>1, <2>4, StartKept
  <2>5. (IF twofactor.enabled THEN 1 ELSE 0) \in Nat
    OBVIOUS
  <2> QED BY <2>2, <2>3, <2>4, <2>5
<1>5. ASSUME NEW s \in SessionSlots, CommitEnable(s) \/ CommitDisable(s)
      PROVE  SessionsKept'
  <2>1. UNCHANGED <<tokens, ended, resets, challenges>> /\ signing' = [signing EXCEPT ![s] = Idle]
    BY <1>5 DEF CommitEnable, CommitDisable, Finish
  <2> QED BY <1>0, <2>1, IdleRequest, LeaveKept
<1>6. ASSUME NEW s \in SessionSlots, Rotate(s)
      PROVE  SessionsKept'
  <2>1. CASE Present(signing[s].about)
    BY <1>6, <2>1, RotateKept
  <2>2. CASE ~Present(signing[s].about)
    <3>1. UNCHANGED <<tokens, ended, resets, challenges>> /\ signing' = [signing EXCEPT ![s] = Idle]
      BY <1>6, <2>2 DEF Rotate, Finish
    <3> QED BY <1>0, <3>1, IdleRequest, LeaveKept
  <2> QED BY <2>1, <2>2
<1>7. ASSUME NEW s \in SessionSlots, ExecuteDelete(s)
      PROVE  SessionsKept'
  <2> DEFINE mine == [signing[s] EXCEPT !.kind = "ending", !.doomed = {i \in DOMAIN tokens : Present(i)}]
  <2>1. UNCHANGED <<tokens, ended, resets, challenges>> /\ signing[s].kind = "end"
    BY <1>7 DEF ExecuteDelete
  <2>2. signing' = [signing EXCEPT ![s] = mine]
    BY <1>7 DEF ExecuteDelete
  <2>3. mine \in Request /\ mine.kind = "ending" /\ mine.about = signing[s].about /\ mine.met = signing[s].met
    <3>1. {i \in DOMAIN tokens : Present(i)} \in SUBSET Nat
      BY <1>0
    <3>2. signing[s] \in Request
      BY <1>0
    <3> QED BY <3>1, <3>2 DEF Request
  <2> HIDE DEF mine
  <2>4. signing' \in [SessionSlots -> Request] /\ signing'[s] = mine /\ \A t \in SessionSlots : t # s => signing'[t] = signing[t]
    BY <1>0, <2>2, <2>3
  <2> QED BY <1>0, <2>1, <2>3, <2>4, LeaveKept
<1>8. ASSUME Logout \/ TokenExpires
      PROVE  SessionsKept'
  <2>1. UNCHANGED <<ended, resets, challenges, signing>>
    BY <1>8 DEF Logout, TokenExpires
  <2>2. PICK i \in DOMAIN tokens, state \in {"expired", "gone"} :
           /\ tokens' = [tokens EXCEPT ![i].state = state] /\ Present(i)
           /\ state = "expired" => tokens[i].state = "live"
    BY <1>8 DEF Logout, TokenExpires, Present
  <2> QED BY <2>1, <2>2, TokenEndsKept
<1>9. ASSUME LoginChallenged \/ ChallengeExpires
      PROVE  SessionsKept'
  <2>1. UNCHANGED <<tokens, ended, resets, signing>> /\ challenges' \subseteq Nat
    BY <1>0, <1>9 DEF LoginChallenged, ChallengeExpires
  <2> QED BY <1>0, <2>1, LeaveKept
<1>10. CASE RestartSessions
  <2>1. UNCHANGED <<tokens, ended, resets, challenges>> /\ signing' = [s \in SessionSlots |-> Idle]
    BY <1>10 DEF RestartSessions
  <2> QED BY <1>0, <2>1, IdleRequest, LeaveKept
<1>11. CASE UNCHANGED sessionVars
  BY <1>0, <1>11, LeaveKept DEF sessionVars
<1> QED BY <1>1, <1>2, <1>3, <1>4, <1>5, <1>6, <1>7, <1>8, <1>9, <1>10, <1>11,
           IssuedKept, DeleteKept, ResetRowsKept DEF SessionsNext

LEMMA SessionsAlways == SessionsSpec => []SessionsKept
BY SessionsStart, SessionsStep, PTL DEF SessionsSpec

\* EarlierSessionsEnd: what "end every session" ends stays ended, but for tokens
\* written after the DELETE had looked.
THEOREM EndedSessionsStayEnded == SessionsSpec => []EarlierSessionsEnd
<1>1. SessionsKept => EarlierSessionsEnd
  BY DEF SessionsKept, OldMarked, EarlierSessionsEnd, Present
<1> QED BY <1>1, SessionsAlways, PTL

\* SingleUse: a refresh token is exchanged twice, or a reset mail used twice,
\* only by requests that presented it and overlapped.
THEOREM TokensAreUsedOnce == SessionsSpec => []SingleUse
<1>1. SessionsKept => SingleUse
  BY DEF SessionsKept, ExchangedOnce, ResetOnce, SingleUse
<1> QED BY <1>1, SessionsAlways, PTL

-----------------------------------------------------------------------------
(* The bounds, and the second factor *)

Bounded == [kind : {"idle", "issue", "rotate", "end", "ending", "enable", "disable"},
            since : 0..MaxEnded, about : Nat, doomed : SUBSET (1..MaxTokens), met : BOOLEAN]

SessionsBounded ==
  /\ \A i \in DOMAIN tokens : tokens[i].since \in 0..MaxEnded
  /\ Len(tokens) <= MaxTokens /\ ended \in 0..MaxEnded /\ challenges \subseteq 0..MaxEnded
  /\ twofactor \in [enabled : BOOLEAN, secret : BOOLEAN] /\ started \in 0..MaxSessionRequests
  /\ signing \in [SessionSlots -> Bounded]

LEMMA IdleBounded == Idle \in Bounded
BY SessionsAssumption DEF Idle, Bounded

LEMMA StartBounded ==
  ASSUME SessionsBounded, NEW s \in SessionSlots,
         NEW kind \in {"issue", "rotate", "end", "enable", "disable"},
         NEW since \in 0..MaxEnded, NEW about \in Nat, Start(s, kind, since, about)
  PROVE  signing' \in [SessionSlots -> Bounded] /\ started' \in 0..MaxSessionRequests
<1> DEFINE mine == [Idle EXCEPT !.kind = kind, !.since = since, !.about = about,
                                !.met = \E u \in SessionSlots : Presents(u, kind, about)]
<1>1. started' \in 0..MaxSessionRequests
  <2>1. started < MaxSessionRequests /\ started' = started + 1
    BY Zenon DEF Start
  <2> QED BY <2>1, SessionsAssumption DEF SessionsBounded
<1>2. signing' = [t \in SessionSlots |->
          IF t = s THEN mine ELSE [signing[t] EXCEPT !.met = @ \/ Presents(t, kind, about)]]
  BY DEF Start
<1>3. mine \in Bounded
  BY IdleBounded DEF Bounded
<1>4. \A t \in SessionSlots : [signing[t] EXCEPT !.met = @ \/ Presents(t, kind, about)] \in Bounded
  <2> SUFFICES ASSUME NEW t \in SessionSlots, NEW met \in BOOLEAN
               PROVE  [signing[t] EXCEPT !.met = met] \in Bounded
    OBVIOUS
  <2> QED BY DEF SessionsBounded, Bounded
<1> HIDE DEF mine
<1> QED BY <1>1, <1>2, <1>3, <1>4

LEMMA FinishBounded ==
  ASSUME SessionsBounded, NEW s \in SessionSlots, Finish(s)
  PROVE  signing' \in [SessionSlots -> Bounded]
BY IdleBounded DEF SessionsBounded, Finish

\* The count a new token is signed at.
LEMMA NewTokenBounded ==
  ASSUME NEW parent, NEW since \in 0..MaxEnded, NEW s
  PROVE  NewToken(parent, since, s).since \in 0..MaxEnded
BY DEF NewToken

\* A row is added at the end; the others keep their count.
LEMMA AppendBounded ==
  ASSUME SessionsKept, SessionsBounded, NEW old \in Seq(TokenRow), DOMAIN old = DOMAIN tokens,
         Len(tokens) < MaxTokens, \A i \in DOMAIN tokens : old[i].since = tokens[i].since,
         NEW row, row.since \in 0..MaxEnded, tokens' = Append(old, row), row \in TokenRow
  PROVE  /\ \A i \in DOMAIN tokens' : tokens'[i].since \in 0..MaxEnded
         /\ Len(tokens') <= MaxTokens
<1>1. tokens \in Seq(TokenRow)
  BY DEF SessionsKept, SessionsTyped
<1>2. Len(old) = Len(tokens) /\ DOMAIN old = 1..Len(old) /\ Len(old) \in Nat
  BY <1>1
<1>3. /\ tokens' \in Seq(TokenRow) /\ Len(tokens') = Len(old) + 1 /\ DOMAIN tokens' = 1..(Len(old) + 1)
      /\ \A i \in 1..Len(old) : tokens'[i] = old[i]
      /\ tokens'[Len(old) + 1] = row
  BY <1>2
<1>4. ASSUME NEW i \in DOMAIN tokens' PROVE tokens'[i].since \in 0..MaxEnded
  <2>1. CASE i \in 1..Len(old)
    BY <1>2, <1>3, <2>1 DEF SessionsBounded
  <2>2. CASE i = Len(old) + 1
    BY <1>3, <2>2
  <2> QED BY <1>2, <1>3, <2>1, <2>2
<1> QED BY <1>2, <1>3, <1>4, SessionsAssumption

LEMMA BoundedStep ==
  ASSUME SessionsKept, SessionsBounded, [SessionsNext]_sessionVars
  PROVE  SessionsBounded'
<1> USE SessionsAssumption
<1>0. /\ tokens \in Seq(TokenRow) /\ DOMAIN tokens = 1..Len(tokens) /\ Len(tokens) \in Nat
      /\ \A i \in DOMAIN tokens : tokens[i] \in TokenRow
      /\ DOMAIN resets \subseteq Nat
  BY DEF SessionsKept, SessionsTyped
<1>1. ASSUME NEW s \in SessionSlots, UNCHANGED <<tokens, ended, resets, challenges, twofactor>>,
             NEW kind \in {"issue", "rotate", "end", "enable", "disable"},
             NEW since \in 0..MaxEnded, NEW about \in Nat, Start(s, kind, since, about)
      PROVE  SessionsBounded'
  BY <1>1, StartBounded DEF SessionsBounded
<1>2. ASSUME NEW s \in SessionSlots, Login(s) \/ AnswerChallenge(s) \/ OAuthLogin(s)
      PROVE  SessionsBounded'
  <2>1. PICK since \in 0..MaxEnded : Start(s, "issue", since, 0)
    BY <1>2 DEF Login, AnswerChallenge, OAuthLogin, SessionsBounded
  <2>2. UNCHANGED <<tokens, ended, resets, challenges, twofactor>>
    BY <1>2 DEF Login, AnswerChallenge, OAuthLogin
  <2> QED BY <1>1, <2>1, <2>2
<1>3. ASSUME NEW s \in SessionSlots, IssuePair(s)
      PROVE  SessionsBounded'
  <2> DEFINE row == NewToken(0, signing[s].since, s)
  <2>1. signing[s] \in Bounded /\ signing[s] \in Request
    BY DEF SessionsBounded, SessionsKept, SessionsTyped
  <2>2. row.since \in 0..MaxEnded /\ row \in TokenRow
    BY <2>1 DEF NewToken, TokenRow, Bounded, SessionsKept, SessionsTyped
  <2>3. tokens' = Append(tokens, row) /\ Len(tokens) < MaxTokens /\ Finish(s)
    BY <1>3 DEF IssuePair
  <2> HIDE DEF row
  <2>4. /\ \A i \in DOMAIN tokens' : tokens'[i].since \in 0..MaxEnded
        /\ Len(tokens') <= MaxTokens
    BY <1>0, <2>2, <2>3, AppendBounded
  <2> QED BY <1>3, <2>3, <2>4, FinishBounded DEF IssuePair, SessionsBounded
<1>4. ASSUME NEW s \in SessionSlots, PresentToken(s)
      PROVE  SessionsBounded'
  <2>1. PICK i \in DOMAIN tokens :
           Start(s, IF tokens[i].state = "live" THEN "rotate" ELSE "end", 0, IF tokens[i].state = "live" THEN i ELSE 0)
    BY <1>4 DEF PresentToken
  <2>2. UNCHANGED <<tokens, ended, resets, challenges, twofactor>>
    BY <1>4 DEF PresentToken
  <2>3. CASE tokens[i].state = "live"
    <3>1. Start(s, "rotate", 0, i) /\ i \in Nat /\ 0 \in 0..MaxEnded
      BY <1>0, <2>1, <2>3
    <3> QED BY <1>1, <2>2, <3>1
  <2>4. CASE tokens[i].state # "live"
    <3>1. Start(s, "end", 0, 0) /\ 0 \in 0..MaxEnded
      BY <2>1, <2>4
    <3> QED BY <1>1, <2>2, <3>1
  <2> QED BY <2>3, <2>4
<1>5. ASSUME NEW s \in SessionSlots, Rotate(s)
      PROVE  SessionsBounded'
  <2> DEFINE p == signing[s].about
             old == [tokens EXCEPT ![p].state = "revoked"]
             row == NewToken(p, tokens[p].since, s)
  <2>1. signing[s] \in Request /\ signing[s].kind = "rotate" /\ p \in DOMAIN tokens /\ Len(tokens) < MaxTokens
        /\ Finish(s) /\ UNCHANGED <<ended, resets, challenges, twofactor, started>>
    BY <1>5 DEF Rotate, SessionsKept, SessionsTyped, ExchangedOnce
  <2>2. CASE ~Present(p)
    <3>1. tokens' = tokens
      BY <1>5, <2>2 DEF Rotate
    <3> QED BY <2>1, <3>1, FinishBounded DEF SessionsBounded
  <2>3. CASE Present(p)
    <3>1. tokens' = Append(old, row)
      BY <1>5, <2>3 DEF Rotate
    <3>2. old \in Seq(TokenRow) /\ DOMAIN old = DOMAIN tokens
      <4>1. [tokens[p] EXCEPT !.state = "revoked"] \in TokenRow
        BY <1>0, <2>1 DEF TokenRow
      <4>2. old = [tokens EXCEPT ![p] = [tokens[p] EXCEPT !.state = "revoked"]]
        OBVIOUS
      <4> HIDE DEF old
      <4> QED BY <1>0, <2>1, <4>1, <4>2
    <3>3. \A i \in DOMAIN tokens : old[i].since = tokens[i].since
      BY <1>0, <2>1 DEF TokenRow
    <3>4. row.since \in 0..MaxEnded /\ row \in TokenRow
      <4>1. tokens[p].since \in 0..MaxEnded /\ tokens[p] \in TokenRow /\ p \in Nat
        BY <1>0, <2>1 DEF SessionsBounded, TokenRow
      <4> QED BY <1>0, <2>1, <4>1 DEF NewToken, TokenRow, Request
    <3> HIDE DEF p, old, row
    <3>5. /\ \A i \in DOMAIN tokens' : tokens'[i].since \in 0..MaxEnded
          /\ Len(tokens') <= MaxTokens
      BY <1>0, <2>1, <3>1, <3>2, <3>3, <3>4, AppendBounded
    <3> QED BY <2>1, <3>5, FinishBounded DEF SessionsBounded
  <2> QED BY <2>2, <2>3
<1>6. ASSUME NEW s \in SessionSlots,
             ChangePassword(s) \/ ConfirmReset(s) \/ EnableTwoFactor(s) \/ DisableTwoFactor(s)
      PROVE  SessionsBounded'
  <2>1. UNCHANGED <<tokens, ended, resets, challenges, twofactor>>
    BY <1>6 DEF ChangePassword, ConfirmReset, EnableTwoFactor, DisableTwoFactor
  <2>2. PICK kind \in {"end", "enable", "disable"}, about \in Nat : Start(s, kind, 0, about)
    <3>1. CASE ChangePassword(s)
      BY <3>1 DEF ChangePassword
    <3>2. CASE ConfirmReset(s)
      BY <1>0, <3>2 DEF ConfirmReset
    <3>3. CASE EnableTwoFactor(s)
      <4>1. (IF twofactor.enabled THEN 1 ELSE 0) \in Nat
        OBVIOUS
      <4> QED BY <3>3, <4>1, Zenon DEF EnableTwoFactor
    <3>4. CASE DisableTwoFactor(s)
      BY <3>4 DEF DisableTwoFactor
    <3> QED BY <1>6, <3>1, <3>2, <3>3, <3>4
  <2> QED BY <1>1, <2>1, <2>2
<1>7. ASSUME NEW s \in SessionSlots, ExecuteDelete(s)
      PROVE  SessionsBounded'
  <2> DEFINE doomed == {i \in DOMAIN tokens : Present(i)}
             mine == [signing[s] EXCEPT !.kind = "ending", !.doomed = doomed]
  <2>1. signing' = [signing EXCEPT ![s] = mine]
    BY <1>7 DEF ExecuteDelete
  <2>2. doomed \subseteq 1..MaxTokens
    BY <1>0 DEF SessionsBounded
  <2> HIDE DEF doomed
  <2>3. mine \in Bounded
    BY <2>2 DEF SessionsBounded, Bounded
  <2> HIDE DEF mine
  <2> QED BY <1>7, <2>1, <2>3 DEF ExecuteDelete, SessionsBounded
<1>8. ASSUME NEW s \in SessionSlots, CommitDelete(s)
      PROVE  SessionsBounded'
  <2>1. ended' \in 0..MaxEnded /\ UNCHANGED <<challenges, twofactor, started>> /\ Finish(s)
    BY <1>8 DEF CommitDelete, SessionsBounded
  <2>2. DOMAIN tokens' = DOMAIN tokens /\ Len(tokens') = Len(tokens)
    BY <1>0, <1>8 DEF CommitDelete
  <2>3. \A i \in DOMAIN tokens : tokens'[i].since = tokens[i].since
    <3>1. \A i \in DOMAIN tokens : tokens'[i] =
             IF i \in signing[s].doomed THEN [tokens[i] EXCEPT !.state = "gone"]
             ELSE [tokens[i] EXCEPT !.late = @ \/ Present(i)]
      BY <1>8 DEF CommitDelete
    <3> QED BY <1>0, <3>1 DEF TokenRow
  <2> QED BY <2>1, <2>2, <2>3, FinishBounded DEF SessionsBounded
<1>9. ASSUME NEW s \in SessionSlots, CommitEnable(s) \/ CommitDisable(s)
      PROVE  SessionsBounded'
  <2>1. twofactor' \in [enabled : BOOLEAN, secret : BOOLEAN]
    <3>1. \E on \in BOOLEAN, secret \in BOOLEAN : twofactor' = [enabled |-> on, secret |-> secret]
      <4>1. (twofactor.enabled \/ signing[s].about = 0) \in BOOLEAN
        OBVIOUS
      <4>2. CASE CommitEnable(s)
        BY <4>1, <4>2, Zenon DEF CommitEnable
      <4>3. CASE CommitDisable(s)
        BY <4>3, Zenon DEF CommitDisable
      <4> QED BY <1>9, <4>2, <4>3
    <3> QED BY <3>1
  <2> QED BY <1>9, <2>1, FinishBounded DEF CommitEnable, CommitDisable, SessionsBounded
<1>10. ASSUME Logout \/ TokenExpires
       PROVE  SessionsBounded'
  <2>1. PICK i \in DOMAIN tokens, state \in {"expired", "gone"} : tokens' = [tokens EXCEPT ![i].state = state]
    BY <1>10 DEF Logout, TokenExpires
  <2>2. DOMAIN tokens' = DOMAIN tokens /\ Len(tokens') = Len(tokens)
    BY <1>0, <2>1
  <2>3. \A j \in DOMAIN tokens : tokens'[j].since = tokens[j].since
    BY <1>0, <2>1 DEF TokenRow
  <2> QED BY <1>10, <2>2, <2>3 DEF Logout, TokenExpires, SessionsBounded
<1>11. ASSUME LoginChallenged \/ ChallengeExpires \/ RequestReset \/ ResetExpires
       PROVE  SessionsBounded'
  BY <1>11 DEF LoginChallenged, ChallengeExpires, RequestReset, ResetExpires, SessionsBounded
<1>12. CASE RestartSessions
  BY <1>12, IdleBounded DEF RestartSessions, SessionsBounded
<1>13. CASE UNCHANGED sessionVars
  BY <1>13 DEF sessionVars, SessionsBounded
<1> QED BY <1>2, <1>3, <1>4, <1>5, <1>6, <1>7, <1>8, <1>9, <1>10, <1>11, <1>12, <1>13 DEF SessionsNext

\* SessionsTypeOK: the rows, the mails and the requests in flight have the types
\* of their tables and stages, and a token is exchanged for one that exists.
THEOREM SessionRowsTyped == SessionsSpec => []SessionsTypeOK
<1>1. SessionsInit => SessionsBounded
  BY IdleBounded, SessionsAssumption DEF SessionsInit, SessionsBounded
<1>2. SessionsKept /\ SessionsBounded => SessionsTypeOK
  <2> SUFFICES ASSUME SessionsKept, SessionsBounded PROVE SessionsTypeOK
    OBVIOUS
  <2> DEFINE Row == [state : {"live", "revoked", "expired", "gone"}, parent : 0..MaxTokens,
                     since : 0..MaxEnded, late : BOOLEAN, met : BOOLEAN]
  <2>1. tokens \in Seq(TokenRow) /\ DOMAIN tokens = 1..Len(tokens) /\ Len(tokens) \in Nat /\ Len(tokens) <= MaxTokens
    BY DEF SessionsKept, SessionsTyped, SessionsBounded
  <2>2. ASSUME NEW i \in DOMAIN tokens PROVE tokens[i] \in Row
    <3>1. tokens[i] \in TokenRow /\ tokens[i].since \in 0..MaxEnded
      BY <2>1 DEF SessionsBounded
    <3>2. tokens[i].parent \in {0} \cup DOMAIN tokens
      BY DEF SessionsKept, ExchangedOnce
    <3>3. tokens[i].parent \in 0..MaxTokens
      BY <2>1, <3>2, SessionsAssumption
    <3> QED BY <3>1, <3>3 DEF TokenRow
  <2> HIDE DEF Row
  <2>3. tokens \in Seq(Row)
    BY <2>1, <2>2, ElementOfSeq, IsASeq
  <2> QED BY <2>1, <2>3 DEF Row, SessionsKept, SessionsTyped, SessionsBounded, SessionsTypeOK, ResetRow, Bounded
<1> QED BY <1>1, <1>2, BoundedStep, SessionsAlways, SessionsStep, PTL DEF SessionsSpec

-----------------------------------------------------------------------------
(***************************************************************************)
(* Accounts, provider links and access tokens                              *)
(***************************************************************************)

Errand == [kind : {"idle", "register", "registering", "resend", "resent", "link", "join",
                   "joining", "rename", "git"},
           mail : Mail \cup {Nothing}, name : UserName \cup {NoUser},
           about : Identity \cup Pat \cup {Nothing}, token : Nat, doomed : SUBSET Nat]
PatRow == [state : {"none", "live", "expired", "revoked"}, scopes : SUBSET Scope, used : BOOLEAN]
LinkKinds == {"link", "join", "joining"}

AccountsTyped ==
  /\ names \in [Mail -> UserName \cup {NoUser}] /\ verified \subseteq Mail
  /\ mails \in [Mail -> Nat] /\ proofs \in [Mail -> SUBSET Nat] /\ lapsed \in [Mail -> SUBSET Nat]
  /\ links \in [Identity -> Nat] /\ crossed \subseteq Identity
  /\ pats \in [Pat -> PatRow] /\ errands \in [AccountSlots -> Errand]

\* What a request has read still holds: an address it inserts has no committed
\* row, one it mails again has one, and a resend deletes only older tokens.
ErrandKept(j) ==
  /\ j.kind \notin {"idle", "git"} => j.mail \in Mail
  /\ j.kind \in {"register", "registering", "join", "joining", "rename"} => j.name \in UserName
  /\ j.kind \in {"registering", "joining"} => names[j.mail] = NoUser
  /\ j.kind \in {"rename", "resend", "resent"} => names[j.mail] # NoUser
  /\ j.kind = "registering" => j.token = mails[j.mail]
  /\ j.kind = "resend" => \A k \in j.doomed : k <= mails[j.mail]
  /\ j.kind = "resent" => j.token <= mails[j.mail] /\ \A k \in j.doomed : k < j.token

Apart ==
  \A q, r \in AccountSlots :
    (q # r /\ Inserting(q) /\ Inserting(r)) => errands[q].mail # errands[r].mail

LatestKept ==
  \A e \in Mail :
    /\ \A k \in proofs[e] : k <= mails[e]
    /\ names[e] # NoUser /\ e \notin verified =>
         \/ mails[e] \in proofs[e] \cup lapsed[e]
         \/ \E q \in AccountSlots :
              errands[q].kind = "resent" /\ errands[q].mail = e /\ errands[q].token = mails[e]

\* Of a provider account that was not crossed one sign-in at a time makes a link.
LinksKept ==
  /\ \A q \in AccountSlots : errands[q].kind \in LinkKinds => errands[q].about \in Identity
  /\ \A x \in Identity \ crossed :
       /\ links[x] <= 1
       /\ \A q \in AccountSlots :
            errands[q].kind \in LinkKinds /\ errands[q].about = x =>
              /\ links[x] = 0
              /\ \A r \in AccountSlots \ {q} : errands[r].kind \in LinkKinds => errands[r].about # x

AccountsKept ==
  /\ AccountsTyped /\ \A q \in AccountSlots : ErrandKept(errands[q])
  /\ Apart /\ LatestKept /\ LinksKept

LEMMA IdleErrand ==
  NoErrand \in Errand /\ NoErrand.kind = "idle" /\ NoErrand.token = 0 /\ ErrandKept(NoErrand)
  BY DEF NoErrand, Errand, ErrandKept

\* Whoever prepares a link goes on to make it, or ends.
LEMMA LinksStay ==
  ASSUME LinksKept, UNCHANGED <<links, crossed>>,
         \A o \in AccountSlots : errands'[o].kind \in LinkKinds =>
            errands[o].kind \in LinkKinds /\ errands'[o].about = errands[o].about
  PROVE  LinksKept'
BY DEF LinksKept

\* A request moves to j, and no address, token or link changes.
LEMMA ErrandMoves ==
  ASSUME AccountsKept, NEW q \in AccountSlots, NEW j \in Errand,
         errands' = [errands EXCEPT ![q] = j], ErrandKept(j),
         j.kind \in {"registering", "joining"} =>
            \A o \in AccountSlots \ {q} : Inserting(o) => errands[o].mail # j.mail,
         errands[q].kind # "resent",
         UNCHANGED <<names, verified, mails, proofs, lapsed, links>>,
         pats' \in [Pat -> PatRow], crossed \subseteq crossed', crossed' \subseteq Identity,
         j.kind \in LinkKinds =>
            \/ errands[q].kind \in LinkKinds /\ errands[q].about = j.about /\ UNCHANGED crossed
            \/ /\ j.about \in Identity /\ links[j.about] = 0
               /\ j.about \notin crossed' => \A o \in AccountSlots \ {q} : errands[o].about # j.about
  PROVE  AccountsKept'
<1>1. errands' \in [AccountSlots -> Errand] /\ errands'[q] = j /\ \A o \in AccountSlots \ {q} : errands'[o] = errands[o]
  BY DEF AccountsKept, AccountsTyped
<1>2. AccountsTyped'
  BY <1>1 DEF AccountsKept, AccountsTyped
<1>3. \A o \in AccountSlots : ErrandKept(errands[o])'
  BY <1>1 DEF AccountsKept, ErrandKept
<1>4. Apart'
  BY <1>1 DEF AccountsKept, Apart, Inserting
<1>5. LatestKept'
  BY <1>1 DEF AccountsKept, LatestKept
<1>6. LinksKept'
  <2>1. CASE j.kind \notin LinkKinds
    BY <1>1, <2>1 DEF AccountsKept, LinksKept
  <2>2. CASE j.kind \in LinkKinds /\ errands[q].kind \in LinkKinds /\ errands[q].about = j.about /\ UNCHANGED crossed
    BY <1>1, <2>2, LinksStay DEF AccountsKept
  <2>3. CASE /\ j.kind \in LinkKinds /\ j.about \in Identity /\ links[j.about] = 0
             /\ j.about \notin crossed' => \A o \in AccountSlots \ {q} : errands[o].about # j.about
    BY <1>1, <2>3 DEF AccountsKept, LinksKept
  <2> QED BY <2>1, <2>2, <2>3
<1> QED BY <1>2, <1>3, <1>4, <1>5, <1>6 DEF AccountsKept

LEMMA ErrandEnds ==
  ASSUME AccountsKept, NEW q \in AccountSlots, Return(q), errands[q].kind # "resent",
         UNCHANGED <<names, verified, mails, proofs, lapsed, links, crossed>>,
         pats' \in [Pat -> PatRow]
  PROVE  AccountsKept'
<1>1. NoErrand.kind \notin LinkKinds /\ NoErrand.kind \notin {"registering", "joining"}
  BY IdleErrand DEF LinkKinds
<1>2. errands' = [errands EXCEPT ![q] = NoErrand]
  BY DEF Return, Proceed
<1>3. crossed \subseteq crossed' /\ crossed' \subseteq Identity
  BY DEF AccountsKept, AccountsTyped
<1> QED BY <1>1, <1>2, <1>3, IdleErrand, ErrandMoves

-----------------------------------------------------------------------------
(* Steps of requests that only read, or end *)

LEMMA ErrandReadsKept ==
  ASSUME AccountsKept, NEW q \in AccountSlots,
         \/ \E e \in Mail, n \in UserName : CheckRegistration(q, e, n) \/ CheckName(q, e, n)
         \/ \E e \in Mail : StartResend(q, e)
         \/ \E p \in Pat : PresentPat(q, p, "repo:read") \/ PresentPat(q, p, "repo:write")
  PROVE  AccountsKept'
<1>1. /\ UNCHANGED <<names, verified, mails, proofs, lapsed, links, crossed, pats>>
      /\ errands[q].kind = "idle"
  BY DEF CheckRegistration, CheckName, StartResend, PresentPat, Launch, mailbox
<1>2. PICK j \in Errand :
        /\ errands' = [errands EXCEPT ![q] = j] /\ ErrandKept(j)
        /\ j.kind \in {"register", "rename", "resend", "git"}
  <2>1. ASSUME NEW e \in Mail, NEW n \in UserName, CheckRegistration(q, e, n)
        PROVE  \E j \in Errand : /\ errands' = [errands EXCEPT ![q] = j] /\ ErrandKept(j)
                                 /\ j.kind \in {"register", "rename", "resend", "git"}
    <3> DEFINE j == [NoErrand EXCEPT !.kind = "register", !.mail = e, !.name = n]
    <3>1. j \in Errand /\ j.kind = "register" /\ j.mail = e /\ j.name = n
      BY DEF NoErrand, Errand
    <3>2. errands' = [errands EXCEPT ![q] = j]
      BY <2>1 DEF CheckRegistration, Launch
    <3> HIDE DEF j
    <3> QED BY <3>1, <3>2 DEF ErrandKept
  <2>2. ASSUME NEW e \in Mail, NEW n \in UserName, CheckName(q, e, n)
        PROVE  \E j \in Errand : /\ errands' = [errands EXCEPT ![q] = j] /\ ErrandKept(j)
                                 /\ j.kind \in {"register", "rename", "resend", "git"}
    <3> DEFINE j == [NoErrand EXCEPT !.kind = "rename", !.mail = e, !.name = n]
    <3>1. j \in Errand /\ j.kind = "rename" /\ j.mail = e /\ j.name = n
      BY DEF NoErrand, Errand
    <3>2. errands' = [errands EXCEPT ![q] = j] /\ names[e] # NoUser
      BY <2>2 DEF CheckName, Launch, Registered
    <3> HIDE DEF j
    <3> QED BY <3>1, <3>2 DEF ErrandKept
  <2>3. ASSUME NEW e \in Mail, StartResend(q, e)
        PROVE  \E j \in Errand : /\ errands' = [errands EXCEPT ![q] = j] /\ ErrandKept(j)
                                 /\ j.kind \in {"register", "rename", "resend", "git"}
    <3> DEFINE j == [NoErrand EXCEPT !.kind = "resend", !.mail = e, !.doomed = proofs[e]]
    <3>1. proofs[e] \in SUBSET Nat /\ \A k \in proofs[e] : k <= mails[e]
      BY DEF AccountsKept, AccountsTyped, LatestKept
    <3>2. j \in Errand /\ j.kind = "resend" /\ j.mail = e /\ j.doomed = proofs[e]
      BY <3>1 DEF NoErrand, Errand
    <3>3. errands' = [errands EXCEPT ![q] = j] /\ names[e] # NoUser
      BY <2>3 DEF StartResend, Launch, Registered
    <3> HIDE DEF j
    <3> QED BY <3>1, <3>2, <3>3 DEF ErrandKept
  <2>4. ASSUME NEW p \in Pat, PresentPat(q, p, "repo:read") \/ PresentPat(q, p, "repo:write")
        PROVE  \E j \in Errand : /\ errands' = [errands EXCEPT ![q] = j] /\ ErrandKept(j)
                                 /\ j.kind \in {"register", "rename", "resend", "git"}
    <3> DEFINE j == [NoErrand EXCEPT !.kind = "git", !.about = p]
    <3>1. j \in Errand /\ j.kind = "git"
      BY DEF NoErrand, Errand
    <3>2. errands' = [errands EXCEPT ![q] = j]
      BY <2>4 DEF PresentPat, Launch
    <3> HIDE DEF j
    <3> QED BY <3>1, <3>2 DEF ErrandKept
  <2> QED BY <2>1, <2>2, <2>3, <2>4
<1>3. pats' \in [Pat -> PatRow] /\ crossed' \subseteq Identity /\ crossed \subseteq crossed'
  BY <1>1 DEF AccountsKept, AccountsTyped
<1>4. j.kind \notin LinkKinds /\ j.kind \notin {"registering", "joining"}
  BY <1>2 DEF LinkKinds
<1> QED BY <1>1, <1>2, <1>3, <1>4, ErrandMoves

LEMMA FindLinkKept ==
  ASSUME AccountsKept, NEW q \in AccountSlots, NEW x \in Identity, FindLink(q, x)
  PROVE  AccountsKept'
<1> DEFINE e == MailOf[x]
           kind == IF Registered(e) THEN "link" ELSE "join"
<1>1. /\ UNCHANGED <<names, verified, mails, proofs, lapsed, links, pats>>
      /\ errands[q].kind = "idle" /\ links[x] = 0
      /\ crossed' = IF \E o \in AccountSlots \ {q} : errands[o].about = x THEN crossed \cup {x} ELSE crossed
  BY DEF FindLink, Launch, mailbox
<1>2. PICK n \in UserName :
        errands' = [errands EXCEPT ![q] = [NoErrand EXCEPT !.kind = kind, !.mail = e, !.name = n, !.about = x]]
  BY DEF FindLink, Launch
<1> DEFINE j == [NoErrand EXCEPT !.kind = kind, !.mail = e, !.name = n, !.about = x]
<1>3. e \in Mail /\ kind \in {"link", "join"}
  BY IdentityAssumption
<1> HIDE DEF e, kind
<1>4. j \in Errand /\ j.kind = kind /\ j.mail = e /\ j.name = n /\ j.about = x
  BY <1>3 DEF NoErrand, Errand
<1>5. errands' = [errands EXCEPT ![q] = j]
  BY <1>2
<1> HIDE DEF j
<1>6. ErrandKept(j)
  BY <1>3, <1>4 DEF ErrandKept
<1>7. crossed \subseteq crossed' /\ crossed' \subseteq Identity /\ pats' \in [Pat -> PatRow]
  BY <1>1 DEF AccountsKept, AccountsTyped
<1> QED BY <1>1, <1>3, <1>4, <1>5, <1>6, <1>7, ErrandMoves

LEMMA JoinerKept ==
  ASSUME AccountsKept, NEW q \in AccountSlots, InsertJoiner(q)
  PROVE  AccountsKept'
<1> DEFINE r == errands[q]
           j == [r EXCEPT !.kind = "joining"]
<1>1. /\ UNCHANGED <<names, verified, mails, proofs, lapsed, links, crossed, pats>>
      /\ r.kind = "join" /\ ~IndexWaits(q) /\ r \in Errand /\ ErrandKept(r)
      /\ pats' \in [Pat -> PatRow] /\ crossed' \subseteq Identity /\ crossed \subseteq crossed'
  BY DEF InsertJoiner, mailbox, AccountsKept, AccountsTyped
<1>2. CASE Registered(r.mail) \/ Taken(r.name)
  <2>1. Return(q)
    BY <1>2 DEF InsertJoiner
  <2> QED BY <1>1, <2>1, ErrandEnds
<1>3. CASE ~Registered(r.mail)
  <2>1. errands' = [errands EXCEPT ![q] = j] \/ Return(q)
    BY DEF InsertJoiner, Proceed
  <2>2. /\ j \in Errand /\ j.kind = "joining" /\ j.mail = r.mail /\ j.name = r.name /\ j.about = r.about
    BY <1>1 DEF Errand
  <2> HIDE DEF j
  <2>3. ErrandKept(j)
    BY <1>1, <1>3, <2>2 DEF ErrandKept, Registered
  <2>4. \A o \in AccountSlots \ {q} : Inserting(o) => errands[o].mail # j.mail
    BY <1>1, <2>2 DEF IndexWaits
  <2>5. r.kind \in LinkKinds /\ r.kind # "resent"
    BY <1>1 DEF LinkKinds
  <2> QED BY <1>1, <2>1, <2>2, <2>3, <2>4, <2>5, ErrandMoves, ErrandEnds
<1> QED BY <1>2, <1>3

\* Steps on access tokens alone; a request of git ends.
LEMMA PatsKept ==
  ASSUME AccountsKept,
         \/ \E p \in Pat : \/ CreatePat(p, {"repo:read"}) \/ CreatePat(p, {"repo"})
                           \/ RevokePat(p) \/ PatExpires(p)
         \/ \E q \in AccountSlots : CommitUse(q)
  PROVE  AccountsKept' /\ pats' \in [Pat -> PatRow]
<1>1. UNCHANGED <<names, verified, mails, proofs, lapsed, links, crossed>>
  BY DEF CreatePat, RevokePat, PatExpires, CommitUse, mailbox
<1>2. pats \in [Pat -> PatRow] /\ \A p \in Pat : pats[p] \in PatRow
  BY DEF AccountsKept, AccountsTyped
<1>3. ASSUME NEW p \in Pat, CreatePat(p, {"repo:read"}) \/ CreatePat(p, {"repo"}) \/ RevokePat(p) \/ PatExpires(p)
      PROVE  AccountsKept' /\ pats' \in [Pat -> PatRow]
  <2>1. pats' \in [Pat -> PatRow]
    <3>1. PICK row \in PatRow : pats' = [pats EXCEPT ![p] = row]
      <4>1. CASE CreatePat(p, {"repo:read"})
        BY <4>1 DEF CreatePat, PatRow, Scope
      <4>2. CASE CreatePat(p, {"repo"})
        BY <4>2 DEF CreatePat, PatRow, Scope
      <4>3. CASE RevokePat(p) \/ PatExpires(p)
        <5>1. /\ [pats[p] EXCEPT !.state = "revoked"] \in PatRow
              /\ [pats[p] EXCEPT !.state = "expired"] \in PatRow
          BY <1>2 DEF PatRow
        <5> QED BY <4>3, <5>1 DEF RevokePat, PatExpires
      <4> QED BY <1>3, <4>1, <4>2, <4>3
    <3> QED BY <1>2, <3>1
  <2>2. UNCHANGED errands
    BY <1>3 DEF CreatePat, RevokePat, PatExpires
  <2>3. AccountsTyped'
    BY <1>1, <2>1, <2>2 DEF AccountsKept, AccountsTyped
  <2> QED BY <1>1, <2>1, <2>2, <2>3 DEF AccountsKept, ErrandKept, Apart, Inserting, LatestKept, LinksKept
<1>4. ASSUME NEW q \in AccountSlots, CommitUse(q)
      PROVE  AccountsKept' /\ pats' \in [Pat -> PatRow]
  <2>1. pats' \in [Pat -> PatRow]
    <3>1. CASE errands[q].about \in Pat
      <4>1. [pats[errands[q].about] EXCEPT !.used = TRUE] \in PatRow
        BY <1>2, <3>1 DEF PatRow
      <4> QED BY <1>2, <1>4, <3>1, <4>1 DEF CommitUse
    <3>2. CASE errands[q].about \notin Pat
      BY <1>2, <1>4, <3>2 DEF CommitUse
    <3> QED BY <3>1, <3>2
  <2>2. Return(q) /\ errands[q].kind = "git"
    BY <1>4 DEF CommitUse
  <2> QED BY <1>1, <2>1, <2>2, ErrandEnds
<1> QED BY <1>3, <1>4

-----------------------------------------------------------------------------
(* Steps that write *)

LEMMA RegistrationMailed ==
  ASSUME AccountsKept, NEW q \in AccountSlots, InsertRegistration(q)
  PROVE  AccountsKept'
<1> DEFINE r == errands[q]
           j == [r EXCEPT !.kind = "registering", !.token = mails[r.mail] + 1]
<1>1. /\ UNCHANGED <<names, verified, proofs, lapsed, links, crossed, pats>>
      /\ r.kind = "register" /\ ~IndexWaits(q) /\ r \in Errand /\ ErrandKept(r)
      /\ r.mail \in Mail /\ r.name \in UserName /\ mails[r.mail] \in Nat
  BY DEF InsertRegistration, AccountsKept, AccountsTyped, ErrandKept
<1>2. CASE Registered(r.mail) \/ Taken(r.name)
  <2>1. Return(q) /\ UNCHANGED mails
    BY <1>2 DEF InsertRegistration
  <2>2. pats' \in [Pat -> PatRow]
    BY <1>1 DEF AccountsKept, AccountsTyped
  <2> QED BY <1>1, <2>1, <2>2, ErrandEnds
<1>3. CASE ~(Registered(r.mail) \/ Taken(r.name))
  <2>1. mails' = [mails EXCEPT ![r.mail] = @ + 1] /\ errands' = [errands EXCEPT ![q] = j]
    BY <1>3 DEF InsertRegistration, Proceed
  <2>2. /\ j \in Errand /\ j.kind = "registering" /\ j.mail = r.mail /\ j.name = r.name
        /\ j.token = mails[r.mail] + 1
    <3>1. PICK token \in Nat : token = mails[r.mail] + 1
      BY <1>1
    <3>2. j = [r EXCEPT !.kind = "registering", !.token = token]
      BY <3>1
    <3> HIDE DEF j
    <3>3. j \in Errand /\ j.kind = "registering" /\ j.mail = r.mail /\ j.name = r.name /\ j.token = token
      BY <1>1, <3>2 DEF Errand
    <3> QED BY <3>1, <3>3
  <2> HIDE DEF j
  <2>3. errands' \in [AccountSlots -> Errand] /\ errands'[q] = j /\ \A o \in AccountSlots \ {q} : errands'[o] = errands[o]
    BY <2>1, <2>2 DEF AccountsKept, AccountsTyped
  <2>4. mails' \in [Mail -> Nat] /\ mails'[r.mail] = mails[r.mail] + 1 /\ \A e \in Mail : e # r.mail => mails'[e] = mails[e]
    BY <1>1, <2>1 DEF AccountsKept, AccountsTyped
  <2>5. names[r.mail] = NoUser /\ \A o \in AccountSlots \ {q} : Inserting(o) => errands[o].mail # r.mail
    BY <1>1, <1>3 DEF Registered, IndexWaits
  <2> HIDE DEF r
  <2>6. AccountsTyped'
    BY <1>1, <2>3, <2>4 DEF AccountsKept, AccountsTyped
  <2>7. ASSUME NEW o \in AccountSlots
        PROVE  ErrandKept(errands[o])'
    <3>1. CASE o = q
      BY <1>1, <2>2, <2>3, <2>4, <2>5, <3>1 DEF ErrandKept
    <3>2. CASE o # q
      <4>1. ErrandKept(errands[o]) /\ errands'[o] = errands[o] /\ errands[o] \in Errand
        BY <2>3, <3>2 DEF AccountsKept, AccountsTyped
      <4>2. CASE errands[o].mail # r.mail
        BY <1>1, <2>4, <4>1, <4>2 DEF ErrandKept
      <4>3. CASE errands[o].mail = r.mail
        BY <1>1, <2>5, <3>2, <4>1, <4>3 DEF ErrandKept, Inserting
      <4> QED BY <4>2, <4>3
    <3> QED BY <3>1, <3>2
  <2>8. Apart'
    BY <2>2, <2>3, <2>5 DEF AccountsKept, Apart, Inserting
  <2>9. LatestKept'
    <3>1. ASSUME NEW e \in Mail
          PROVE  \A k \in proofs'[e] : k <= mails'[e]
      <4>1. proofs[e] \in SUBSET Nat /\ mails[e] \in Nat /\ mails[e] <= mails'[e] /\ mails'[e] \in Nat
        BY <2>4 DEF AccountsKept, AccountsTyped
      <4> QED BY <1>1, <4>1 DEF AccountsKept, LatestKept
    <3>2. ASSUME NEW e \in Mail, names'[e] # NoUser, e \notin verified'
          PROVE  \/ mails'[e] \in proofs'[e] \cup lapsed'[e]
                 \/ \E o \in AccountSlots :
                      errands'[o].kind = "resent" /\ errands'[o].mail = e /\ errands'[o].token = mails'[e]
      <4>1. e # r.mail /\ mails'[e] = mails[e]
        BY <1>1, <2>4, <2>5, <3>2
      <4>2. \A o \in AccountSlots : errands[o].kind = "resent" => errands'[o] = errands[o]
        BY <1>1, <2>3 DEF r
      <4> QED BY <1>1, <3>2, <4>1, <4>2 DEF AccountsKept, LatestKept
    <3> QED BY <3>1, <3>2 DEF LatestKept
  <2>10. LinksKept'
    BY <1>1, <2>2, <2>3, LinksStay DEF AccountsKept, LinkKinds
  <2> QED BY <2>6, <2>7, <2>8, <2>9, <2>10 DEF AccountsKept
<1> QED BY <1>2, <1>3

LEMMA RegistrationKept ==
  ASSUME AccountsKept, NEW q \in AccountSlots, CommitRegistration(q)
  PROVE  AccountsKept'
<1> DEFINE r == errands[q]
<1>1. /\ UNCHANGED <<verified, mails, lapsed, links, crossed, pats>> /\ r.kind = "registering"
      /\ r \in Errand /\ r.mail \in Mail /\ r.name \in UserName /\ r.token = mails[r.mail]
      /\ names' = [names EXCEPT ![r.mail] = r.name]
      /\ proofs' = [proofs EXCEPT ![r.mail] = @ \cup {r.token}]
      /\ errands' = [errands EXCEPT ![q] = NoErrand]
  BY DEF CommitRegistration, AccountsKept, AccountsTyped, ErrandKept, Return, Proceed
<1>2. /\ errands' \in [AccountSlots -> Errand] /\ errands'[q] = NoErrand
      /\ \A o \in AccountSlots \ {q} : errands'[o] = errands[o]
  BY <1>1, IdleErrand DEF AccountsKept, AccountsTyped
<1>3. /\ names' \in [Mail -> UserName \cup {NoUser}] /\ names'[r.mail] # NoUser
      /\ \A e \in Mail : e # r.mail => names'[e] = names[e]
  BY <1>1, NameAssumption DEF AccountsKept, AccountsTyped
<1>4. /\ proofs' \in [Mail -> SUBSET Nat] /\ proofs'[r.mail] = proofs[r.mail] \cup {mails[r.mail]}
      /\ \A e \in Mail : e # r.mail => proofs'[e] = proofs[e]
  <2>1. r.token \in Nat /\ proofs \in [Mail -> SUBSET Nat]
    BY <1>1 DEF AccountsKept, AccountsTyped, Errand
  <2>2. proofs[r.mail] \cup {r.token} \in SUBSET Nat
    BY <1>1, <2>1
  <2> QED BY <1>1, <2>1, <2>2
<1>5. \A o \in AccountSlots \ {q} : Inserting(o) => errands[o].mail # r.mail
  BY <1>1 DEF AccountsKept, Apart, Inserting
<1>6. AccountsTyped'
  BY <1>1, <1>2, <1>3, <1>4 DEF AccountsKept, AccountsTyped
<1> HIDE DEF r
<1>7. ASSUME NEW o \in AccountSlots
      PROVE  ErrandKept(errands[o])'
  <2>1. CASE o = q
    BY <1>2, <2>1, IdleErrand DEF ErrandKept
  <2>2. CASE o # q
    <3>1. ErrandKept(errands[o]) /\ errands'[o] = errands[o]
      BY <1>2, <2>2 DEF AccountsKept
    <3> QED BY <1>1, <1>3, <1>5, <2>2, <3>1 DEF ErrandKept, Inserting
  <2> QED BY <2>1, <2>2
<1>8. Apart'
  BY <1>2, IdleErrand DEF AccountsKept, Apart, Inserting
<1>9. LatestKept'
  <2>1. ASSUME NEW e \in Mail
        PROVE  /\ \A k \in proofs'[e] : k <= mails'[e]
               /\ names'[e] # NoUser /\ e \notin verified' =>
                    \/ mails'[e] \in proofs'[e] \cup lapsed'[e]
                    \/ \E o \in AccountSlots :
                         errands'[o].kind = "resent" /\ errands'[o].mail = e /\ errands'[o].token = mails'[e]
    <3>1. CASE e = r.mail
      <4>1. mails[e] \in Nat /\ mails'[e] = mails[e]
        BY <1>1 DEF AccountsKept, AccountsTyped
      <4> QED BY <1>4, <3>1, <4>1 DEF AccountsKept, LatestKept
    <3>2. CASE e # r.mail
      <4>1. \A o \in AccountSlots : errands[o].kind = "resent" => errands'[o] = errands[o]
        BY <1>1, <1>2 DEF r
      <4> QED BY <1>1, <1>3, <1>4, <3>2, <4>1 DEF AccountsKept, LatestKept
    <3> QED BY <3>1, <3>2
  <2> QED BY <2>1 DEF LatestKept
<1>10. LinksKept'
  BY <1>1, <1>2, IdleErrand, LinksStay DEF AccountsKept, LinkKinds
<1> QED BY <1>6, <1>7, <1>8, <1>9, <1>10 DEF AccountsKept

LEMMA ProofsGo ==
  ASSUME AccountsKept,
         \E e \in Mail : VerifyEmail(e) \/ \E k \in proofs[e] : ProofExpires(e, k)
  PROVE  AccountsKept'
<1> PICK e \in Mail : VerifyEmail(e) \/ \E k \in proofs[e] : ProofExpires(e, k)
  OBVIOUS
<1>1. UNCHANGED <<names, mails, links, crossed, pats, errands>>
  BY DEF VerifyEmail, ProofExpires
<1>2. proofs \in [Mail -> SUBSET Nat] /\ lapsed \in [Mail -> SUBSET Nat] /\ verified \subseteq Mail
  BY DEF AccountsKept, AccountsTyped
<1>3. /\ proofs' \in [Mail -> SUBSET Nat] /\ lapsed' \in [Mail -> SUBSET Nat] /\ verified' \subseteq Mail
      /\ verified \subseteq verified'
      /\ \A d \in Mail : /\ proofs'[d] \subseteq proofs[d]
                         /\ d \in verified' \/ proofs[d] \cup lapsed[d] \subseteq proofs'[d] \cup lapsed'[d]
  <2>1. CASE VerifyEmail(e)
    <3>1. /\ verified' = verified \cup {e} /\ proofs' = [proofs EXCEPT ![e] = {}] /\ lapsed' = lapsed
      BY <2>1 DEF VerifyEmail
    <3> QED BY <1>2, <3>1
  <2>2. ASSUME NEW k \in proofs[e], ProofExpires(e, k)
        PROVE  /\ proofs' \in [Mail -> SUBSET Nat] /\ lapsed' \in [Mail -> SUBSET Nat] /\ verified' = verified
               /\ \A d \in Mail : /\ proofs'[d] \subseteq proofs[d]
                                  /\ proofs[d] \cup lapsed[d] \subseteq proofs'[d] \cup lapsed'[d]
    <3>1. /\ proofs' = [proofs EXCEPT ![e] = @ \ {k}] /\ lapsed' = [lapsed EXCEPT ![e] = @ \cup {k}]
          /\ verified' = verified
      BY <2>2 DEF ProofExpires
    <3>2. proofs[e] \ {k} \in SUBSET Nat /\ lapsed[e] \cup {k} \in SUBSET Nat
      BY <1>2
    <3> QED BY <1>2, <3>1, <3>2
  <2> QED BY <1>2, <2>1, <2>2
<1>4. AccountsTyped'
  BY <1>1, <1>3 DEF AccountsKept, AccountsTyped
<1>5. LatestKept'
  BY <1>1, <1>3 DEF AccountsKept, LatestKept
<1> QED BY <1>1, <1>4, <1>5 DEF AccountsKept, ErrandKept, Apart, Inserting, LinksKept

LEMMA ResendMailed ==
  ASSUME AccountsKept, NEW q \in AccountSlots, MailToken(q)
  PROVE  AccountsKept'
<1> DEFINE r == errands[q]
           j == [r EXCEPT !.kind = "resent", !.token = mails[r.mail] + 1]
<1>1. /\ UNCHANGED <<names, verified, proofs, lapsed, links, crossed, pats>>
      /\ r.kind = "resend" /\ r \in Errand /\ r.mail \in Mail /\ names[r.mail] # NoUser
      /\ mails[r.mail] \in Nat /\ r.doomed \in SUBSET Nat /\ \A k \in r.doomed : k <= mails[r.mail]
      /\ mails' = [mails EXCEPT ![r.mail] = @ + 1] /\ errands' = [errands EXCEPT ![q] = j]
  BY DEF MailToken, AccountsKept, AccountsTyped, ErrandKept, Errand, Proceed
<1>2. /\ j \in Errand /\ j.kind = "resent" /\ j.mail = r.mail /\ j.doomed = r.doomed
      /\ j.token = mails[r.mail] + 1
  <2>1. PICK token \in Nat : token = mails[r.mail] + 1
    BY <1>1
  <2>2. j = [r EXCEPT !.kind = "resent", !.token = token]
    BY <2>1
  <2> HIDE DEF j
  <2>3. /\ j \in Errand /\ j.kind = "resent" /\ j.mail = r.mail /\ j.doomed = r.doomed
        /\ j.token = token
    BY <1>1, <2>2 DEF Errand
  <2> QED BY <2>1, <2>3
<1> HIDE DEF j
<1>3. errands' \in [AccountSlots -> Errand] /\ errands'[q] = j /\ \A o \in AccountSlots \ {q} : errands'[o] = errands[o]
  BY <1>1, <1>2 DEF AccountsKept, AccountsTyped
<1>4. mails' \in [Mail -> Nat] /\ mails'[r.mail] = mails[r.mail] + 1 /\ \A e \in Mail : e # r.mail => mails'[e] = mails[e]
  BY <1>1 DEF AccountsKept, AccountsTyped
<1> HIDE DEF r
<1>5. AccountsTyped'
  BY <1>1, <1>3, <1>4 DEF AccountsKept, AccountsTyped
<1>6. ASSUME NEW o \in AccountSlots
      PROVE  ErrandKept(errands[o])'
  <2>1. CASE o = q
    BY <1>1, <1>2, <1>3, <1>4, <2>1 DEF ErrandKept
  <2>2. CASE o # q
    <3>1. ErrandKept(errands[o]) /\ errands'[o] = errands[o] /\ errands[o] \in Errand
      BY <1>3, <2>2 DEF AccountsKept, AccountsTyped
    <3>2. errands[o].token \in Nat /\ errands[o].doomed \in SUBSET Nat
      BY <3>1 DEF Errand
    <3>3. CASE errands[o].mail # r.mail
      BY <1>1, <1>4, <3>1, <3>3 DEF ErrandKept
    <3>4. CASE errands[o].mail = r.mail
      BY <1>1, <1>4, <3>1, <3>2, <3>4 DEF ErrandKept
    <3> QED BY <3>3, <3>4
  <2> QED BY <2>1, <2>2
<1>7. Apart'
  BY <1>2, <1>3 DEF AccountsKept, Apart, Inserting
<1>8. LatestKept'
  <2>1. ASSUME NEW e \in Mail
        PROVE  /\ \A k \in proofs'[e] : k <= mails'[e]
               /\ names'[e] # NoUser /\ e \notin verified' =>
                    \/ mails'[e] \in proofs'[e] \cup lapsed'[e]
                    \/ \E o \in AccountSlots :
                         errands'[o].kind = "resent" /\ errands'[o].mail = e /\ errands'[o].token = mails'[e]
    <3>1. CASE e = r.mail
      <4>1. \A k \in proofs[e] : k <= mails[e] /\ k \in Nat
        BY DEF AccountsKept, LatestKept, AccountsTyped
      <4>2. \A k \in proofs'[e] : k <= mails'[e]
        BY <1>1, <1>4, <3>1, <4>1
      <4> QED BY <1>2, <1>3, <1>4, <3>1, <4>2
    <3>2. CASE e # r.mail
      <4>1. \A o \in AccountSlots : errands[o].kind = "resent" => errands'[o] = errands[o]
        BY <1>1, <1>3 DEF r
      <4> QED BY <1>1, <1>4, <3>2, <4>1 DEF AccountsKept, LatestKept
    <3> QED BY <3>1, <3>2
  <2> QED BY <2>1 DEF LatestKept
<1>9. LinksKept'
  BY <1>1, <1>2, <1>3, LinksStay DEF AccountsKept, LinkKinds
<1> QED BY <1>5, <1>6, <1>7, <1>8, <1>9 DEF AccountsKept

LEMMA ResendKept ==
  ASSUME AccountsKept, NEW q \in AccountSlots, CommitResend(q)
  PROVE  AccountsKept'
<1> DEFINE r == errands[q]
<1>1. /\ UNCHANGED <<names, verified, mails, lapsed, links, crossed, pats>> /\ r.kind = "resent"
      /\ r \in Errand /\ r.mail \in Mail /\ r.token <= mails[r.mail] /\ \A k \in r.doomed : k < r.token
      /\ proofs' = [proofs EXCEPT ![r.mail] = (@ \ r.doomed) \cup {r.token}]
      /\ errands' = [errands EXCEPT ![q] = NoErrand]
  BY DEF CommitResend, AccountsKept, AccountsTyped, ErrandKept, Return, Proceed
<1>2. r.token \in Nat /\ r.doomed \in SUBSET Nat /\ mails[r.mail] \in Nat
  BY <1>1 DEF Errand, AccountsKept, AccountsTyped
<1>3. /\ errands' \in [AccountSlots -> Errand] /\ errands'[q] = NoErrand
      /\ \A o \in AccountSlots \ {q} : errands'[o] = errands[o]
  BY <1>1, IdleErrand DEF AccountsKept, AccountsTyped
<1>4. /\ proofs' \in [Mail -> SUBSET Nat] /\ proofs'[r.mail] = (proofs[r.mail] \ r.doomed) \cup {r.token}
      /\ \A e \in Mail : e # r.mail => proofs'[e] = proofs[e]
  <2>1. proofs \in [Mail -> SUBSET Nat]
    BY DEF AccountsKept, AccountsTyped
  <2>2. (proofs[r.mail] \ r.doomed) \cup {r.token} \in SUBSET Nat
    BY <1>1, <1>2, <2>1
  <2> QED BY <1>1, <2>1, <2>2
<1>5. AccountsTyped'
  BY <1>1, <1>3, <1>4 DEF AccountsKept, AccountsTyped
<1>6. LatestKept'
  <2>1. ASSUME NEW e \in Mail
        PROVE  /\ \A k \in proofs'[e] : k <= mails'[e]
               /\ names'[e] # NoUser /\ e \notin verified' =>
                    \/ mails'[e] \in proofs'[e] \cup lapsed'[e]
                    \/ \E o \in AccountSlots :
                         errands'[o].kind = "resent" /\ errands'[o].mail = e /\ errands'[o].token = mails'[e]
    <3>1. \A k \in proofs'[e] : k <= mails'[e]
      BY <1>1, <1>4 DEF AccountsKept, LatestKept
    <3>2. CASE e # r.mail
      <4>1. \A o \in AccountSlots : errands[o].mail = e => errands'[o] = errands[o]
        BY <1>3, <3>2
      <4> QED BY <1>1, <1>4, <3>1, <3>2, <4>1 DEF AccountsKept, LatestKept
    <3>3. CASE e = r.mail /\ r.token = mails[e]
      BY <1>1, <1>4, <3>1, <3>3
    <3>4. CASE e = r.mail /\ r.token # mails[e]
      <4>1. mails[e] \notin r.doomed
        BY <1>1, <1>2, <3>4
      <4>2. \A o \in AccountSlots : errands[o].token = mails[e] => errands'[o] = errands[o]
        BY <1>3, <3>4
      <4>3. names'[e] # NoUser /\ e \notin verified' =>
              \/ mails[e] \in proofs[e] \cup lapsed[e]
              \/ \E o \in AccountSlots :
                   errands[o].kind = "resent" /\ errands[o].mail = e /\ errands[o].token = mails[e]
        BY <1>1 DEF AccountsKept, LatestKept
      <4> HIDE DEF r
      <4> QED BY <1>1, <1>4, <3>1, <3>4, <4>1, <4>2, <4>3
    <3> QED BY <3>2, <3>3, <3>4
  <2> QED BY <2>1 DEF LatestKept
<1>7. \A o \in AccountSlots : ErrandKept(errands[o])'
  BY <1>1, <1>3, IdleErrand DEF AccountsKept, ErrandKept
<1>8. Apart' /\ LinksKept'
  BY <1>1, <1>3, IdleErrand, LinksStay DEF AccountsKept, Apart, Inserting, LinkKinds
<1> QED BY <1>5, <1>6, <1>7, <1>8 DEF AccountsKept

\* A row gets a name: of a request that makes a link, or of a new name.
LEMMA NamesKept ==
  ASSUME AccountsKept, NEW q \in AccountSlots, Return(q), NEW e \in Mail, NEW n \in UserName,
         names' = [names EXCEPT ![e] = n], verified \subseteq verified', verified' \subseteq Mail,
         names[e] # NoUser \/ e \in verified',
         \A o \in AccountSlots \ {q} : Inserting(o) => errands[o].mail # e,
         errands[q].kind # "resent", UNCHANGED <<mails, proofs, lapsed, pats>>,
         links' \in [Identity -> Nat], crossed' \subseteq Identity, LinksKept'
  PROVE  AccountsKept'
<1>1. /\ errands' \in [AccountSlots -> Errand] /\ errands'[q] = NoErrand
      /\ \A o \in AccountSlots \ {q} : errands'[o] = errands[o]
  BY IdleErrand DEF AccountsKept, AccountsTyped, Return, Proceed
<1>2. /\ names' \in [Mail -> UserName \cup {NoUser}] /\ names'[e] # NoUser
      /\ \A d \in Mail : d # e => names'[d] = names[d]
  BY NameAssumption DEF AccountsKept, AccountsTyped
<1>3. AccountsTyped'
  BY <1>1, <1>2 DEF AccountsKept, AccountsTyped
<1>4. ASSUME NEW o \in AccountSlots
      PROVE  ErrandKept(errands[o])'
  <2>1. CASE o = q
    BY <1>1, <2>1, IdleErrand DEF ErrandKept
  <2>2. CASE o # q
    BY <1>1, <1>2, <2>2 DEF AccountsKept, ErrandKept, Inserting
  <2> QED BY <2>1, <2>2
<1>5. Apart'
  BY <1>1, IdleErrand DEF AccountsKept, Apart, Inserting
<1>6. LatestKept'
  <2>1. \A o \in AccountSlots : errands[o].kind = "resent" => errands'[o] = errands[o]
    BY <1>1
  <2>2. \A d \in Mail : names'[d] # NoUser /\ d \notin verified' => names[d] # NoUser /\ d \notin verified
    BY <1>2
  <2> QED BY <2>1, <2>2 DEF AccountsKept, LatestKept
<1> QED BY <1>3, <1>4, <1>5, <1>6 DEF AccountsKept

LEMMA LinkKept ==
  ASSUME AccountsKept, NEW q \in AccountSlots, CommitLink(q)
  PROVE  AccountsKept'
<1> DEFINE r == errands[q]
           x == r.about
<1>1. /\ r.kind \in {"link", "joining"} /\ r.mail \in Mail /\ x \in Identity
      /\ links' = [links EXCEPT ![x] = @ + 1] /\ Return(q)
      /\ UNCHANGED <<mails, proofs, lapsed, crossed, pats>>
  BY DEF CommitLink, AccountsKept, ErrandKept, LinksKept, LinkKinds
<1>2. /\ errands' \in [AccountSlots -> Errand] /\ errands'[q] = NoErrand
      /\ \A o \in AccountSlots \ {q} : errands'[o] = errands[o]
  BY <1>1, IdleErrand DEF AccountsKept, AccountsTyped, Return, Proceed
<1>3. /\ links' \in [Identity -> Nat] /\ links'[x] = links[x] + 1
      /\ \A y \in Identity : y # x => links'[y] = links[y]
  BY <1>1 DEF AccountsKept, AccountsTyped
<1>4. LinksKept'
  <2>1. \A o \in AccountSlots : errands'[o].kind \in LinkKinds => o # q /\ errands'[o] = errands[o]
    BY <1>2, IdleErrand DEF LinkKinds
  <2>2. r.kind \in LinkKinds
    BY <1>1 DEF LinkKinds
  <2>3. ASSUME NEW y \in Identity \ crossed
        PROVE  /\ links'[y] <= 1
               /\ \A o \in AccountSlots :
                    errands'[o].kind \in LinkKinds /\ errands'[o].about = y =>
                      /\ links'[y] = 0
                      /\ \A p \in AccountSlots \ {o} : errands'[p].kind \in LinkKinds => errands'[p].about # y
    <3>1. CASE y = x
      <4>1. links[x] = 0 /\ \A p \in AccountSlots \ {q} : errands[p].kind \in LinkKinds => errands[p].about # x
        BY <1>1, <2>2, <3>1 DEF AccountsKept, LinksKept
      <4> QED BY <1>3, <2>1, <3>1, <4>1
    <3>2. CASE y # x
      BY <1>3, <2>1, <3>2 DEF AccountsKept, LinksKept
    <3> QED BY <3>1, <3>2
  <2> QED BY <1>1, <2>1, <2>3 DEF AccountsKept, LinksKept
<1>5. CASE r.kind = "link"
  <2>1. UNCHANGED <<names, verified>>
    BY <1>5 DEF CommitLink
  <2>2. AccountsTyped'
    BY <1>1, <1>2, <1>3, <2>1 DEF AccountsKept, AccountsTyped
  <2>3. LatestKept'
    <3>1. \A o \in AccountSlots : errands[o].kind = "resent" => errands'[o] = errands[o]
      BY <1>2, <1>5
    <3> QED BY <1>1, <2>1, <3>1 DEF AccountsKept, LatestKept
  <2>4. \A o \in AccountSlots : ErrandKept(errands[o])'
    BY <1>1, <1>2, <2>1, IdleErrand DEF AccountsKept, ErrandKept
  <2>5. Apart'
    BY <1>2, IdleErrand DEF AccountsKept, Apart, Inserting
  <2> QED BY <1>4, <2>2, <2>3, <2>4, <2>5 DEF AccountsKept
<1>6. CASE r.kind = "joining"
  <2>1. names' = [names EXCEPT ![r.mail] = r.name] /\ verified' = verified \cup {r.mail} /\ r.name \in UserName
    BY <1>6 DEF CommitLink, AccountsKept, ErrandKept
  <2>2. verified' \subseteq Mail /\ verified \subseteq verified' /\ crossed' \subseteq Identity
    BY <1>1, <2>1 DEF AccountsKept, AccountsTyped
  <2>3. \A o \in AccountSlots \ {q} : Inserting(o) => errands[o].mail # r.mail
    BY <1>6 DEF AccountsKept, Apart, Inserting
  <2>4. errands[q].kind # "resent" /\ r.mail \in verified' /\ r.mail \in Mail /\ r.name \in UserName
    BY <1>1, <1>6, <2>1
  <2>5. /\ names' = [names EXCEPT ![r.mail] = r.name] /\ links' \in [Identity -> Nat] /\ Return(q)
        /\ UNCHANGED <<mails, proofs, lapsed, pats>>
    BY <1>1, <1>3, <2>1
  <2> HIDE DEF r
  <2> QED BY <1>4, <2>2, <2>3, <2>4, <2>5, NamesKept
<1> QED BY <1>1, <1>5, <1>6

LEMMA RenameKept ==
  ASSUME AccountsKept, NEW q \in AccountSlots, CommitName(q)
  PROVE  AccountsKept'
<1> DEFINE r == errands[q]
<1>1. /\ r.kind = "rename" /\ r.mail \in Mail /\ r.name \in UserName /\ names[r.mail] # NoUser
      /\ Return(q) /\ UNCHANGED <<verified, mails, proofs, lapsed, links, crossed, pats>>
  BY DEF CommitName, AccountsKept, ErrandKept, mailbox
<1>2. CASE names' = names
  <2>1. pats' \in [Pat -> PatRow]
    BY <1>1 DEF AccountsKept, AccountsTyped
  <2> QED BY <1>1, <1>2, <2>1, ErrandEnds
<1>3. CASE names' = [names EXCEPT ![r.mail] = r.name]
  <2>1. \A o \in AccountSlots \ {q} : Inserting(o) => errands[o].mail # r.mail
    BY <1>1 DEF AccountsKept, ErrandKept, Inserting
  <2>2. /\ verified' \subseteq Mail /\ verified \subseteq verified' /\ crossed' \subseteq Identity
        /\ links' \in [Identity -> Nat]
    BY <1>1 DEF AccountsKept, AccountsTyped
  <2>3. LinksKept'
    <3>1. \A o \in AccountSlots : errands'[o].kind \in LinkKinds => errands'[o] = errands[o]
      BY IdleErrand, <1>1 DEF Return, Proceed, AccountsKept, AccountsTyped, LinkKinds
    <3> QED BY <1>1, <3>1, LinksStay DEF AccountsKept
  <2> QED BY <1>1, <1>3, <2>1, <2>2, <2>3, NamesKept
<1> QED BY <1>2, <1>3 DEF CommitName

LEMMA RestartKept ==
  ASSUME AccountsKept, RestartAccounts
  PROVE  AccountsKept'
<1>1. /\ UNCHANGED <<names, verified, mails, proofs, links, crossed, pats>>
      /\ errands' = [q \in AccountSlots |-> NoErrand]
      /\ lapsed' = [e \in Mail |-> lapsed[e] \cup
            {errands[q].token : q \in {o \in AccountSlots :
                errands[o].mail = e /\ errands[o].kind \in {"registering", "resent"}}}]
  BY DEF RestartAccounts
<1>2. \A q \in AccountSlots : errands[q].token \in Nat
  BY DEF AccountsKept, AccountsTyped, Errand
<1>3. lapsed' \in [Mail -> SUBSET Nat]
  BY <1>1, <1>2 DEF AccountsKept, AccountsTyped
<1>4. errands' \in [AccountSlots -> Errand] /\ \A q \in AccountSlots : errands'[q] = NoErrand
  BY <1>1, IdleErrand
<1>5. AccountsTyped'
  BY <1>1, <1>3, <1>4 DEF AccountsKept, AccountsTyped
<1>6. LatestKept'
  <2>1. ASSUME NEW e \in Mail, names[e] # NoUser, e \notin verified
        PROVE  mails[e] \in proofs[e] \cup lapsed'[e]
    BY <1>1, <2>1 DEF AccountsKept, LatestKept
  <2> QED BY <1>1, <2>1 DEF AccountsKept, LatestKept
<1>7. \A q \in AccountSlots : ErrandKept(errands[q])'
  BY <1>4, IdleErrand DEF ErrandKept
<1>8. Apart' /\ LinksKept'
  BY <1>1, <1>4, IdleErrand, LinksStay DEF AccountsKept, Apart, Inserting, LinkKinds
<1> QED BY <1>5, <1>6, <1>7, <1>8 DEF AccountsKept

-----------------------------------------------------------------------------
(* Theorems *)

LEMMA AccountsStart ==
  ASSUME AccountsInit
  PROVE  AccountsKept
<1>1. /\ \A e \in Mail : names[e] = NoUser /\ proofs[e] = {}
      /\ \A x \in Identity : links[x] = 0
      /\ \A q \in AccountSlots : errands[q] = NoErrand
  BY DEF AccountsInit
<1>2. NoPat \in PatRow
  BY DEF NoPat, PatRow
<1>3. AccountsTyped
  BY <1>2, IdleErrand DEF AccountsInit, AccountsTyped
<1>4. Apart /\ LatestKept /\ LinksKept
  BY <1>1, IdleErrand DEF Apart, Inserting, LatestKept, LinksKept, LinkKinds
<1> QED BY <1>1, <1>3, <1>4, IdleErrand DEF AccountsKept

LEMMA AccountsStep ==
  ASSUME AccountsKept, [AccountsNext]_accountVars
  PROVE  AccountsKept'
<1>1. CASE UNCHANGED accountVars
  BY <1>1 DEF accountVars, AccountsKept, AccountsTyped, ErrandKept, Apart, Inserting, LatestKept, LinksKept
<1>2. ASSUME NEW q \in AccountSlots,
             \/ \E e \in Mail, n \in UserName : CheckRegistration(q, e, n) \/ CheckName(q, e, n)
             \/ InsertRegistration(q) \/ CommitRegistration(q)
             \/ \E e \in Mail : StartResend(q, e)
             \/ MailToken(q) \/ CommitResend(q)
             \/ \E x \in Identity : FindLink(q, x)
             \/ InsertJoiner(q) \/ CommitLink(q) \/ CommitName(q)
             \/ \E p \in Pat : PresentPat(q, p, "repo:read") \/ PresentPat(q, p, "repo:write")
      PROVE  AccountsKept'
  BY <1>2, ErrandReadsKept, RegistrationMailed, RegistrationKept, ResendMailed, ResendKept, FindLinkKept,
     JoinerKept, LinkKept, RenameKept
<1> QED BY <1>1, <1>2, PatsKept, ProofsGo, RestartKept DEF AccountsNext

LEMMA AccountsAlways == AccountsSpec => []AccountsKept
BY AccountsStart, AccountsStep, PTL DEF AccountsSpec

\* LatestMailWorks: the last mail sent to an account whose address is not yet
\* verified holds a token that works until it expires, however registrations
\* and resends interleave.
THEOREM LastMailVerifies == AccountsSpec => []LatestMailWorks
<1>1. AccountsKept => LatestMailWorks
  BY DEF AccountsKept, LatestKept, LatestMailWorks, Registered
<1> QED BY <1>1, AccountsAlways, PTL

\* CalmOneLink: only sign-ins of one provider account that overlap link it twice.
THEOREM OneLinkEach == AccountsSpec => []CalmOneLink
<1>1. AccountsKept => CalmOneLink
  BY DEF AccountsKept, LinksKept, CalmOneLink
<1> QED BY <1>1, AccountsAlways, PTL

\* RevokedForGood: no step makes a revoked access token valid again.
THEOREM RevokedStaysRevoked == AccountsSpec => RevokedForGood
<1> DEFINE Stays == \A p \in Pat : pats[p].state = "revoked" => pats'[p].state = "revoked"
<1>1. ASSUME AccountsKept, [AccountsNext]_accountVars
      PROVE  [Stays]_accountVars
  <2>0. \A p \in Pat : pats[p] \in PatRow
    BY <1>1 DEF AccountsKept, AccountsTyped
  <2>2. ASSUME NEW p \in Pat, \/ CreatePat(p, {"repo:read"}) \/ CreatePat(p, {"repo"})
                              \/ RevokePat(p) \/ PatExpires(p)
        PROVE  Stays
    <3>1. PICK row : pats' = [pats EXCEPT ![p] = row] /\ (pats[p].state = "revoked" => row.state = "revoked")
      BY <2>0, <2>2 DEF CreatePat, RevokePat, PatExpires, PatRow
    <3> QED BY <1>1, <3>1 DEF AccountsKept, AccountsTyped
  <2>3. ASSUME NEW q \in AccountSlots, CommitUse(q)
        PROVE  Stays
    BY <1>1, <2>0, <2>3 DEF CommitUse, PatRow, AccountsKept, AccountsTyped
  <2>4. ASSUME NEW q \in AccountSlots,
               \/ \E e \in Mail, n \in UserName : CheckRegistration(q, e, n) \/ CheckName(q, e, n)
               \/ InsertRegistration(q) \/ CommitRegistration(q)
               \/ \E e \in Mail : StartResend(q, e)
               \/ MailToken(q) \/ CommitResend(q)
               \/ \E x \in Identity : FindLink(q, x)
               \/ InsertJoiner(q) \/ CommitLink(q) \/ CommitName(q)
               \/ \E p \in Pat : PresentPat(q, p, "repo:read") \/ PresentPat(q, p, "repo:write")
        PROVE  UNCHANGED pats
    BY <2>4 DEF CheckRegistration, CheckName, InsertRegistration, CommitRegistration, StartResend,
       MailToken, CommitResend, FindLink, InsertJoiner, CommitLink, CommitName, PresentPat
  <2>5. ASSUME \/ \E e \in Mail : VerifyEmail(e) \/ \E k \in proofs[e] : ProofExpires(e, k)
               \/ RestartAccounts \/ UNCHANGED accountVars
        PROVE  UNCHANGED pats
    BY <2>5 DEF VerifyEmail, ProofExpires, RestartAccounts, accountVars
  <2>6. UNCHANGED pats => Stays
    OBVIOUS
  <2> HIDE DEF Stays
  <2>7. CASE AccountsNext
    <3>1. CASE \E p \in Pat : \/ CreatePat(p, {"repo:read"}) \/ CreatePat(p, {"repo"})
                              \/ RevokePat(p) \/ PatExpires(p)
      BY <2>2, <3>1
    <3> QED BY <2>3, <2>4, <2>5, <2>6, <2>7, <3>1 DEF AccountsNext
  <2>8. CASE UNCHANGED accountVars
    BY <2>5, <2>6, <2>8
  <2> QED BY <1>1, <2>7, <2>8
<1>2. AccountsSpec => [][AccountsNext]_accountVars /\ []AccountsKept
  BY AccountsAlways, PTL DEF AccountsSpec
<1> QED BY <1>1, <1>2, PTL DEF RevokedForGood

-----------------------------------------------------------------------------
(* The mails are numbered, and a provider account is linked twice at most *)

\* A request that has sent a mail holds its number.
Numbered(j) ==
  /\ j.token \in 0..MaxMails /\ j.doomed \subseteq 1..MaxMails
  /\ j.kind \in {"registering", "resent"} => j.token # 0

MailsNumbered ==
  /\ mails \in [Mail -> 0..MaxMails]
  /\ proofs \in [Mail -> SUBSET (1..MaxMails)] /\ lapsed \in [Mail -> SUBSET (1..MaxMails)]
  /\ links \in [Identity -> 0..2] /\ launched \in 0..MaxErrands

AccountsNumbered == MailsNumbered /\ \A q \in AccountSlots : Numbered(errands[q])

LEMMA IdleNumbered == Numbered(NoErrand)
BY ErrandsAssumption DEF Numbered, NoErrand

\* A request moves to j.
LEMMA NumberedMoves ==
  ASSUME AccountsKept, AccountsNumbered, NEW q \in AccountSlots, NEW j,
         errands' = [errands EXCEPT ![q] = j], Numbered(j), MailsNumbered'
  PROVE  AccountsNumbered'
<1>1. \A r \in AccountSlots : errands'[r] = IF r = q THEN j ELSE errands[r]
  BY DEF AccountsKept, AccountsTyped
<1>2. \A r \in AccountSlots : Numbered(errands'[r])
  BY <1>1, Zenon DEF AccountsNumbered
<1> QED BY <1>2 DEF AccountsNumbered

LEMMA NumberedReturns ==
  ASSUME AccountsKept, AccountsNumbered, NEW q \in AccountSlots, Return(q), MailsNumbered'
  PROVE  AccountsNumbered'
<1>1. errands' = [errands EXCEPT ![q] = NoErrand]
  BY DEF Return, Proceed
<1> QED BY <1>1, IdleNumbered, NumberedMoves

LEMMA NumberedLaunch ==
  ASSUME AccountsKept, AccountsNumbered, NEW q \in AccountSlots, NEW j, Launch(q, j), Numbered(j),
         UNCHANGED <<mails, proofs, lapsed, links>>
  PROVE  AccountsNumbered'
<1>1. launched < MaxErrands /\ launched' = launched + 1 /\ errands' = [errands EXCEPT ![q] = j]
  BY Zenon DEF Launch
<1>2. MailsNumbered'
  <2>1. launched' \in 0..MaxErrands
    BY <1>1, ErrandsAssumption DEF AccountsNumbered, MailsNumbered
  <2> QED BY <2>1 DEF AccountsNumbered, MailsNumbered
<1> QED BY <1>1, <1>2, NumberedMoves

LEMMA NumberedStep ==
  ASSUME AccountsKept, AccountsNumbered, [AccountsNext]_accountVars
  PROVE  AccountsNumbered'
<1> USE DEF mailbox
<1>0. /\ MailsNumbered /\ \A q \in AccountSlots : Numbered(errands[q])
      /\ \A q \in AccountSlots : errands[q] \in Errand /\ ErrandKept(errands[q])
  BY DEF AccountsKept, AccountsTyped, AccountsNumbered
<1>1. ASSUME NEW q \in AccountSlots, NEW e \in Mail, NEW n \in UserName,
             CheckRegistration(q, e, n) \/ CheckName(q, e, n)
      PROVE  AccountsNumbered'
  <2>1. PICK kind \in {"register", "rename"} : Launch(q, [NoErrand EXCEPT !.kind = kind, !.mail = e, !.name = n])
    BY <1>1 DEF CheckRegistration, CheckName
  <2> DEFINE j == [NoErrand EXCEPT !.kind = kind, !.mail = e, !.name = n]
  <2>2. Numbered(j)
    BY ErrandsAssumption DEF Numbered, NoErrand
  <2>3. Launch(q, j)
    BY <2>1
  <2> HIDE DEF j
  <2> QED BY <1>1, <2>2, <2>3, NumberedLaunch DEF CheckRegistration, CheckName
<1>2. ASSUME NEW q \in AccountSlots, InsertRegistration(q) \/ MailToken(q)
      PROVE  AccountsNumbered'
  <2> DEFINE r == errands[q]
             n == mails[r.mail] + 1
  <2>1. r.mail \in Mail /\ r \in Errand /\ mails[r.mail] < MaxMails /\ UNCHANGED <<proofs, lapsed, links>>
    BY <1>0, <1>2 DEF InsertRegistration, MailToken, ErrandKept
  <2>2. n \in 1..MaxMails
    BY <1>0, <2>1, ErrandsAssumption DEF MailsNumbered
  <2>3. CASE Return(q) /\ UNCHANGED mails
    BY <1>0, <2>1, <2>3, NumberedReturns DEF Return, Proceed, MailsNumbered
  <2>4. ASSUME mails' = [mails EXCEPT ![r.mail] = n], NEW kind \in {"registering", "resent"},
               Proceed(q, [r EXCEPT !.kind = kind, !.token = n])
        PROVE  AccountsNumbered'
    <3> DEFINE j == [r EXCEPT !.kind = kind, !.token = n]
    <3>1. j.kind = kind /\ j.token = n /\ j.doomed = r.doomed
      BY <2>1 DEF Errand
    <3>2. errands' = [errands EXCEPT ![q] = j] /\ launched' = launched
      BY <2>4 DEF Proceed
    <3> HIDE DEF j, n
    <3>3. Numbered(j)
      BY <1>0, <2>2, <3>1 DEF Numbered
    <3>4. MailsNumbered'
      BY <1>0, <2>1, <2>2, <2>4, <3>2 DEF MailsNumbered
    <3> QED BY <3>2, <3>3, <3>4, NumberedMoves
  <2>5. \/ Return(q) /\ UNCHANGED mails
        \/ /\ mails' = [mails EXCEPT ![r.mail] = n]
           /\ \E kind \in {"registering", "resent"} : Proceed(q, [r EXCEPT !.kind = kind, !.token = n])
    BY <1>2, Zenon DEF InsertRegistration, MailToken
  <2> QED BY <2>3, <2>4, <2>5
<1>3. ASSUME NEW q \in AccountSlots, CommitRegistration(q) \/ CommitResend(q)
      PROVE  AccountsNumbered'
  <2> DEFINE r == errands[q]
  <2>1. r.mail \in Mail /\ r.kind \in {"registering", "resent"} /\ Return(q)
        /\ UNCHANGED <<mails, lapsed, links>> /\ launched' = launched
    BY <1>0, <1>3 DEF CommitRegistration, CommitResend, ErrandKept, Return, Proceed
  <2>2. r.token \in 1..MaxMails
    BY <1>0, <2>1, ErrandsAssumption DEF Numbered
  <2>3. PICK left \in SUBSET proofs[r.mail] : proofs' = [proofs EXCEPT ![r.mail] = left \cup {r.token}]
    <3>1. CASE CommitRegistration(q)
      BY <3>1 DEF CommitRegistration
    <3>2. CASE CommitResend(q)
      BY <3>2 DEF CommitResend
    <3> QED BY <1>3, <3>1, <3>2
  <2>4. MailsNumbered'
    <3>1. left \cup {r.token} \in SUBSET (1..MaxMails)
      BY <1>0, <2>1, <2>2 DEF MailsNumbered
    <3> HIDE DEF r
    <3> QED BY <1>0, <2>1, <2>3, <3>1 DEF MailsNumbered
  <2> QED BY <2>1, <2>4, NumberedReturns
<1>4. ASSUME NEW q \in AccountSlots, NEW e \in Mail, StartResend(q, e)
      PROVE  AccountsNumbered'
  <2> DEFINE j == [NoErrand EXCEPT !.kind = "resend", !.mail = e, !.doomed = proofs[e]]
  <2>1. Launch(q, j) /\ UNCHANGED <<mails, proofs, lapsed, links>>
    BY <1>4 DEF StartResend
  <2>2. j.kind = "resend" /\ j.token = 0 /\ j.doomed = proofs[e]
    BY DEF NoErrand
  <2> HIDE DEF j
  <2>3. Numbered(j)
    BY <1>0, <2>2, ErrandsAssumption DEF Numbered, MailsNumbered
  <2> QED BY <2>1, <2>3, NumberedLaunch
<1>5. ASSUME NEW q \in AccountSlots, NEW x \in Identity, FindLink(q, x)
      PROVE  AccountsNumbered'
  <2>1. PICK kind \in {"link", "join"}, n \in UserName :
           Launch(q, [NoErrand EXCEPT !.kind = kind, !.mail = MailOf[x], !.name = n, !.about = x])
    <3>1. (IF Registered(MailOf[x]) THEN "link" ELSE "join") \in {"link", "join"}
      OBVIOUS
    <3> QED BY <1>5, <3>1, Zenon DEF FindLink
  <2> DEFINE j == [NoErrand EXCEPT !.kind = kind, !.mail = MailOf[x], !.name = n, !.about = x]
  <2>2. Numbered(j)
    BY ErrandsAssumption DEF Numbered, NoErrand
  <2>3. Launch(q, j) /\ UNCHANGED <<mails, proofs, lapsed, links>>
    BY <1>5, <2>1 DEF FindLink
  <2> HIDE DEF j
  <2> QED BY <2>2, <2>3, NumberedLaunch
<1>6. ASSUME NEW q \in AccountSlots, InsertJoiner(q)
      PROVE  AccountsNumbered'
  <2> DEFINE j == [errands[q] EXCEPT !.kind = "joining"]
  <2>1. UNCHANGED <<mails, proofs, lapsed, links>>
    BY <1>6 DEF InsertJoiner
  <2>2. CASE Return(q)
    BY <1>0, <2>1, <2>2, NumberedReturns DEF Return, Proceed, MailsNumbered
  <2>3. CASE Proceed(q, j)
    <3>1. j.kind = "joining" /\ j.token = errands[q].token /\ j.doomed = errands[q].doomed
      BY <1>0 DEF Errand
    <3>2. errands' = [errands EXCEPT ![q] = j] /\ launched' = launched
      BY <2>3 DEF Proceed
    <3> HIDE DEF j
    <3>3. Numbered(j) /\ MailsNumbered'
      BY <1>0, <2>1, <3>1, <3>2 DEF Numbered, MailsNumbered
    <3> QED BY <3>2, <3>3, NumberedMoves
  <2> QED BY <1>6, <2>2, <2>3, Zenon DEF InsertJoiner
<1>7. ASSUME NEW q \in AccountSlots, CommitLink(q)
      PROVE  AccountsNumbered'
  <2>1. errands[q].about \in Identity /\ links[errands[q].about] < 2
        /\ links' = [links EXCEPT ![errands[q].about] = @ + 1]
        /\ Return(q) /\ UNCHANGED <<mails, proofs, lapsed>>
    BY <1>7 DEF CommitLink, AccountsKept, LinksKept, LinkKinds
  <2>2. MailsNumbered'
    BY <1>0, <2>1 DEF MailsNumbered, Return, Proceed
  <2> QED BY <2>1, <2>2, NumberedReturns
<1>8. ASSUME NEW q \in AccountSlots, CommitName(q) \/ CommitUse(q)
      PROVE  AccountsNumbered'
  <2>1. Return(q) /\ UNCHANGED <<mails, proofs, lapsed, links>>
    BY <1>8 DEF CommitName, CommitUse
  <2>2. MailsNumbered'
    BY <1>0, <2>1 DEF MailsNumbered, Return, Proceed
  <2> QED BY <2>1, <2>2, NumberedReturns
<1>9. ASSUME NEW q \in AccountSlots, NEW p \in Pat,
             PresentPat(q, p, "repo:read") \/ PresentPat(q, p, "repo:write")
      PROVE  AccountsNumbered'
  <2> DEFINE j == [NoErrand EXCEPT !.kind = "git", !.about = p]
  <2>1. Launch(q, j) /\ UNCHANGED <<mails, proofs, lapsed, links>>
    BY <1>9 DEF PresentPat
  <2>2. Numbered(j)
    BY ErrandsAssumption DEF Numbered, NoErrand
  <2> HIDE DEF j
  <2> QED BY <2>1, <2>2, NumberedLaunch
<1>10. ASSUME NEW e \in Mail, VerifyEmail(e)
       PROVE  AccountsNumbered'
  BY <1>0, <1>10 DEF VerifyEmail, AccountsNumbered, MailsNumbered
<1>11. ASSUME NEW e \in Mail, NEW k \in proofs[e], ProofExpires(e, k)
       PROVE  AccountsNumbered'
  <2>1. k \in 1..MaxMails /\ proofs[e] \ {k} \subseteq 1..MaxMails /\ lapsed[e] \cup {k} \subseteq 1..MaxMails
    BY <1>0, <1>11 DEF MailsNumbered
  <2> QED BY <1>0, <1>11, <2>1 DEF ProofExpires, AccountsNumbered, MailsNumbered
<1>12. ASSUME NEW p \in Pat, \/ CreatePat(p, {"repo:read"}) \/ CreatePat(p, {"repo"})
                             \/ RevokePat(p) \/ PatExpires(p)
       PROVE  AccountsNumbered'
  BY <1>0, <1>12 DEF CreatePat, RevokePat, PatExpires, AccountsNumbered, MailsNumbered
<1>13. CASE RestartAccounts
  <2>1. UNCHANGED <<mails, proofs, links, launched>> /\ errands' = [q \in AccountSlots |-> NoErrand]
        /\ lapsed' = [e \in Mail |-> lapsed[e] \cup
              {errands[q].token : q \in {o \in AccountSlots :
                  errands[o].mail = e /\ errands[o].kind \in {"registering", "resent"}}}]
    BY <1>13 DEF RestartAccounts
  <2>2. \A o \in AccountSlots : errands[o].kind \in {"registering", "resent"} => errands[o].token \in 1..MaxMails
    BY <1>0, ErrandsAssumption DEF Numbered
  <2>3. lapsed' \in [Mail -> SUBSET (1..MaxMails)]
    BY <1>0, <2>1, <2>2 DEF MailsNumbered
  <2>4. \A q \in AccountSlots : Numbered(errands'[q])
    BY <2>1, IdleNumbered, Zenon
  <2> QED BY <1>0, <2>1, <2>3, <2>4 DEF AccountsNumbered, MailsNumbered
<1>14. CASE UNCHANGED accountVars
  BY <1>0, <1>14 DEF accountVars, AccountsNumbered, MailsNumbered
<1> QED
  BY <1>1, <1>2, <1>3, <1>4, <1>5, <1>6, <1>7, <1>8, <1>9, <1>10, <1>11, <1>12, <1>13, <1>14
  DEF AccountsNext

\* AccountsTypeOK: the rows have the types of their tables, and a request holds
\* the number of a mail that was sent.
THEOREM AccountRowsTyped == AccountsSpec => []AccountsTypeOK
<1>1. AccountsInit => AccountsNumbered
  BY IdleNumbered, ErrandsAssumption DEF AccountsInit, AccountsNumbered, MailsNumbered
<1>2. AccountsKept /\ AccountsNumbered => AccountsTypeOK
  BY DEF AccountsKept, AccountsTyped, AccountsNumbered, MailsNumbered, Numbered, Errand, PatRow, AccountsTypeOK
<1> QED BY <1>1, <1>2, AccountsAlways, AccountsStep, NumberedStep, PTL DEF AccountsSpec

-----------------------------------------------------------------------------
(***************************************************************************)
(* Permissions                                                             *)
(***************************************************************************)

(* Levels *)

LEMMA FiveLevels ==
  /\ PermissionLevel = {"read", "triage", "write", "maintain", "admin"}
  /\ LevelRank["read"] = 1 /\ LevelRank["triage"] = 2 /\ LevelRank["write"] = 3
  /\ LevelRank["maintain"] = 4 /\ LevelRank["admin"] = 5
  /\ NoAccess \notin PermissionLevel
BY DEF PermissionLevel, LevelRank, NoAccess

\* The choice of the higher of two levels is the choice by rank.
LEMMA HigherOfTwo ==
  ASSUME NEW a \in PermissionLevel \cup {NoAccess}, NEW b \in PermissionLevel \cup {NoAccess}
  PROVE  /\ MaxLevel(a, b) \in {a, b}
         /\ MaxLevel(a, b) = a <=> b = NoAccess \/ MeetsMinimum(a, b)
BY FiveLevels DEF MaxLevel, MeetsMinimum, NoAccess

\* Highest finds the highest of the levels, in whatever order they come.
LEMMA HighestOfAll ==
  ASSUME NEW levels \in SUBSET PermissionLevel, NEW first \in PermissionLevel \cup {NoAccess}
  PROVE  /\ Highest(levels, first) \in levels \cup {first}
         /\ \A l \in levels \cup {first} : l # NoAccess => MeetsMinimum(Highest(levels, first), l)
<1> DEFINE all == levels \cup {first}
           P(l) == \A k \in all : MaxLevel(l, k) = l
<1>1. \E l \in all : P(l)
  <2>1. CASE "admin" \in all
    <3>1. P("admin")
      BY FiveLevels, HigherOfTwo DEF MeetsMinimum
    <3> QED BY <2>1, <3>1
  <2>2. CASE "admin" \notin all /\ "maintain" \in all
    <3>1. P("maintain")
      BY <2>2, FiveLevels, HigherOfTwo DEF MeetsMinimum
    <3> QED BY <2>2, <3>1
  <2>3. CASE all \cap {"admin", "maintain"} = {} /\ "write" \in all
    <3>1. P("write")
      BY <2>3, FiveLevels, HigherOfTwo DEF MeetsMinimum
    <3> QED BY <2>3, <3>1
  <2>4. CASE all \cap {"admin", "maintain", "write"} = {} /\ "triage" \in all
    <3>1. P("triage")
      BY <2>4, FiveLevels, HigherOfTwo DEF MeetsMinimum
    <3> QED BY <2>4, <3>1
  <2>5. CASE all \cap {"admin", "maintain", "write", "triage"} = {} /\ "read" \in all
    <3>1. P("read")
      BY <2>5, FiveLevels, HigherOfTwo DEF MeetsMinimum
    <3> QED BY <2>5, <3>1
  <2>6. CASE all \cap PermissionLevel = {}
    <3>1. all = {NoAccess}
      BY <2>6
    <3>2. P(NoAccess)
      BY <3>1, HigherOfTwo
    <3> QED BY <3>1, <3>2
  <2> QED BY <2>1, <2>2, <2>3, <2>4, <2>5, <2>6, FiveLevels
<1> DEFINE h == CHOOSE l \in all : P(l)
<1>2. h \in all /\ P(h)
  <2> HIDE DEF P, all
  <2> QED BY <1>1
<1>3. Highest(levels, first) = h
  BY DEF Highest
<1> HIDE DEF h
<1>4. ASSUME NEW l \in all, l # NoAccess PROVE MeetsMinimum(h, l)
  <2>1. MaxLevel(h, l) = h /\ h \in PermissionLevel \cup {NoAccess} /\ l \in PermissionLevel
    BY <1>2, <1>4
  <2> QED BY <1>4, <2>1, HigherOfTwo
<1> QED BY <1>2, <1>3, <1>4

-----------------------------------------------------------------------------
(* The resolver *)

LEMMA GrantsTyped ==
  ASSUME NEW u, NEW r
  PROVE  TeamLevels(u, r) \in SUBSET PermissionLevel
BY AccessAssumption DEF TeamLevels

\* What a person holds besides ownership.
Held(u, r) == Highest(TeamLevels(u, r), IF u \in Person THEN collab[<<r, u>>] ELSE NoAccess)

LEMMA HeldIsHighest ==
  ASSUME AccessTypeOK, NEW u \in Person \cup {Anonymous}, NEW r \in Repository
  PROVE  /\ Held(u, r) \in TeamLevels(u, r) \cup {IF u \in Person THEN collab[<<r, u>>] ELSE NoAccess}
         /\ \A l \in TeamLevels(u, r) : MeetsMinimum(Held(u, r), l)
         /\ u \in Person /\ collab[<<r, u>>] # NoAccess => MeetsMinimum(Held(u, r), collab[<<r, u>>])
         /\ Held(u, r) \in PermissionLevel \cup {NoAccess}
<1> DEFINE first == IF u \in Person THEN collab[<<r, u>>] ELSE NoAccess
<1>1. first \in PermissionLevel \cup {NoAccess}
  BY DEF AccessTypeOK
<1>2. TeamLevels(u, r) \in SUBSET PermissionLevel
  BY GrantsTyped
<1>3. Held(u, r) = Highest(TeamLevels(u, r), first)
  BY DEF Held
<1> HIDE DEF first
<1>4. /\ Held(u, r) \in TeamLevels(u, r) \cup {first}
      /\ \A l \in TeamLevels(u, r) \cup {first} : l # NoAccess => MeetsMinimum(Held(u, r), l)
  <2>1. /\ Highest(TeamLevels(u, r), first) \in TeamLevels(u, r) \cup {first}
        /\ \A l \in TeamLevels(u, r) \cup {first} :
              l # NoAccess => MeetsMinimum(Highest(TeamLevels(u, r), first), l)
    BY <1>1, <1>2, HighestOfAll, Zenon
  <2> QED BY <1>3, <2>1, Zenon
<1> QED BY <1>1, <1>2, <1>4, FiveLevels DEF first

\* Nobody but members of the table is in a team.
LEMMA NoTeamForOthers ==
  ASSUME AccessTypeOK, NEW r \in Repository
  PROVE  TeamLevels(Anonymous, r) = {}
<1>1. ASSUME NEW h \in TeamGrant PROVE <<Anonymous, h.team>> \notin teammates
  BY AccessAssumption DEF AccessTypeOK
<1> QED BY <1>1 DEF TeamLevels

\* The arms of the resolver in their order.
LEMMA ResolvesInTurn ==
  ASSUME NEW u, NEW r
  PROVE  Resolve(u, r) =
           IF visibility[r] = "gone" THEN NoAccess
           ELSE IF u \in Person /\ \/ OwnerOf[r] = u
                                   \/ OwnerOf[r] = Organization /\ role[u] \in {"owner", "admin"}
           THEN "admin"
           ELSE IF u \in Person /\ Held(u, r) # NoAccess THEN Held(u, r)
           ELSE IF visibility[r] = "public" \/ (visibility[r] = "internal" /\ u \in Person)
           THEN "read" ELSE NoAccess
BY DEF Resolve, Held

LEMMA ResolverIsExact == AccessTypeOK => ResolvesHighest
<1> SUFFICES ASSUME AccessTypeOK, NEW u \in Person \cup {Anonymous}, NEW r \in Repository,
                    visibility[r] # "gone"
             PROVE  IF Entitlements(u, r) = {} THEN Resolve(u, r) = NoAccess
                    ELSE /\ Resolve(u, r) \in Entitlements(u, r)
                         /\ \A l \in Entitlements(u, r) : MeetsMinimum(Resolve(u, r), l)
  BY DEF ResolvesHighest
<1>1. Entitlements(u, r) \subseteq PermissionLevel
  BY DEF Entitlements
<1>2. \A l \in PermissionLevel : MeetsMinimum("admin", l) /\ MeetsMinimum(l, "read")
  BY FiveLevels DEF MeetsMinimum, NoAccess
<1>3. CASE u \in Person /\ \/ OwnerOf[r] = u
                           \/ OwnerOf[r] = Organization /\ role[u] \in {"owner", "admin"}
  <2>1. Resolve(u, r) = "admin"
    BY <1>3, ResolvesInTurn
  <2>2. "admin" \in Entitlements(u, r)
    BY <1>3, FiveLevels DEF Entitlements
  <2> QED BY <1>1, <1>2, <2>1, <2>2
<1>4. CASE /\ ~(u \in Person /\ \/ OwnerOf[r] = u
                                \/ OwnerOf[r] = Organization /\ role[u] \in {"owner", "admin"})
           /\ u \in Person /\ Held(u, r) # NoAccess
  <2>1. Resolve(u, r) = Held(u, r)
    BY <1>4 DEF Resolve, Held
  <2>2. Held(u, r) \in Entitlements(u, r)
    BY <1>4, HeldIsHighest DEF Entitlements
  <2>3. ASSUME NEW l \in Entitlements(u, r) PROVE MeetsMinimum(Held(u, r), l)
    <3>1. \/ l = "read"
          \/ u \in Person /\ collab[<<r, u>>] = l
          \/ l \in TeamLevels(u, r)
      BY <1>4 DEF Entitlements
    <3>2. l # NoAccess
      BY <1>1, FiveLevels
    <3> QED BY <1>1, <1>2, <1>4, <2>2, <3>1, <3>2, HeldIsHighest
  <2> QED BY <2>1, <2>2, <2>3
<1>5. CASE ~(u \in Person) \/ (/\ Held(u, r) = NoAccess /\ OwnerOf[r] # u
                               /\ ~(OwnerOf[r] = Organization /\ role[u] \in {"owner", "admin"}))
  <2>1. TeamLevels(u, r) = {}
    <3>1. CASE u \notin Person
      BY <3>1, NoTeamForOthers
    <3>2. CASE u \in Person
      <4>1. Held(u, r) = NoAccess
        BY <1>5, <3>2
      <4>2. \A l \in TeamLevels(u, r) : MeetsMinimum(NoAccess, l)
        BY <4>1, HeldIsHighest
      <4> QED BY <4>2 DEF MeetsMinimum
    <3> QED BY <3>1, <3>2
  <2>2. u \in Person => collab[<<r, u>>] = NoAccess
    BY <1>5, HeldIsHighest DEF MeetsMinimum
  <2>3. Entitlements(u, r) = IF visibility[r] = "public" \/ (visibility[r] = "internal" /\ u \in Person)
                             THEN {"read"} ELSE {}
    BY <1>5, <2>1, <2>2, FiveLevels DEF Entitlements
  <2>4. Resolve(u, r) = IF visibility[r] = "public" \/ (visibility[r] = "internal" /\ u \in Person)
                        THEN "read" ELSE NoAccess
    BY <1>5 DEF Resolve, Held
  <2> QED BY <1>2, <2>3, <2>4, FiveLevels
<1> QED BY <1>3, <1>4, <1>5

-----------------------------------------------------------------------------
(* What the requests keep *)

\* Every request that has passed a gate was let in by right; an organization
\* that is gone has taken its repositories with it.
GatesKept ==
  /\ AccessTypeOK
  /\ \A g \in gated : g.entitled
  /\ ~org => \A r \in Repository : OwnerOf[r] = Organization => visibility[r] = "gone"

LEMMA ResolveTyped ==
  ASSUME AccessTypeOK, NEW u \in Person \cup {Anonymous}, NEW r \in Repository
  PROVE  Resolve(u, r) \in PermissionLevel \cup {NoAccess}
BY ResolvesInTurn, HeldIsHighest, FiveLevels

\* Letting a request in writes nothing but the request.
LEMMA LetKeeps ==
  ASSUME GatesKept, NEW u \in Person, NEW to \in Change,
         NEW on \in Repository \cup {Organization}, Let(u, to, on, TRUE)
  PROVE  GatesKept'
<1> DEFINE g == [actor |-> u, to |-> to, on |-> on, entitled |-> TRUE]
<1>1. gated' = gated \cup {g} /\ UNCHANGED <<org, role, teams, teammates, collab, visibility>>
  BY DEF Let, grants
<1>2. g \in Gate /\ g.entitled
  BY DEF Gate
<1>3. changes' \in 0..MaxChanges
  BY AccessAssumption DEF Let, GatesKept, AccessTypeOK
<1> HIDE DEF g
<1> QED BY <1>1, <1>2, <1>3 DEF GatesKept, AccessTypeOK

LEMMA OwnerGateKeeps ==
  ASSUME GatesKept, NEW u \in Person, NEW to \in Change, OwnerGate(u, to)
  PROVE  GatesKept'
<1>1. role[u] = "owner" /\ Let(u, to, Organization, role[u] = "owner")
  BY DEF OwnerGate, IsOrgOwner
<1>2. Let(u, to, Organization, TRUE)
  BY <1>1 DEF Let
<1> QED BY <1>2, LetKeeps

LEMMA AdminGateKeeps ==
  ASSUME GatesKept, NEW u \in Person, NEW r \in Repository, AdminGate(u, r)
  PROVE  GatesKept'
<1>1. Resolve(u, r) = "admin"
  <2>1. Resolve(u, r) \in PermissionLevel \cup {NoAccess}
    BY ResolveTyped DEF GatesKept
  <2> QED BY <2>1, FiveLevels DEF AdminGate, MeetsMinimum
<1>2. Let(u, "repository", r, TRUE)
  BY <1>1 DEF AdminGate, Let
<1> QED BY <1>2, LetKeeps DEF Change

LEMMA CreateOrgKeeps ==
  ASSUME GatesKept, NEW u \in Person, CreateOrg(u)
  PROVE  GatesKept'
<1>1. changes' \in 0..MaxChanges
  BY AccessAssumption DEF CreateOrg, GatesKept, AccessTypeOK
<1> QED BY <1>1 DEF CreateOrg, GatesKept, AccessTypeOK

LEMMA ActsKeeps ==
  ASSUME GatesKept, NEW to, NEW on, Acts(to, on)
  PROVE  /\ gated' \subseteq Gate /\ changes' \in 0..MaxChanges
         /\ \A g \in gated' : g.entitled
         /\ \E g \in gated \ gated' : g.entitled /\ g.on = on
BY DEF Acts, GatesKept, AccessTypeOK

LEMMA MemberRequestsKeep ==
  ASSUME GatesKept, NEW u \in Person,
         RemoveMember(u) \/ \E as \in {"owner", "admin", "member"} : AddMember(u, as)
  PROVE  GatesKept'
<1>1. CASE RemoveMember(u)
  BY <1>1, ActsKeeps DEF RemoveMember, GatesKept, AccessTypeOK
<1>2. ASSUME NEW as \in {"owner", "admin", "member"}, AddMember(u, as) PROVE GatesKept'
  BY <1>2, ActsKeeps DEF AddMember, GatesKept, AccessTypeOK
<1> QED BY <1>1, <1>2

LEMMA TeamRequestsKeep ==
  ASSUME GatesKept, NEW t \in Team,
         \/ CreateTeam(t) \/ DeleteTeam(t)
         \/ \E u \in Person : AddTeamMember(u, t) \/ RemoveTeamMember(u, t)
  PROVE  GatesKept'
<1>1. CASE CreateTeam(t)
  BY <1>1, ActsKeeps DEF CreateTeam, GatesKept, AccessTypeOK
<1>2. CASE DeleteTeam(t)
  BY <1>2, ActsKeeps DEF DeleteTeam, GatesKept, AccessTypeOK
<1>3. ASSUME NEW u \in Person, AddTeamMember(u, t) PROVE GatesKept'
  BY <1>3, ActsKeeps DEF AddTeamMember, GatesKept, AccessTypeOK
<1>4. ASSUME NEW u \in Person, RemoveTeamMember(u, t) PROVE GatesKept'
  BY <1>4, ActsKeeps DEF RemoveTeamMember, GatesKept, AccessTypeOK
<1> QED BY <1>1, <1>2, <1>3, <1>4

LEMMA DeleteOrgKeeps ==
  ASSUME GatesKept, DeleteOrg
  PROVE  GatesKept'
<1>1. collab' \in [Repository \X Person -> PermissionLevel \cup {NoAccess}]
  BY DEF DeleteOrg, GatesKept, AccessTypeOK
<1>2. visibility' \in [Repository -> Visibility \cup {"gone"}]
  BY DEF DeleteOrg, GatesKept, AccessTypeOK
<1>3. role' \in [Person -> {"owner", "admin", "member", NoRole}]
  BY DEF DeleteOrg
<1>4. \A r \in Repository : OwnerOf[r] = Organization => visibility'[r] = "gone"
  BY DEF DeleteOrg
<1> QED BY <1>1, <1>2, <1>3, <1>4, ActsKeeps DEF DeleteOrg, GatesKept, AccessTypeOK

LEMMA CollaboratorRequestsKeep ==
  ASSUME GatesKept, NEW r \in Repository, NEW u \in Person,
         RemoveCollaborator(r, u) \/ \E level \in Granted : AddCollaborator(r, u, level)
  PROVE  GatesKept'
<1>1. CASE RemoveCollaborator(r, u)
  BY <1>1, ActsKeeps DEF RemoveCollaborator, GatesKept, AccessTypeOK
<1>2. ASSUME NEW level \in Granted, AddCollaborator(r, u, level) PROVE GatesKept'
  <2>1. level \in PermissionLevel
    BY AccessAssumption
  <2> QED BY <1>2, <2>1, ActsKeeps DEF AddCollaborator, GatesKept, AccessTypeOK
<1> QED BY <1>1, <1>2

LEMMA RepositoryRequestsKeep ==
  ASSUME GatesKept, NEW r \in Repository,
         DeleteRepository(r) \/ \E v \in Visibility : SetVisibility(r, v)
  PROVE  GatesKept'
<1>1. CASE DeleteRepository(r)
  <2>1. collab' \in [Repository \X Person -> PermissionLevel \cup {NoAccess}]
    BY <1>1 DEF DeleteRepository, GatesKept, AccessTypeOK
  <2> QED BY <1>1, <2>1, ActsKeeps DEF DeleteRepository, GatesKept, AccessTypeOK
<1>2. ASSUME NEW v \in Visibility, SetVisibility(r, v) PROVE GatesKept'
  BY <1>2, ActsKeeps DEF SetVisibility, GatesKept, AccessTypeOK
<1> QED BY <1>1, <1>2

LEMMA GatesAlwaysKept == GatesKept /\ [AccessNext]_accessVars => GatesKept'
<1> SUFFICES ASSUME GatesKept, [AccessNext]_accessVars PROVE GatesKept'
  OBVIOUS
<1>1. CASE UNCHANGED accessVars
  BY <1>1 DEF GatesKept, AccessTypeOK, accessVars
<1>2. ASSUME NEW u \in Person, CreateOrg(u) PROVE GatesKept'
  BY <1>2, CreateOrgKeeps
<1>3. ASSUME NEW u \in Person, NEW to \in Change, OwnerGate(u, to) PROVE GatesKept'
  BY <1>3, OwnerGateKeeps
<1>4. ASSUME NEW u \in Person, NEW r \in Repository, AdminGate(u, r) PROVE GatesKept'
  BY <1>4, AdminGateKeeps
<1>5. ASSUME NEW u \in Person,
             RemoveMember(u) \/ \E as \in {"owner", "admin", "member"} : AddMember(u, as)
      PROVE  GatesKept'
  BY <1>5, MemberRequestsKeep
<1>6. ASSUME NEW r \in Repository, NEW u \in Person,
             RemoveCollaborator(r, u) \/ \E level \in Granted : AddCollaborator(r, u, level)
      PROVE  GatesKept'
  BY <1>6, CollaboratorRequestsKeep
<1>7. ASSUME NEW t \in Team,
             \/ CreateTeam(t) \/ DeleteTeam(t)
             \/ \E u \in Person : AddTeamMember(u, t) \/ RemoveTeamMember(u, t)
      PROVE  GatesKept'
  BY <1>7, TeamRequestsKeep
<1>8. ASSUME NEW r \in Repository,
             DeleteRepository(r) \/ \E v \in Visibility : SetVisibility(r, v)
      PROVE  GatesKept'
  BY <1>8, RepositoryRequestsKeep
<1>9. CASE DeleteOrg
  BY <1>9, DeleteOrgKeeps
<1> QED BY <1>1, <1>2, <1>3, <1>4, <1>5, <1>6, <1>7, <1>8, <1>9 DEF AccessNext

LEMMA GatesKeptAtFirst == AccessInit => GatesKept
BY AccessAssumption DEF AccessInit, GatesKept, AccessTypeOK, Visibility

LEMMA GatesAlways == AccessSpec => []GatesKept
<1> QED BY GatesKeptAtFirst, GatesAlwaysKept, PTL DEF AccessSpec

\* The rows of permissions have the types of their tables, always.
THEOREM AccessTyped == AccessSpec => []AccessTypeOK
<1>1. GatesKept => AccessTypeOK
  BY DEF GatesKept
<1> QED BY <1>1, GatesAlways, PTL

\* resolve_permission gives every caller the highest level anything entitles
\* him to, for any set of users, teams, grants and repositories.
THEOREM ResolverAlwaysExact == AccessSpec => []ResolvesHighest
<1>1. GatesKept => ResolvesHighest
  BY ResolverIsExact DEF GatesKept
<1> QED BY <1>1, GatesAlways, PTL

-----------------------------------------------------------------------------
(* Who can raise a level *)

\* The step leaves alone what decides about a repository.
Untouched(r) ==
  /\ visibility'[r] = visibility[r]
  /\ \A u \in Person : collab'[<<r, u>>] = collab[<<r, u>>]
  /\ OwnerOf[r] = Organization => role' = role /\ teammates' = teammates

LEMMA UntouchedSame ==
  ASSUME NEW u, NEW r \in Repository, Untouched(r)
  PROVE  Resolve(u, r)' = Resolve(u, r)
<1>1. TeamLevels(u, r)' = TeamLevels(u, r)
  <2>1. CASE OwnerOf[r] = Organization
    BY <2>1 DEF TeamLevels, Untouched
  <2>2. CASE OwnerOf[r] # Organization
    <3>1. \A h \in TeamGrant : h.repo # r
      BY <2>2, AccessAssumption
    <3> QED BY <3>1 DEF TeamLevels
  <2> QED BY <2>1, <2>2
<1>2. Held(u, r)' = Held(u, r)
  BY <1>1 DEF Held, Untouched
<1>3. visibility'[r] = visibility[r] /\ (OwnerOf[r] = Organization => role' = role)
  BY DEF Untouched
<1> QED BY <1>2, <1>3 DEF Resolve, Held

Raised(u, r) == Resolve(u, r)' # NoAccess /\ ~MeetsMinimum(Resolve(u, r), Resolve(u, r)')

LEMMA UntouchedNotRaised ==
  ASSUME AccessTypeOK, NEW u \in Person \cup {Anonymous}, NEW r \in Repository, Untouched(r)
  PROVE  ~Raised(u, r)
<1>1. Resolve(u, r) \in PermissionLevel \cup {NoAccess} /\ Resolve(u, r)' = Resolve(u, r)
  BY ResolveTyped, UntouchedSame
<1> QED BY <1>1, FiveLevels DEF Raised, MeetsMinimum

\* A request only touches what its gate was about.
LEMMA RequestsConfined ==
  ASSUME GatesKept, NEW to, NEW on, Acts(to, on),
         \A r \in Repository : r # on /\ OwnerOf[r] # on => Untouched(r)
  PROVE  \A u \in Person \cup {Anonymous}, r \in Repository :
            Raised(u, r) => \E g \in gated \ gated' : g.entitled /\ g.on \in {r, OwnerOf[r]}
<1> SUFFICES ASSUME NEW u \in Person \cup {Anonymous}, NEW r \in Repository, Raised(u, r)
             PROVE  \E g \in gated \ gated' : g.entitled /\ g.on \in {r, OwnerOf[r]}
  OBVIOUS
<1>1. on \in {r, OwnerOf[r]}
  BY UntouchedNotRaised DEF GatesKept
<1> QED BY <1>1, ActsKeeps

\* The property of one step.
Entitled ==
  grants' # grants =>
    \A u \in Person \cup {Anonymous}, r \in Repository :
       Raised(u, r) => \E g \in gated \ gated' : g.entitled /\ g.on \in {r, OwnerOf[r]}

LEMMA OrganizationRequestsEntitled ==
  ASSUME GatesKept, NEW to, Acts(to, Organization), UNCHANGED <<collab, visibility>>
  PROVE  Entitled
<1>1. \A r \in Repository : r # Organization /\ OwnerOf[r] # Organization => Untouched(r)
  BY DEF Untouched
<1> QED BY <1>1, RequestsConfined DEF Entitled

LEMMA CreateOrgEntitled ==
  ASSUME GatesKept, NEW v \in Person, CreateOrg(v)
  PROVE  Entitled
<1> SUFFICES ASSUME NEW u \in Person \cup {Anonymous}, NEW r \in Repository, Raised(u, r)
             PROVE  FALSE
  BY DEF Entitled
<1>1. CASE OwnerOf[r] = Organization
  <2>1. visibility'[r] = "gone"
    BY <1>1 DEF CreateOrg, GatesKept
  <2>2. Resolve(u, r)' = NoAccess
    BY <2>1 DEF Resolve
  <2> QED BY <2>2 DEF Raised
<1>2. CASE OwnerOf[r] # Organization
  <2>1. Untouched(r)
    BY <1>2 DEF Untouched, CreateOrg
  <2> QED BY <2>1, UntouchedNotRaised DEF GatesKept
<1> QED BY <1>1, <1>2

LEMMA DeleteOrgEntitled ==
  ASSUME GatesKept, DeleteOrg
  PROVE  Entitled
<1>1. Acts("delete", Organization)
  BY DEF DeleteOrg
<1>2. ASSUME NEW r \in Repository, OwnerOf[r] # Organization PROVE Untouched(r)
  <2>1. visibility'[r] = visibility[r]
    BY <1>2 DEF DeleteOrg
  <2>2. ASSUME NEW u \in Person PROVE collab'[<<r, u>>] = collab[<<r, u>>]
    BY <1>2 DEF DeleteOrg
  <2> QED BY <1>2, <2>1, <2>2 DEF Untouched
<1> QED BY <1>1, <1>2, RequestsConfined DEF Entitled

LEMMA RepositoryRequestsEntitled ==
  ASSUME GatesKept, NEW on \in Repository,
         \/ \E u \in Person : \/ RemoveCollaborator(on, u)
                              \/ \E level \in Granted : AddCollaborator(on, u, level)
         \/ DeleteRepository(on)
         \/ \E v \in Visibility : SetVisibility(on, v)
  PROVE  Entitled
<1>1. Acts("repository", on)
  BY DEF RemoveCollaborator, AddCollaborator, DeleteRepository, SetVisibility
<1>2. ASSUME NEW r \in Repository, r # on PROVE Untouched(r)
  <2>1. ASSUME NEW u \in Person, \/ RemoveCollaborator(on, u)
                                 \/ \E level \in Granted : AddCollaborator(on, u, level)
        PROVE  Untouched(r)
    BY <1>2, <2>1 DEF Untouched, RemoveCollaborator, AddCollaborator, GatesKept, AccessTypeOK
  <2>2. CASE DeleteRepository(on)
    <3>1. \A u \in Person : collab'[<<r, u>>] = collab[<<r, u>>]
      BY <1>2, <2>2 DEF DeleteRepository
    <3> QED BY <1>2, <2>2, <3>1 DEF Untouched, DeleteRepository, GatesKept, AccessTypeOK
  <2>3. ASSUME NEW v \in Visibility, SetVisibility(on, v) PROVE Untouched(r)
    BY <1>2, <2>3 DEF Untouched, SetVisibility, GatesKept, AccessTypeOK
  <2> QED BY <2>1, <2>2, <2>3
<1> QED BY <1>1, <1>2, RequestsConfined DEF Entitled

LEMMA StepsEntitled == GatesKept /\ [AccessNext]_accessVars => Entitled
<1> SUFFICES ASSUME GatesKept, [AccessNext]_accessVars PROVE Entitled
  OBVIOUS
<1>1. CASE UNCHANGED grants
  BY <1>1 DEF Entitled
<1>2. ASSUME NEW u \in Person, CreateOrg(u) PROVE Entitled
  BY <1>2, CreateOrgEntitled
<1>3. ASSUME NEW u \in Person,
             RemoveMember(u) \/ \E as \in {"owner", "admin", "member"} : AddMember(u, as)
      PROVE  Entitled
  BY <1>3, OrganizationRequestsEntitled DEF RemoveMember, AddMember
<1>4. ASSUME NEW t \in Team,
             \/ CreateTeam(t) \/ DeleteTeam(t)
             \/ \E u \in Person : AddTeamMember(u, t) \/ RemoveTeamMember(u, t)
      PROVE  Entitled
  BY <1>4, OrganizationRequestsEntitled DEF CreateTeam, DeleteTeam, AddTeamMember, RemoveTeamMember
<1>5. ASSUME NEW r \in Repository,
             \/ \E u \in Person : \/ RemoveCollaborator(r, u)
                                  \/ \E level \in Granted : AddCollaborator(r, u, level)
             \/ DeleteRepository(r)
             \/ \E v \in Visibility : SetVisibility(r, v)
      PROVE  Entitled
  BY <1>5, RepositoryRequestsEntitled
<1>6. CASE DeleteOrg
  BY <1>6, DeleteOrgEntitled
<1>7. ASSUME NEW u \in Person,
             (\E to \in Change : OwnerGate(u, to)) \/ \E r \in Repository : AdminGate(u, r)
      PROVE  UNCHANGED grants
  BY <1>7 DEF OwnerGate, AdminGate, Let
<1>8. UNCHANGED accessVars => UNCHANGED grants
  BY DEF accessVars, grants
<1> QED BY <1>1, <1>2, <1>3, <1>4, <1>5, <1>6, <1>7, <1>8 DEF AccessNext

\* Nobody's level of a repository goes up but by a request of someone who was
\* entitled when the request was let in, whatever happened to his right since;
\* creating an organization anew raises nobody.
THEOREM RaisesAreEntitled == AccessSpec => RaisedByEntitled
<1>1. GatesKept /\ [AccessNext]_accessVars =>
        [grants' # grants => \A u \in Person \cup {Anonymous}, r \in Repository :
          (Resolve(u, r)' # NoAccess /\ ~MeetsMinimum(Resolve(u, r), Resolve(u, r)')) =>
              \E g \in gated \ gated' : g.entitled /\ g.on \in {r, OwnerOf[r]}]_accessVars
  BY StepsEntitled DEF Entitled, Raised
<1> QED BY <1>1, GatesAlways, PTL DEF AccessSpec, RaisedByEntitled
=============================================================================
