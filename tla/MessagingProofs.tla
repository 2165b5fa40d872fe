-------------------------- MODULE MessagingProofs --------------------------
(***************************************************************************)
(* Type correctness of Messaging and its safety properties, for any number *)
(* of users, processes, sockets and messages.                              *)
(***************************************************************************)
EXTENDS Messaging, SequenceTheorems, TLAPS

-----------------------------------------------------------------------------
(* Sequences *)

\* What is appended comes last, and the rest stays.
LEMMA Appended ==
    ASSUME NEW S, NEW q \in Seq(S), NEW x \in S
    PROVE  /\ Append(q, x) \in Seq(S)
           /\ DOMAIN Append(q, x) = 1..(Len(q) + 1) /\ DOMAIN q = 1..Len(q)
           /\ Len(q) \in Nat /\ Len(Append(q, x)) = Len(q) + 1
           /\ \A i \in DOMAIN q : i \in DOMAIN Append(q, x) /\ Append(q, x)[i] = q[i]
           /\ \A i \in DOMAIN Append(q, x) : i = Len(q) + 1 \/ i \in DOMAIN q
           /\ Append(q, x)[Len(q) + 1] = x
  OBVIOUS

\* What is left of a queue once its head is taken.
LEMMA Taken ==
    ASSUME NEW S, NEW q \in Seq(S), q # <<>>
    PROVE  /\ Head(q) \in S /\ Tail(q) \in Seq(S)
           /\ 1 \in DOMAIN q /\ Head(q) = q[1]
           /\ \A i \in DOMAIN Tail(q) : i + 1 \in DOMAIN q /\ Tail(q)[i] = q[i + 1]
           /\ \A i \in DOMAIN Tail(q) : i \in Nat /\ i >= 1
<1>1. Head(q) \in S /\ Tail(q) \in Seq(S) /\ Len(Tail(q)) = Len(q) - 1
      /\ \A i \in 1..Len(Tail(q)) : Tail(q)[i] = q[i + 1]
  BY HeadTailProperties
<1>2. Len(q) \in Nat \ {0} /\ DOMAIN q = 1..Len(q)
  BY EmptySeq, LenProperties
<1>3. DOMAIN Tail(q) = 1..(Len(q) - 1)
  BY <1>1, LenProperties
<1> QED BY <1>1, <1>2, <1>3

-----------------------------------------------------------------------------
(* How the steps of sockets and of the loop change a delivery *)

\* The delivery of p is d, those of other processes are as they were.
Becomes(p, d) ==
    /\ task' \in [Process -> Delivery] /\ task'[p] = d
    /\ \A r \in Process : r # p => task'[r] = task[r]
    /\ d.event = task[p].event /\ d.start = task[p].start
    /\ \A r \in Process : task'[r].event = task[r].event /\ task'[r].start = task[r].start

LEMMA ConnectDelivery ==
    ASSUME TypeOK, NEW s \in Socket, NEW u \in User, NEW p \in Process, Connect(s, u, p)
    PROVE  \/ UNCHANGED task /\ ~(Delivering(p, u) /\ task[p].attached)
           \/ /\ Delivering(p, u) /\ task[p].attached
              /\ \E left \in SUBSET conns'[p][u] :
                    Becomes(p, [task[p] EXCEPT !.ahead = left, !.calm = FALSE])
<1> USE DEF TypeOK
<1>1. conns'[p][u] \subseteq Socket
  BY DEF Connect
<1>2. ASSUME NEW left \in SUBSET conns'[p][u],
             task' = [task EXCEPT ![p].ahead = left, ![p].calm = FALSE]
      PROVE  Becomes(p, [task[p] EXCEPT !.ahead = left, !.calm = FALSE])
  <2>1. task' = [task EXCEPT ![p] = [task[p] EXCEPT !.ahead = left, !.calm = FALSE]]
    BY <1>2
  <2> DEFINE d == [task[p] EXCEPT !.ahead = left, !.calm = FALSE]
  <2>2. task[p] \in Delivery /\ left \subseteq Socket
    BY <1>1
  <2>3. d \in Delivery /\ d.event = task[p].event /\ d.start = task[p].start
    <3> HIDE DEF TypeOK
    <3> QED BY <2>2 DEF Delivery
  <2> HIDE DEF d
  <2> QED BY <2>1, <2>3 DEF Becomes, d
<1> QED BY <1>2 DEF Connect

LEMMA DisconnectDelivery ==
    ASSUME TypeOK, NEW s \in Socket, Disconnect(s),
           NEW p \in Process, NEW u \in User, home[s] = [user |-> u, process |-> p]
    PROVE  \/ UNCHANGED task /\ ~Delivering(p, u)
           \/ /\ Delivering(p, u)
              /\ Becomes(p, [task[p] EXCEPT !.ahead = @ \ {s}, !.calm = FALSE,
                 !.attached = IF conns[p][u] \ {s} = {} THEN FALSE ELSE @])
<1> USE DEF TypeOK
<1> DEFINE rest == task[p].ahead \ {s}
           att  == IF conns[p][u] \ {s} = {} THEN FALSE ELSE task[p].attached
           d    == [task[p] EXCEPT !.ahead = rest, !.calm = FALSE, !.attached = att]
<1>1. home[s].process = p /\ home[s].user = u
  OBVIOUS
<1>2. CASE Delivering(p, u)
  <2>1. task' = [task EXCEPT ![p].ahead = rest, ![p].calm = FALSE, ![p].attached = att]
    BY <1>1, <1>2 DEF Disconnect
  <2>2. rest \in SUBSET Socket /\ att \in BOOLEAN
    BY DEF Delivery
  <2> HIDE DEF rest, att
  <2>3. task' = [task EXCEPT ![p] = d]
    BY <2>1
  <2>4. d \in Delivery /\ d.event = task[p].event /\ d.start = task[p].start
    BY <2>2 DEF Delivery
  <2> HIDE DEF d
  <2>5. Becomes(p, d)
    BY <2>3, <2>4 DEF Becomes
  <2> QED BY <1>2, <2>5 DEF d, rest, att
<1>3. CASE ~Delivering(p, u)
  BY <1>1, <1>3 DEF Disconnect
<1> QED BY <1>2, <1>3

\* One pass of the loop: the client receives the event, or it is gone.
LEMMA SendDelivery ==
    ASSUME TypeOK, NEW p \in Process, NEW s \in Socket, Send(p, s)
    PROVE  \E dead \in SUBSET Socket :
             /\ Becomes(p, [task[p] EXCEPT !.ahead = @ \ {s}, !.dead = dead])
             /\ \/ dead = task[p].dead /\ sock[s] = "joined"
                   /\ inbox' = [inbox EXCEPT ![s] = Append(@, task[p].event)]
                \/ dead = task[p].dead /\ sock[s] = "broken" /\ inbox' = inbox
                \/ dead = task[p].dead \cup {s} /\ sock[s] = "broken" /\ inbox' = inbox
<1> USE DEF TypeOK
<1>1. ASSUME NEW dead \in SUBSET Socket,
             task' = [task EXCEPT ![p].ahead = @ \ {s}, ![p].dead = dead]
      PROVE  Becomes(p, [task[p] EXCEPT !.ahead = @ \ {s}, !.dead = dead])
  <2>1. task' = [task EXCEPT ![p] = [task[p] EXCEPT !.ahead = @ \ {s}, !.dead = dead]]
    BY <1>1
  <2> DEFINE d == [task[p] EXCEPT !.ahead = @ \ {s}, !.dead = dead]
  <2>2. d \in Delivery /\ d.event = task[p].event /\ d.start = task[p].start
    BY DEF Delivery
  <2> HIDE DEF d
  <2> QED BY <2>1, <2>2 DEF Becomes, d
<1>2. task[p].dead \in SUBSET Socket /\ task[p].dead \cup {s} \in SUBSET Socket
  BY DEF Delivery
<1>3. task' = [task EXCEPT ![p].ahead = @ \ {s}]
        => task' = [task EXCEPT ![p].ahead = @ \ {s}, ![p].dead = task[p].dead]
  BY DEF Delivery
<1>4. task' = [task EXCEPT ![p].ahead = @ \ {s}, ![p].dead = @ \cup {s}]
        => task' = [task EXCEPT ![p].ahead = @ \ {s}, ![p].dead = task[p].dead \cup {s}]
  BY DEF Delivery
<1>5. CASE sock[s] = "joined" /\ inbox' = [inbox EXCEPT ![s] = Append(@, task[p].event)]
           /\ task' = [task EXCEPT ![p].ahead = @ \ {s}]
  BY <1>1, <1>2, <1>3, <1>5
<1>6. CASE sock[s] = "broken" /\ inbox' = inbox /\ task' = [task EXCEPT ![p].ahead = @ \ {s}]
  BY <1>1, <1>2, <1>3, <1>6
<1>7. CASE sock[s] = "broken" /\ inbox' = inbox
           /\ task' = [task EXCEPT ![p].ahead = @ \ {s}, ![p].dead = @ \cup {s}]
  BY <1>1, <1>2, <1>4, <1>7
<1> QED BY <1>5, <1>6, <1>7 DEF Send

-----------------------------------------------------------------------------
(* Types *)

LEMMA TypeInit == Init => TypeOK
<1> SUFFICES ASSUME Init PROVE TypeOK
  OBVIOUS
<1>1. Home # {}
  <2>1. PICK u \in User, p \in Process : TRUE
    BY SomebodyAssumption
  <2>2. [user |-> u, process |-> p] \in Home
    BY DEF Home
  <2> QED BY <2>2
<1>2. home \in [Socket -> Home]
  BY <1>1 DEF Init
<1>3. Idle \in Delivery
  BY DEF Idle, Delivery
<1>4. task \in [Process -> Delivery] /\ \A p \in Process : task[p].event = 0
  BY <1>3 DEF Init, Idle
<1> QED BY <1>2, <1>4 DEF Init, TypeOK, NobodyConnected, Life

LEMMA TypeStep == TypeOK /\ [Next]_vars => TypeOK'
<1> SUFFICES ASSUME TypeOK, [Next]_vars PROVE TypeOK'
  OBVIOUS
<1> USE DEF TypeOK
<1>0. Idle \in Delivery
  BY DEF Idle, Delivery
<1>1. CASE UNCHANGED vars
  BY <1>1 DEF vars
<1>2. ASSUME NEW u \in User, StoreMessage(u) PROVE TypeOK'
  <2>1. /\ stored' \in Seq(User) /\ pending' \subseteq DOMAIN stored'
        /\ DOMAIN stored \subseteq DOMAIN stored'
    BY <1>2, Appended DEF StoreMessage
  <2>2. published' \in Seq(DOMAIN stored') /\ published' = published
    BY <1>2, <2>1, SeqMonotonic DEF StoreMessage, redis
  <2> QED BY <1>2, <2>1, <2>2 DEF StoreMessage, redis, sockets
<1>3. ASSUME NEW m \in pending, Publish(m) PROVE TypeOK'
  <2>1. /\ published' \in Seq(DOMAIN stored) /\ DOMAIN published \subseteq DOMAIN published'
        /\ Len(published) + 1 \in DOMAIN published'
    BY <1>3, Appended DEF Publish
  <2>2. ASSUME NEW p \in Process PROVE queue'[p] \in Seq(DOMAIN published')
    <3>1. queue[p] \in Seq(DOMAIN published')
      BY <2>1, SeqMonotonic
    <3>2. Append(queue[p], Len(published) + 1) \in Seq(DOMAIN published')
      BY <2>1, <3>1, Appended
    <3> QED BY <1>3, <3>1, <3>2 DEF Publish
  <2>3. queue' \in [Process -> Seq(DOMAIN published')]
    BY <1>3, <2>2 DEF Publish
  <2>4. inbox \in [Socket -> Seq(DOMAIN published')]
    BY <2>1, SeqMonotonic
  <2> QED BY <1>3, <2>1, <2>3, <2>4 DEF Publish, sockets
<1>4. ASSUME NEW m \in pending, PublishFails(m) PROVE TypeOK'
  BY <1>4 DEF PublishFails, redis, sockets
<1>5. ASSUME NEW s \in Socket, NEW u \in User, NEW p \in Process, Connect(s, u, p)
      PROVE  TypeOK'
  <2>1. home' \in [Socket -> Home] /\ sock' \in [Socket -> Life]
    BY <1>5 DEF Connect, Home, Life
  <2>2. conns' \in [Process -> [User -> SUBSET Socket]]
    BY <1>5 DEF Connect
  <2>3. /\ task' \in [Process -> Delivery]
        /\ \A r \in Process : task'[r].event = task[r].event
    BY <1>5, ConnectDelivery DEF Becomes
  <2> QED BY <1>5, <2>1, <2>2, <2>3 DEF Connect, database, redis
<1>6. ASSUME NEW s \in Socket, Break(s) PROVE TypeOK'
  BY <1>6 DEF Break, Life, database, redis
<1>7. ASSUME NEW s \in Socket, Disconnect(s) PROVE TypeOK'
  <2>1. home[s].process \in Process /\ home[s].user \in User
    BY DEF Home
  <2>2. conns' \in [Process -> [User -> SUBSET Socket]]
    BY <1>7, <2>1 DEF Disconnect
  <2>3. /\ task' \in [Process -> Delivery]
        /\ \A r \in Process : task'[r].event = task[r].event
    BY <1>7, <2>1, DisconnectDelivery DEF Becomes, Home
  <2>4. sock' \in [Socket -> Life]
    BY <1>7 DEF Disconnect, Life
  <2> QED BY <1>7, <2>2, <2>3, <2>4 DEF Disconnect, database, redis
<1>8. ASSUME NEW p \in Process, SkipEvent(p) PROVE TypeOK'
  <2>1. Tail(queue[p]) \in Seq(DOMAIN published)
    BY <1>8, Taken DEF SkipEvent
  <2> QED BY <1>8, <2>1 DEF SkipEvent, database, sockets
<1>9. ASSUME NEW p \in Process, TakeEvent(p) PROVE TypeOK'
  <2>1. Tail(queue[p]) \in Seq(DOMAIN published) /\ Head(queue[p]) \in DOMAIN published
    BY <1>9, Taken DEF TakeEvent
  <2>2. Head(queue[p]) \in Nat /\ Recipient(Head(queue[p])) \in User
    BY <2>1, LenProperties DEF Recipient
  <2>3. /\ task' \in [Process -> Delivery]
        /\ \A r \in Process : task'[r].event = IF r = p THEN Head(queue[p]) ELSE task[r].event
    BY <1>9, <2>2 DEF TakeEvent, Delivery, Connections
  <2> QED BY <1>9, <2>1, <2>3 DEF TakeEvent, database, sockets
<1>10. ASSUME NEW p \in Process, NEW s \in Socket, Send(p, s) PROVE TypeOK'
  <2>1. /\ task' \in [Process -> Delivery]
        /\ \A r \in Process : task'[r].event = task[r].event
    BY <1>10, SendDelivery DEF Becomes
  <2>2. Append(inbox[s], task[p].event) \in Seq(DOMAIN published)
    BY <1>10, Appended DEF Send
  <2>3. inbox' \in [Socket -> Seq(DOMAIN published)]
    BY <1>10, <2>2 DEF Send
  <2> QED BY <1>10, <2>1, <2>3 DEF Send, database, redis, sockets
<1>11. ASSUME NEW p \in Process, Finish(p) PROVE TypeOK'
  <2>1. Recipient(task[p].event) \in User
    BY <1>11, LenProperties DEF Finish, Recipient
  <2>2. conns' \in [Process -> [User -> SUBSET Socket]]
    BY <1>11, <2>1 DEF Finish
  <2> QED BY <1>0, <1>11, <2>2 DEF Finish, Idle, database, redis
<1>12. ASSUME NEW p \in Process, Abandon(p) PROVE TypeOK'
  BY <1>0, <1>12 DEF Abandon, Idle, database, redis, sockets
<1>13. ASSUME NEW p \in Process, LoseRedis(p) PROVE TypeOK'
  <2>1. queue' \in [Process -> Seq(DOMAIN published)]
    BY <1>13 DEF LoseRedis
  <2> QED BY <1>13, <2>1 DEF LoseRedis, database, sockets
<1>14. ASSUME NEW p \in Process, Restart(p) PROVE TypeOK'
  <2>1. queue' \in [Process -> Seq(DOMAIN published)]
    BY <1>14 DEF Restart
  <2>2. conns' \in [Process -> [User -> SUBSET Socket]]
    BY <1>14 DEF Restart, NobodyConnected
  <2>3. sock' \in [Socket -> Life] /\ listening' \subseteq Process
    BY <1>14 DEF Restart, Life
  <2>4. restarts' \in Nat
    BY <1>14 DEF Restart
  <2> QED BY <1>0, <1>14, <2>1, <2>2, <2>3, <2>4 DEF Restart, Idle, database
<1> QED
  BY <1>1, <1>2, <1>3, <1>4, <1>5, <1>6, <1>7, <1>8, <1>9, <1>10, <1>11, <1>12, <1>13, <1>14
  DEF Next, Listener

\* The state is always well typed: every queued, delivered or received event is
\* one that was published, and every published message is stored.
THEOREM TypeCorrect == Spec => []TypeOK
<1> QED BY TypeInit, TypeStep, PTL DEF Spec

-----------------------------------------------------------------------------
(* The inductive invariant *)

\* The loop of p iterates over a set its hub holds, of which it has sockets still
\* to meet; the sockets whose send raised are gone.
LoopOK(p) ==
    task[p].event # 0 =>
      /\ task[p].attached => task[p].ahead \subseteq conns[p][Recipient(task[p].event)]
      /\ ~task[p].attached => task[p].ahead = {}
      /\ \A s \in task[p].dead : sock[s] \in {"broken", "left"}

\* In a calm delivery the set is the one the loop began with, and each of its
\* sockets has received the event, is still to be met, or had its send raise.
CalmOK(p) ==
    task[p].event # 0 /\ task[p].calm =>
      /\ task[p].attached
      /\ task[p].start = conns[p][Recipient(task[p].event)]
      /\ \A s \in task[p].start :
           \/ s \in task[p].ahead \cup task[p].dead \/ sock[s] \in {"broken", "left"}
           \/ \E i \in DOMAIN inbox[s] : inbox[s][i] = task[p].event

\* The events of p lie in the order received, in delivery, queued.
OrderOK(p) ==
    /\ \A i, j \in DOMAIN queue[p] : i < j => queue[p][i] < queue[p][j]
    /\ task[p].event # 0 => \A i \in DOMAIN queue[p] : task[p].event < queue[p][i]
    /\ \A s \in Socket : home[s].process = p =>
         \A k \in DOMAIN inbox[s] :
           /\ \A i \in DOMAIN queue[p] : inbox[s][k] < queue[p][i]
           /\ task[p].event # 0 => inbox[s][k] <= task[p].event

\* A socket has received nothing before its handshake.
NewEmpty == \A s \in Socket : sock[s] = "new" => inbox[s] = <<>>

Hub == ConnectionsExact /\ (\A p \in Process : LoopOK(p)) /\ NewEmpty

IInv == TypeOK /\ Hub /\ PushedToRecipient /\ ReceivedInOrder
               /\ \A p \in Process : OrderOK(p) /\ CalmOK(p)

LEMMA InitInv == Init => IInv
<1> SUFFICES ASSUME Init PROVE IInv
  OBVIOUS
<1>1. TypeOK
  BY TypeInit
<1>2. DOMAIN <<>> = {}
  OBVIOUS
<1> QED
  BY <1>1, <1>2 DEF Init, IInv, Hub, ConnectionsExact, LoopOK, CalmOK, OrderOK, NewEmpty,
     PushedToRecipient, ReceivedInOrder, NobodyConnected, Idle

\* Neither a new message nor a new event changes to whom an old event goes.
LEMMA RecipientStays ==
    ASSUME TypeOK, [Next]_vars
    PROVE  \A e \in DOMAIN published : Recipient(e)' = Recipient(e)
<1> USE DEF TypeOK
<1>1. ASSUME NEW u \in User, StoreMessage(u)
      PROVE  \A e \in DOMAIN published : Recipient(e)' = Recipient(e)
  <2>1. \A m \in DOMAIN stored : stored'[m] = stored[m]
    BY <1>1, Appended DEF StoreMessage
  <2>2. \A e \in DOMAIN published : published[e] \in DOMAIN stored
    BY LenProperties, ElementOfSeq
  <2> QED BY <1>1, <2>1, <2>2 DEF StoreMessage, redis, Recipient
<1>2. ASSUME NEW m \in pending, Publish(m)
      PROVE  \A e \in DOMAIN published : Recipient(e)' = Recipient(e)
  <2>1. \A e \in DOMAIN published : published'[e] = published[e]
    BY <1>2, Appended DEF Publish
  <2> QED BY <1>2, <2>1 DEF Publish, Recipient
<1>3. CASE UNCHANGED <<stored, published>>
  BY <1>3 DEF Recipient
<1> QED
  BY <1>1, <1>2, <1>3 DEF Next, vars, Listener, PublishFails, Connect, Break, Disconnect,
     SkipEvent, TakeEvent, Send, Finish, Abandon, LoseRedis, Restart, database, redis

LEMMA ExactStep == IInv /\ [Next]_vars => ConnectionsExact'
<1> SUFFICES ASSUME IInv, [Next]_vars PROVE ConnectionsExact'
  OBVIOUS
<1> USE DEF IInv, Hub, TypeOK, ConnectionsExact
<1>1. CASE UNCHANGED sockets
  BY <1>1 DEF sockets
<1>2. ASSUME NEW s \in Socket, NEW u \in User, NEW p \in Process, Connect(s, u, p)
      PROVE  ConnectionsExact'
  <2>1. ASSUME NEW q \in Process, NEW v \in User, NEW r \in Socket
        PROVE  /\ r \in conns'[q][v] <=> r \in conns[q][v] \/ (r = s /\ q = p /\ v = u)
               /\ r # s => home'[r] = home[r] /\ sock'[r] = sock[r]
    BY <1>2 DEF Connect
  <2>2. home'[s] = [user |-> u, process |-> p] /\ sock'[s] = "joined"
    BY <1>2 DEF Connect
  <2>3. \A q \in Process, v \in User : s \notin conns[q][v]
    BY <1>2 DEF Connect
  <2>4. TypeOK'
    BY TypeStep
  <2>5. ASSUME NEW q \in Process, NEW v \in User, NEW r \in Socket
        PROVE  /\ home'[r] = [user |-> v, process |-> q] /\ sock'[r] = "joined"
                    => r \in conns'[q][v]
               /\ r \in conns'[q][v] => /\ home'[r] = [user |-> v, process |-> q]
                                        /\ sock'[r] \in {"joined", "broken"}
    <3>1. CASE r = s
      BY <2>1, <2>2, <2>3, <3>1
    <3>2. CASE r # s
      BY <2>1, <3>2
    <3> QED BY <3>1, <3>2
  <2>6. \A q \in Process, v \in User : conns'[q][v] \subseteq Socket
    BY <2>4
  <2> QED BY <2>5, <2>6
<1>3. ASSUME NEW s \in Socket, Break(s) PROVE ConnectionsExact'
  BY <1>3 DEF Break
<1>4. ASSUME NEW s \in Socket, Disconnect(s) PROVE ConnectionsExact'
  <2>1. home[s].process \in Process /\ home[s].user \in User
        /\ home[s] = [user |-> home[s].user, process |-> home[s].process]
    BY DEF Home
  <2>2. ASSUME NEW q \in Process, NEW v \in User
        PROVE  conns'[q][v] = conns[q][v] \ {s}
    <3>1. CASE q = home[s].process /\ v = home[s].user
      BY <1>4, <2>1, <3>1 DEF Disconnect
    <3>2. CASE ~(q = home[s].process /\ v = home[s].user)
      <4>1. conns'[q][v] = conns[q][v]
        BY <1>4, <2>1, <3>2 DEF Disconnect
      <4>2. s \in conns[q][v] => home[s] = [user |-> v, process |-> q]
        OBVIOUS
      <4>3. s \notin conns[q][v]
        BY <3>2, <4>2
      <4> QED BY <4>1, <4>3
    <3> QED BY <3>1, <3>2
  <2> QED BY <1>4, <2>2 DEF Disconnect
<1>5. ASSUME NEW p \in Process, Finish(p) PROVE ConnectionsExact'
  <2>1. ASSUME NEW q \in Process, NEW v \in User
        PROVE  conns'[q][v] = conns[q][v] \/ conns'[q][v] = conns[q][v] \ task[p].dead
    BY <1>5 DEF Finish
  <2>2. \A r \in task[p].dead : sock[r] # "joined"
    BY <1>5 DEF Finish, LoopOK
  <2> QED BY <1>5, <2>1, <2>2 DEF Finish
<1>6. ASSUME NEW p \in Process, Restart(p) PROVE ConnectionsExact'
  BY <1>6 DEF Restart, NobodyConnected
<1> QED
  BY <1>1, <1>2, <1>3, <1>4, <1>5, <1>6 DEF Next, vars, Listener, StoreMessage, Publish,
     PublishFails, SkipEvent, TakeEvent, Send, Abandon, LoseRedis, sockets

LEMMA NewEmptyStep == IInv /\ [Next]_vars => NewEmpty'
<1> SUFFICES ASSUME IInv, [Next]_vars PROVE NewEmpty'
  OBVIOUS
<1> USE DEF IInv, Hub, TypeOK, NewEmpty
<1>1. \A s \in Socket : sock'[s] = "new" => sock[s] = "new"
  BY DEF Next, vars, Listener, StoreMessage, Publish, PublishFails, Connect, Break,
     Disconnect, SkipEvent, TakeEvent, Send, Finish, Abandon, LoseRedis, Restart, sockets
<1>2. \A s \in Socket : inbox'[s] # inbox[s] => sock[s] = "joined"
  <2>1. ASSUME NEW p \in Process, NEW r \in Socket, Send(p, r)
        PROVE  \A s \in Socket : inbox'[s] # inbox[s] => sock[s] = "joined"
    BY <2>1 DEF Send
  <2> QED
    BY <2>1 DEF Next, vars, Listener, StoreMessage, Publish, PublishFails, Connect, Break,
       Disconnect, SkipEvent, TakeEvent, Finish, Abandon, LoseRedis, Restart
<1> QED BY <1>1, <1>2

\* What LoopOK says before a step, and what suffices for it after a step that
\* leaves the delivery of q to its event.
LEMMA LoopFacts ==
    ASSUME IInv, [Next]_vars, NEW q \in Process, task[q].event # 0
    PROVE  LET R == Recipient(task[q].event) IN
           /\ R \in User
           /\ task[q].attached => task[q].ahead \subseteq conns[q][R]
           /\ ~task[q].attached => task[q].ahead = {}
           /\ \A s \in task[q].dead : sock[s] \in {"broken", "left"}
           /\ task'[q].event = task[q].event => Recipient(task[q].event)' = R
<1> DEFINE e == task[q].event
<1>1. TypeOK /\ LoopOK(q) /\ e \in DOMAIN published
  BY DEF IInv, Hub, TypeOK
<1>2. Recipient(e) \in User
  BY <1>1, LenProperties DEF TypeOK, Recipient
<1>4. \A x \in DOMAIN published : stored'[published'[x]] = stored[published[x]]
  BY <1>1, RecipientStays DEF Recipient
<1>5. task'[q].event = e => stored'[published'[task'[q].event]] = stored[published[e]]
  BY <1>1, <1>4
<1> QED BY <1>1, <1>2, <1>5 DEF LoopOK, Recipient

LEMMA LoopStep == IInv /\ [Next]_vars => \A p \in Process : LoopOK(p)'
<1> SUFFICES ASSUME IInv, [Next]_vars, NEW q \in Process PROVE LoopOK(q)'
  OBVIOUS
<1> DEFINE R == Recipient(task[q].event)
           Was(s) == sock[s] \in {"broken", "left"}
           Is(s)  == sock'[s] \in {"broken", "left"}
<1>a. TypeOK /\ \A p \in Process : task[p] \in Delivery
  BY DEF IInv, TypeOK
<1>b. task[q].event # 0 =>
        /\ R \in User
        /\ task[q].attached => task[q].ahead \subseteq conns[q][R]
        /\ ~task[q].attached => task[q].ahead = {}
        /\ \A s \in task[q].dead : Was(s)
        /\ task'[q].event = task[q].event => Recipient(task[q].event)' = R
  BY LoopFacts
<1> HIDE DEF R
<1>c. ASSUME task'[q].event = task[q].event,
             task[q].event # 0 =>
               /\ task'[q].attached => task'[q].ahead \subseteq conns'[q][R]
               /\ ~task'[q].attached => task'[q].ahead = {}
               /\ \A s \in task'[q].dead : Is(s)
      PROVE  LoopOK(q)'
  BY <1>b, <1>c DEF LoopOK
<1>d. ASSUME task'[q] = task[q], task[q].event # 0 => conns'[q][R] = conns[q][R],
             \A s \in Socket : Was(s) => Is(s)
      PROVE  LoopOK(q)'
  <2>1. task[q].dead \subseteq Socket
    BY <1>a DEF Delivery
  <2> QED BY <1>b, <1>c, <1>d, <2>1
<1>1. CASE UNCHANGED <<sock, conns, task>>
  BY <1>1, <1>d
<1>2. ASSUME NEW s \in Socket, NEW u \in User, NEW p \in Process, Connect(s, u, p)
      PROVE  LoopOK(q)'
  <2>1. \A r \in Socket : Was(r) => Is(r)
    BY <1>2, <1>a DEF Connect, TypeOK
  <2>2. conns' = [conns EXCEPT ![p][u] = @ \cup {s}]
    BY <1>2 DEF Connect
  <2>3. CASE UNCHANGED task /\ ~(Delivering(p, u) /\ task[p].attached)
    <3>1. task[q].event # 0 /\ task[q].attached => conns'[q][R] = conns[q][R]
      BY <1>a, <1>b, <2>2, <2>3 DEF Delivering, R, TypeOK
    <3>2. task[q].dead \subseteq Socket
      BY <1>a DEF Delivery
    <3> QED BY <1>b, <1>c, <2>1, <2>3, <3>1, <3>2
  <2>4. ASSUME Delivering(p, u), task[p].attached, NEW left \in SUBSET conns'[p][u],
               Becomes(p, [task[p] EXCEPT !.ahead = left, !.calm = FALSE])
        PROVE  LoopOK(q)'
    <3>1. CASE q = p
      <4>1. /\ task'[q].event = task[q].event /\ task'[q].ahead = left
            /\ task'[q].attached = task[q].attached /\ task'[q].dead = task[q].dead
            /\ task[q].dead \subseteq Socket
        BY <1>a, <2>4, <3>1 DEF Becomes, Delivery
      <4>2. R = u
        BY <2>4, <3>1 DEF Delivering, R
      <4> QED BY <1>b, <1>c, <2>1, <2>4, <3>1, <4>1, <4>2
    <3>2. CASE q # p
      <4>1. task'[q] = task[q] /\ conns'[q] = conns[q]
        BY <1>a, <2>2, <2>4, <3>2 DEF Becomes, TypeOK
      <4> QED BY <1>d, <2>1, <4>1
    <3> QED BY <3>1, <3>2
  <2> QED BY <1>2, <1>a, <2>3, <2>4, ConnectDelivery
<1>3. ASSUME NEW s \in Socket, Break(s) PROVE LoopOK(q)'
  <2>1. \A r \in Socket : Was(r) => Is(r)
    BY <1>3, <1>a DEF Break, TypeOK
  <2> QED BY <1>3, <1>d, <2>1 DEF Break
<1>4. ASSUME NEW s \in Socket, Disconnect(s) PROVE LoopOK(q)'
  <2>1. PICK p \in Process, u \in User : home[s] = [user |-> u, process |-> p]
    BY <1>a DEF TypeOK, Home
  <2>2. \A r \in Socket : Was(r) => Is(r)
    BY <1>4, <1>a DEF Disconnect, TypeOK
  <2>3. conns' = [conns EXCEPT ![p][u] = @ \ {s}]
    BY <1>4, <2>1 DEF Disconnect
  <2>4. CASE UNCHANGED task /\ ~Delivering(p, u)
    <3>1. task[q].event # 0 => conns'[q][R] = conns[q][R]
      BY <1>a, <1>b, <2>3, <2>4 DEF Delivering, R, TypeOK
    <3> QED BY <1>d, <2>2, <2>4, <3>1
  <2>5. ASSUME Delivering(p, u),
               Becomes(p, [task[p] EXCEPT !.ahead = @ \ {s}, !.calm = FALSE,
                 !.attached = IF conns[p][u] \ {s} = {} THEN FALSE ELSE @])
        PROVE  LoopOK(q)'
    <3>1. CASE q = p
      <4>1. /\ task'[q].event = task[q].event /\ task'[q].ahead = task[q].ahead \ {s}
            /\ task'[q].attached = IF conns[p][u] \ {s} = {} THEN FALSE ELSE task[q].attached
            /\ task'[q].dead = task[q].dead /\ task[q].dead \subseteq Socket
        BY <1>a, <2>5, <3>1 DEF Becomes, Delivery
      <4>2. R = u
        BY <2>5, <3>1 DEF Delivering, R
      <4>3. conns'[q][R] = conns[q][R] \ {s} /\ conns[p][u] = conns[q][R]
        BY <1>a, <2>3, <3>1, <4>2 DEF TypeOK
      <4> QED BY <1>b, <1>c, <2>2, <4>1, <4>3
    <3>2. CASE q # p
      <4>1. task'[q] = task[q] /\ conns'[q] = conns[q]
        BY <1>a, <2>3, <2>5, <3>2 DEF Becomes, TypeOK
      <4> QED BY <1>d, <2>2, <4>1
    <3> QED BY <3>1, <3>2
  <2> QED BY <1>4, <1>a, <2>1, <2>4, <2>5, DisconnectDelivery
<1>5. ASSUME NEW p \in Process, TakeEvent(p) PROVE LoopOK(q)'
  <2>1. CASE q = p
    <3> DEFINE e == Head(queue[p])
    <3>1. /\ task'[q].event = e /\ task'[q].attached /\ task'[q].dead = {}
          /\ task'[q].ahead = conns[q][Recipient(e)] /\ conns' = conns
      BY <1>5, <1>a, <2>1 DEF TakeEvent, Connections, sockets, TypeOK
    <3>2. e \in DOMAIN published
      BY <1>5, <1>a, Taken DEF TakeEvent, TypeOK
    <3>3. stored'[published'[e]] = stored[published[e]]
      BY <1>5 DEF TakeEvent, database
    <3> HIDE DEF e
    <3> QED BY <3>1, <3>3 DEF LoopOK, Recipient
  <2>2. CASE q # p
    <3>1. UNCHANGED <<sock, conns>> /\ task'[q] = task[q]
      BY <1>5, <1>a, <2>2 DEF TakeEvent, sockets, TypeOK
    <3> QED BY <1>d, <3>1
  <2> QED BY <2>1, <2>2
<1>6. ASSUME NEW p \in Process, NEW s \in Socket, Send(p, s) PROVE LoopOK(q)'
  <2>1. PICK dead \in SUBSET Socket :
          /\ Becomes(p, [task[p] EXCEPT !.ahead = @ \ {s}, !.dead = dead])
          /\ dead = task[p].dead \/ (dead = task[p].dead \cup {s} /\ sock[s] = "broken")
    BY <1>6, <1>a, SendDelivery
  <2>2. UNCHANGED <<sock, conns>>
    BY <1>6 DEF Send, sockets
  <2>3. CASE q = p
    <3>1. /\ task'[q].event = task[q].event /\ task'[q].ahead = task[q].ahead \ {s}
          /\ task'[q].attached = task[q].attached /\ task'[q].dead = dead
      BY <1>a, <2>1, <2>3 DEF Becomes, Delivery
    <3> QED BY <1>b, <1>c, <2>1, <2>2, <2>3, <3>1
  <2>4. CASE q # p
    <3>1. task'[q] = task[q]
      BY <2>1, <2>4 DEF Becomes
    <3> QED BY <1>d, <2>2, <3>1
  <2> QED BY <2>3, <2>4
<1>7. ASSUME NEW p \in Process, task' = [task EXCEPT ![p] = Idle], conns' = conns \/ Finish(p),
             \A s \in Socket : Was(s) => Is(s)
      PROVE  LoopOK(q)'
  <2>1. CASE q = p
    <3>1. task'[q].event = 0
      BY <1>7, <1>a, <2>1 DEF TypeOK, Idle
    <3> QED BY <3>1 DEF LoopOK
  <2>2. CASE q # p
    <3>1. task'[q] = task[q] /\ conns'[q] = conns[q]
      BY <1>7, <1>a, <2>2 DEF Finish, TypeOK
    <3> QED BY <1>7, <1>d, <3>1
  <2> QED BY <2>1, <2>2
<1>8. ASSUME NEW p \in Process, Finish(p) \/ Abandon(p) PROVE LoopOK(q)'
  <2>1. task' = [task EXCEPT ![p] = Idle] /\ sock' = sock
    BY <1>8 DEF Finish, Abandon, sockets
  <2>2. conns' = conns \/ Finish(p)
    BY <1>8 DEF Abandon, sockets
  <2> QED BY <1>7, <2>1, <2>2
<1>9. ASSUME NEW p \in Process, Restart(p) PROVE LoopOK(q)'
  <2>1. \A s \in Socket : Was(s) => Is(s)
    BY <1>9, <1>a DEF Restart, TypeOK
  <2>2. CASE q = p
    <3>1. task'[q].event = 0
      BY <1>9, <1>a, <2>2 DEF Restart, TypeOK, Idle
    <3> QED BY <3>1 DEF LoopOK
  <2>3. CASE q # p
    <3>1. task'[q] = task[q] /\ conns'[q] = conns[q]
      BY <1>9, <1>a, <2>3 DEF Restart, TypeOK
    <3> QED BY <1>d, <2>1, <3>1
  <2> QED BY <2>2, <2>3
<1> QED
  BY <1>1, <1>2, <1>3, <1>4, <1>5, <1>6, <1>8, <1>9 DEF Next, vars, Listener,
     StoreMessage, Publish, PublishFails, SkipEvent, LoseRedis, sockets

\* Every event in an inbox or a queue was published.
LEMMA Events ==
    ASSUME TypeOK
    PROVE  /\ Len(published) \in Nat /\ DOMAIN published = 1..Len(published)
           /\ \A s \in Socket : \A i \in DOMAIN inbox[s] :
                i \in Nat /\ inbox[s][i] \in DOMAIN published
           /\ \A p \in Process : \A i \in DOMAIN queue[p] :
                i \in Nat /\ queue[p][i] \in DOMAIN published
           /\ \A p \in Process : task[p].event \in Nat
<1>1. ASSUME NEW q \in Seq(DOMAIN published), NEW i \in DOMAIN q
      PROVE  i \in Nat /\ q[i] \in DOMAIN published
  BY <1>1, LenProperties, ElementOfSeq
<1>2. \A p \in Process : task[p].event \in Nat
  BY DEF TypeOK, Delivery
<1> QED BY <1>1, <1>2, LenProperties DEF TypeOK

\* A socket of the set a delivery is in the middle of is its recipient's.
LEMMA SendHome ==
    ASSUME IInv, NEW p \in Process, NEW s \in Socket, Send(p, s)
    PROVE  home[s] = [user |-> Recipient(task[p].event), process |-> p]
<1>1. TypeOK /\ LoopOK(p) /\ ConnectionsExact /\ task[p].event # 0
  BY DEF IInv, Hub, Send
<1>2. Recipient(task[p].event) \in User
  BY <1>1, LenProperties DEF TypeOK, Recipient
<1>3. s \in conns[p][Recipient(task[p].event)]
  BY <1>1 DEF Send, LoopOK, TypeOK, Delivery
<1> QED BY <1>1, <1>2, <1>3 DEF ConnectionsExact

LEMMA PushedStep == IInv /\ [Next]_vars => PushedToRecipient'
<1> SUFFICES ASSUME IInv, [Next]_vars PROVE PushedToRecipient'
  OBVIOUS
<1>1. TypeOK /\ NewEmpty /\ PushedToRecipient
  BY DEF IInv, Hub
<1>2. \A x \in DOMAIN published : stored'[published'[x]] = stored[published[x]]
  BY <1>1, RecipientStays DEF Recipient
<1>3. \A s \in Socket : \A i \in DOMAIN inbox[s] :
        stored'[published'[inbox[s][i]]] = home[s].user
  BY <1>1, <1>2, Events DEF PushedToRecipient, Recipient
<1>4. CASE UNCHANGED <<inbox, home>>
  BY <1>3, <1>4 DEF PushedToRecipient, Recipient
<1>5. ASSUME NEW s \in Socket, NEW u \in User, NEW p \in Process, Connect(s, u, p)
      PROVE  PushedToRecipient'
  <2>1. inbox' = inbox /\ inbox[s] = <<>>
    BY <1>1, <1>5 DEF Connect, NewEmpty
  <2>2. \A r \in Socket : r # s => home'[r] = home[r]
    BY <1>1, <1>5 DEF Connect, TypeOK
  <2>3. DOMAIN inbox[s] = {}
    BY <2>1
  <2> QED BY <1>3, <2>1, <2>2, <2>3 DEF PushedToRecipient, Recipient
<1>6. ASSUME NEW p \in Process, NEW s \in Socket, Send(p, s) PROVE PushedToRecipient'
  <2> DEFINE e == task[p].event
  <2>0. home[s] = [user |-> Recipient(e), process |-> p]
    BY <1>6, SendHome
  <2>1. home' = home /\ home[s].user = Recipient(e) /\ e \in DOMAIN published
    BY <1>1, <1>6, <2>0 DEF Send, sockets, TypeOK
  <2>2. stored'[published'[e]] = home[s].user
    BY <1>2, <2>1 DEF Recipient
  <2>3. inbox' = inbox \/ inbox' = [inbox EXCEPT ![s] = Append(@, e)]
    BY <1>6 DEF Send
  <2> HIDE DEF e
  <2>4. inbox[s] \in Seq(DOMAIN published)
    BY <1>1 DEF TypeOK
  <2>5. \A i \in DOMAIN Append(inbox[s], e) :
          \/ i \in DOMAIN inbox[s] /\ Append(inbox[s], e)[i] = inbox[s][i]
          \/ Append(inbox[s], e)[i] = e
    BY <2>1, <2>4, Appended
  <2>6. \A r \in Socket : \A i \in DOMAIN inbox'[r] :
          \/ i \in DOMAIN inbox[r] /\ inbox'[r][i] = inbox[r][i]
          \/ r = s /\ inbox'[r][i] = e
    BY <1>1, <2>3, <2>5 DEF TypeOK
  <2>7. ASSUME NEW r \in Socket, NEW i \in DOMAIN inbox'[r]
        PROVE  stored'[published'[inbox'[r][i]]] = home'[r].user
    BY <1>3, <2>1, <2>2, <2>6, <2>7
  <2> QED BY <2>7 DEF PushedToRecipient, Recipient
<1> QED
  BY <1>4, <1>5, <1>6 DEF Next, vars, Listener, StoreMessage, Publish, PublishFails, Break,
     Disconnect, SkipEvent, TakeEvent, Finish, Abandon, LoseRedis, Restart, sockets

LEMMA ReceivedStep == IInv /\ [Next]_vars => ReceivedInOrder'
<1> SUFFICES ASSUME IInv, [Next]_vars PROVE ReceivedInOrder'
  OBVIOUS
<1>1. TypeOK /\ ReceivedInOrder /\ \A p \in Process : OrderOK(p)
  BY DEF IInv
<1>2. CASE UNCHANGED inbox
  BY <1>1, <1>2 DEF ReceivedInOrder
<1>3. ASSUME NEW p \in Process, NEW s \in Socket, Send(p, s) PROVE ReceivedInOrder'
  <2> DEFINE e == task[p].event
             q == inbox[s]
  <2>1. e # 0 /\ e \in DOMAIN published /\ q \in Seq(DOMAIN published)
    BY <1>1, <1>3 DEF Send, TypeOK
  <2>2. \A k \in DOMAIN q : q[k] <= e
    <3>1. home[s] = [user |-> Recipient(e), process |-> p]
      BY <1>3, SendHome
    <3>2. home[s].process = p
      BY <3>1
    <3> QED BY <1>1, <2>1, <3>2 DEF OrderOK
  <2>3. inbox' = inbox \/ inbox' = [inbox EXCEPT ![s] = Append(q, e)]
    BY <1>3 DEF Send
  <2>4. \A i, j \in DOMAIN q : i < j => q[i] <= q[j]
    BY <1>1 DEF ReceivedInOrder
  <2>5. e \in Nat
    BY <1>1, Events
  <2> HIDE DEF e, q
  <2>6. ASSUME NEW i \in DOMAIN Append(q, e), NEW j \in DOMAIN Append(q, e), i < j
        PROVE  Append(q, e)[i] <= Append(q, e)[j]
    <3>1. CASE j = Len(q) + 1
      <4>1. i \in DOMAIN q /\ Append(q, e)[i] = q[i] /\ Append(q, e)[j] = e
        BY <2>1, <2>6, <3>1, Appended
      <4> QED BY <2>2, <4>1
    <3>2. CASE j # Len(q) + 1
      <4>1. /\ i \in DOMAIN q /\ Append(q, e)[i] = q[i]
            /\ j \in DOMAIN q /\ Append(q, e)[j] = q[j]
        BY <2>1, <2>6, <3>2, Appended
      <4> QED BY <2>4, <2>6, <4>1
    <3> QED BY <3>1, <3>2
  <2>7. \A r \in Socket : inbox'[r] = inbox[r] \/ (r = s /\ inbox'[r] = Append(q, e))
    BY <1>1, <2>3 DEF TypeOK
  <2> QED BY <1>1, <2>6, <2>7 DEF ReceivedInOrder
<1> QED
  BY <1>2, <1>3 DEF Next, vars, Listener, StoreMessage, Publish, PublishFails, Connect, Break,
     Disconnect, SkipEvent, TakeEvent, Finish, Abandon, LoseRedis, Restart

LEMMA OrderStep == IInv /\ [Next]_vars => \A p \in Process : OrderOK(p)'
<1> SUFFICES ASSUME IInv, [Next]_vars, NEW q \in Process PROVE OrderOK(q)'
  OBVIOUS
<1>1. TypeOK /\ NewEmpty /\ OrderOK(q)
  BY DEF IInv, Hub
<1>2. CASE UNCHANGED <<inbox, home>> /\ queue'[q] = queue[q]
           /\ (task'[q].event = task[q].event \/ task'[q].event = 0)
  BY <1>1, <1>2 DEF OrderOK
<1>3. CASE UNCHANGED <<inbox, home>> /\ queue'[q] = <<>>
           /\ (task'[q].event = task[q].event \/ task'[q].event = 0)
  <2>1. DOMAIN queue'[q] = {}
    BY <1>3
  <2> QED BY <1>1, <1>3, <2>1 DEF OrderOK
<1>4. ASSUME NEW m \in pending, Publish(m) PROVE OrderOK(q)'
  <2>1. CASE q \in listening
    <3> DEFINE Q == queue[q]
               n == Len(published) + 1
    <3>1. queue'[q] = Append(Q, n)
      BY <1>4, <2>1 DEF Publish
    <3>2. UNCHANGED <<inbox, home, task>>
      BY <1>4 DEF Publish, sockets
    <3>3. \A x \in DOMAIN published : x \in Nat /\ x < n
      BY <1>1, Events
    <3>4. Q \in Seq(Nat) /\ n \in Nat
      <4>1. DOMAIN published \subseteq Nat
        BY <3>3
      <4> QED BY <1>1, <4>1, Events, SeqMonotonic DEF TypeOK
    <3>5. \A i \in DOMAIN Q : Q[i] \in DOMAIN published /\ i \in Nat
      BY <1>1, Events
    <3>6. \A i \in DOMAIN Append(Q, n) :
            \/ i \in DOMAIN Q /\ Append(Q, n)[i] = Q[i]
            \/ i = Len(Q) + 1 /\ Append(Q, n)[i] = n
      BY <3>4, Appended
    <3>7. \A i \in DOMAIN Q : i < Len(Q) + 1
      BY <3>4, Appended
    <3> HIDE DEF n
    <3>8. ASSUME NEW i \in DOMAIN queue'[q], NEW j \in DOMAIN queue'[q], i < j
          PROVE  queue'[q][i] < queue'[q][j]
      <4>1. i \in DOMAIN Q /\ queue'[q][i] = Q[i]
        <5>1. j \in Nat /\ j <= Len(Q) + 1 /\ Len(Q) \in Nat
          BY <3>1, <3>4, <3>8, Appended
        <5>2. ~(i = Len(Q) + 1)
          BY <3>8, <5>1
        <5> QED BY <3>1, <3>6, <3>8, <5>2
      <4>2. CASE j \in DOMAIN Q /\ queue'[q][j] = Q[j]
        BY <1>1, <3>8, <4>1, <4>2 DEF OrderOK
      <4>3. CASE queue'[q][j] = n
        BY <3>3, <3>5, <4>1, <4>3
      <4> QED BY <3>1, <3>6, <3>8, <4>2, <4>3
    <3>9. ASSUME task[q].event # 0, NEW i \in DOMAIN queue'[q]
          PROVE  task[q].event < queue'[q][i]
      <4>1. task[q].event \in DOMAIN published
        BY <1>1, <3>9 DEF TypeOK
      <4> QED BY <1>1, <3>1, <3>3, <3>6, <3>9, <4>1 DEF OrderOK
    <3>10. ASSUME NEW s \in Socket, home[s].process = q, NEW k \in DOMAIN inbox[s],
                  NEW i \in DOMAIN queue'[q]
           PROVE  inbox[s][k] < queue'[q][i]
      <4>1. inbox[s][k] \in DOMAIN published
        BY <1>1, Events
      <4> QED BY <1>1, <3>1, <3>3, <3>6, <3>10, <4>1 DEF OrderOK
    <3> HIDE DEF Q
    <3> QED BY <1>1, <3>2, <3>8, <3>9, <3>10 DEF OrderOK
  <2>2. CASE q \notin listening
    BY <1>2, <1>4, <2>2 DEF Publish, sockets
  <2> QED BY <2>1, <2>2
<1>5. ASSUME NEW s \in Socket, NEW u \in User, NEW p \in Process, Connect(s, u, p)
      PROVE  OrderOK(q)'
  <2>1. inbox' = inbox /\ queue' = queue /\ inbox[s] = <<>>
    BY <1>1, <1>5 DEF Connect, NewEmpty, redis
  <2>2. \A r \in Socket : r # s => home'[r] = home[r]
    BY <1>1, <1>5 DEF Connect, TypeOK
  <2>3. DOMAIN inbox[s] = {}
    BY <2>1
  <2>4. task'[q].event = task[q].event
    BY <1>1, <1>5, ConnectDelivery DEF Becomes
  <2> QED BY <1>1, <2>1, <2>2, <2>3, <2>4 DEF OrderOK
<1>6. ASSUME NEW s \in Socket, Disconnect(s) PROVE OrderOK(q)'
  <2>1. PICK p \in Process, u \in User : home[s] = [user |-> u, process |-> p]
    BY <1>1 DEF TypeOK, Home
  <2>2. task'[q].event = task[q].event
    BY <1>1, <1>6, <2>1, DisconnectDelivery DEF Becomes
  <2> QED BY <1>2, <1>6, <2>2 DEF Disconnect, redis
<1>7. ASSUME NEW p \in Process, SkipEvent(p) \/ TakeEvent(p) PROVE OrderOK(q)'
  <2>1. CASE q = p
    <3> DEFINE Q == queue[q]
               e == task'[q].event
    <3>1. /\ queue'[q] = Tail(Q) /\ Q # <<>> /\ task[q].event = 0
          /\ e = Head(Q) \/ e = 0
          /\ UNCHANGED <<inbox, home>>
      <4>1. CASE SkipEvent(p)
        BY <1>1, <2>1, <4>1 DEF SkipEvent, sockets, TypeOK
      <4>2. CASE TakeEvent(p)
        BY <1>1, <2>1, <4>2 DEF TakeEvent, sockets, TypeOK
      <4> QED BY <1>7, <4>1, <4>2
    <3>2. /\ 1 \in DOMAIN Q /\ Head(Q) = Q[1]
          /\ \A i \in DOMAIN Tail(Q) :
               i + 1 \in DOMAIN Q /\ Tail(Q)[i] = Q[i + 1] /\ i \in Nat /\ i >= 1
      BY <1>1, <3>1, Taken DEF TypeOK
    <3>3. \A i \in DOMAIN Q : i \in Nat /\ Q[i] \in Nat
      BY <1>1, Events
    <3>4. \A s \in Socket : \A k \in DOMAIN inbox[s] : inbox[s][k] \in Nat
      BY <1>1, Events
    <3>5. /\ \A i, j \in DOMAIN Q : i < j => Q[i] < Q[j]
          /\ \A s \in Socket : home[s].process = q =>
               \A k \in DOMAIN inbox[s] : \A i \in DOMAIN Q : inbox[s][k] < Q[i]
      BY <1>1 DEF OrderOK
    <3> HIDE DEF Q, e
    <3>6. \A i, j \in DOMAIN Tail(Q) : i < j => Tail(Q)[i] < Tail(Q)[j]
      <4>1. ASSUME NEW i \in DOMAIN Tail(Q), NEW j \in DOMAIN Tail(Q), i < j
            PROVE  i + 1 < j + 1
        BY <3>2, <4>1
      <4> QED BY <3>2, <3>5, <4>1
    <3>7. \A i \in DOMAIN Tail(Q) : Head(Q) < Tail(Q)[i]
      <4>1. \A i \in DOMAIN Tail(Q) : 1 < i + 1
        BY <3>2
      <4> QED BY <3>2, <3>5, <4>1
    <3>8. \A s \in Socket : home[s].process = q =>
            \A k \in DOMAIN inbox[s] :
              /\ \A i \in DOMAIN Tail(Q) : inbox[s][k] < Tail(Q)[i]
              /\ inbox[s][k] <= Head(Q)
      <4>1. Head(Q) \in Nat
        BY <3>2, <3>3
      <4>2. ASSUME NEW s \in Socket, home[s].process = q, NEW k \in DOMAIN inbox[s]
            PROVE  inbox[s][k] < Head(Q)
        BY <3>2, <3>5, <4>2
      <4>3. ASSUME NEW s \in Socket, home[s].process = q, NEW k \in DOMAIN inbox[s]
            PROVE  inbox[s][k] <= Head(Q)
        BY <3>4, <4>1, <4>2, <4>3
      <4> QED BY <3>2, <3>5, <4>3
    <3> QED BY <3>1, <3>6, <3>7, <3>8 DEF OrderOK, e
  <2>2. CASE q # p
    <3>1. queue'[q] = queue[q] /\ task'[q] = task[q] /\ UNCHANGED <<inbox, home>>
      BY <1>1, <1>7, <2>2 DEF SkipEvent, TakeEvent, sockets, TypeOK
    <3> QED BY <1>2, <3>1
  <2> QED BY <2>1, <2>2
<1>8. ASSUME NEW p \in Process, NEW s \in Socket, Send(p, s) PROVE OrderOK(q)'
  <2>1. queue' = queue /\ home' = home /\ \A r \in Process : task'[r].event = task[r].event
    BY <1>1, <1>8, SendDelivery DEF Becomes, Send, redis, sockets
  <2>2. CASE inbox' = inbox
    BY <1>2, <2>1, <2>2
  <2>3. CASE inbox' = [inbox EXCEPT ![s] = Append(@, task[p].event)]
    <3> DEFINE e == task[p].event
               I == inbox[s]
    <3>1. I \in Seq(DOMAIN published) /\ e \in DOMAIN published /\ e # 0
      BY <1>1, <1>8 DEF TypeOK, Send
    <3>2. home[s] = [user |-> Recipient(e), process |-> p]
      BY <1>8, SendHome
    <3>3. home[s].process = p
      BY <3>2
    <3>4. \A r \in Socket : r # s => inbox'[r] = inbox[r]
      BY <1>1, <2>3 DEF TypeOK
    <3>5. inbox'[s] = Append(I, e)
      BY <1>1, <2>3 DEF TypeOK
    <3>6. \A k \in DOMAIN Append(I, e) :
            (k \in DOMAIN I /\ Append(I, e)[k] = I[k]) \/ Append(I, e)[k] = e
      BY <3>1, Appended
    <3>7. e \in Nat
      BY <1>1, Events
    <3> HIDE DEF I
    <3>8. CASE q = p
      <4>1. \A k \in DOMAIN inbox'[s] :
              /\ \A i \in DOMAIN queue[q] : inbox'[s][k] < queue[q][i]
              /\ inbox'[s][k] <= e
        BY <1>1, <3>1, <3>3, <3>5, <3>6, <3>7, <3>8 DEF OrderOK, I
      <4> QED BY <1>1, <2>1, <3>4, <3>8, <4>1 DEF OrderOK
    <3>9. CASE q # p
      BY <1>1, <2>1, <3>3, <3>4, <3>9 DEF OrderOK
    <3> QED BY <3>8, <3>9
  <2> QED BY <1>8, <2>2, <2>3 DEF Send
<1>9. ASSUME NEW p \in Process, Finish(p) \/ Abandon(p) PROVE OrderOK(q)'
  <2>1. task'[q].event = task[q].event \/ task'[q].event = 0
    <3>1. task' = [task EXCEPT ![p] = Idle]
      BY <1>9 DEF Finish, Abandon
    <3>2. CASE q = p
      BY <1>1, <3>1, <3>2 DEF Idle, TypeOK
    <3>3. CASE q # p
      BY <1>1, <3>1, <3>3 DEF TypeOK
    <3> QED BY <3>2, <3>3
  <2>2. UNCHANGED <<inbox, home, queue>>
    BY <1>9 DEF Finish, Abandon, redis, sockets
  <2> QED BY <1>2, <2>1, <2>2
<1>10. ASSUME NEW p \in Process, LoseRedis(p) \/ Restart(p) PROVE OrderOK(q)'
  <2>1. UNCHANGED <<inbox, home>> /\ (queue'[q] = queue[q] \/ queue'[q] = <<>>)
    BY <1>1, <1>10 DEF LoseRedis, Restart, sockets, TypeOK
  <2>2. task'[q].event = task[q].event \/ task'[q].event = 0
    <3>1. task' = task \/ task' = [task EXCEPT ![p] = Idle]
      BY <1>10 DEF LoseRedis, Restart
    <3>2. CASE q = p
      BY <1>1, <3>1, <3>2 DEF Idle, TypeOK
    <3>3. CASE q # p
      BY <1>1, <3>1, <3>3 DEF TypeOK
    <3> QED BY <3>2, <3>3
  <2> QED BY <1>2, <1>3, <2>1, <2>2
<1>11. CASE UNCHANGED <<inbox, home, queue, task>>
  BY <1>2, <1>11
<1> QED
  BY <1>4, <1>5, <1>6, <1>7, <1>8, <1>9, <1>10, <1>11 DEF Next, vars, Listener,
     StoreMessage, PublishFails, Break, redis, sockets

\* No step takes an event out of an inbox.
LEMMA InboxKept ==
    ASSUME TypeOK, [Next]_vars, NEW s \in Socket, NEW e,
           \E i \in DOMAIN inbox[s] : inbox[s][i] = e
    PROVE  \E i \in DOMAIN inbox'[s] : inbox'[s][i] = e
<1>1. CASE UNCHANGED inbox
  BY <1>1
<1>2. ASSUME NEW p \in Process, NEW r \in Socket, Send(p, r)
      PROVE  \E i \in DOMAIN inbox'[s] : inbox'[s][i] = e
  <2>1. CASE inbox' = [inbox EXCEPT ![r] = Append(@, task[p].event)]
    <3>1. inbox[s] \in Seq(DOMAIN published) /\ task[p].event \in DOMAIN published
      BY <1>2 DEF TypeOK, Send
    <3>2. inbox'[s] = inbox[s] \/ inbox'[s] = Append(inbox[s], task[p].event)
      BY <2>1 DEF TypeOK
    <3> QED BY <3>1, <3>2, Appended
  <2> QED BY <1>1, <1>2, <2>1 DEF Send
<1> QED
  BY <1>1, <1>2 DEF Next, vars, Listener, StoreMessage, Publish, PublishFails, Connect, Break,
     Disconnect, SkipEvent, TakeEvent, Finish, Abandon, LoseRedis, Restart

LEMMA CalmStep == IInv /\ [Next]_vars => \A p \in Process : CalmOK(p)'
<1> SUFFICES ASSUME IInv, [Next]_vars, NEW q \in Process PROVE CalmOK(q)'
  OBVIOUS
<1> DEFINE R == Recipient(task[q].event)
           e == task[q].event
           Gone(s) == sock[s] \in {"broken", "left"}
           Gone1(s) == sock'[s] \in {"broken", "left"}
           Has(s) == \E i \in DOMAIN inbox[s] : inbox[s][i] = e
           Has1(s) == \E i \in DOMAIN inbox'[s] : inbox'[s][i] = e
           Settled(s) == s \in task[q].ahead \cup task[q].dead \/ Gone(s) \/ Has(s)
           Settled1(s) == s \in task'[q].ahead \cup task'[q].dead \/ Gone1(s) \/ Has1(s)
<1>a. TypeOK /\ CalmOK(q) /\ \A p \in Process : task[p] \in Delivery
  BY DEF IInv, TypeOK
<1>b. e # 0 /\ task[q].calm =>
        /\ task[q].attached /\ task[q].start = conns[q][R]
        /\ \A s \in task[q].start : Settled(s)
  BY <1>a DEF CalmOK
<1>c. e # 0 => R \in User /\ (task'[q].event = e => Recipient(task[q].event)' = R)
  BY LoopFacts
<1>d. \A s \in Socket : Has(s) => Has1(s)
  BY <1>a, InboxKept
<1>e. task[q].start \subseteq Socket
  BY <1>a DEF Delivery
<1> HIDE DEF R, Has, Has1, Gone, Gone1
<1>f. ASSUME task'[q].event = e,
             e # 0 /\ task'[q].calm =>
               /\ task'[q].attached /\ task'[q].start = conns'[q][R]
               /\ \A s \in task'[q].start : Settled1(s)
      PROVE  CalmOK(q)'
  BY <1>c, <1>f DEF CalmOK, Gone1, Has1
<1>g. ASSUME task'[q] = task[q], e # 0 /\ task[q].calm => conns'[q][R] = conns[q][R],
             \A s \in Socket : Gone(s) => Gone1(s)
      PROVE  CalmOK(q)'
  BY <1>b, <1>d, <1>e, <1>f, <1>g
<1>1. CASE UNCHANGED <<sock, conns, task>>
  BY <1>1, <1>g DEF Gone, Gone1
<1>2. ASSUME NEW s \in Socket, NEW u \in User, NEW p \in Process, Connect(s, u, p)
      PROVE  CalmOK(q)'
  <2>1. \A r \in Socket : Gone(r) => Gone1(r)
    BY <1>2, <1>a DEF Connect, TypeOK, Gone, Gone1
  <2>2. conns' = [conns EXCEPT ![p][u] = @ \cup {s}]
    BY <1>2 DEF Connect
  <2>3. CASE UNCHANGED task /\ ~(Delivering(p, u) /\ task[p].attached)
    <3>1. e # 0 /\ task[q].calm => conns'[q][R] = conns[q][R]
      BY <1>a, <1>b, <1>c, <2>2, <2>3 DEF Delivering, R, TypeOK
    <3> QED BY <1>g, <2>1, <2>3, <3>1
  <2>4. ASSUME NEW left \in SUBSET conns'[p][u],
               Becomes(p, [task[p] EXCEPT !.ahead = left, !.calm = FALSE])
        PROVE  CalmOK(q)'
    <3>1. CASE q = p
      <4>1. task'[q].event = e /\ ~task'[q].calm
        BY <1>a, <2>4, <3>1 DEF Becomes, Delivery
      <4> QED BY <1>f, <4>1
    <3>2. CASE q # p
      <4>1. task'[q] = task[q] /\ conns'[q] = conns[q]
        BY <1>a, <2>2, <2>4, <3>2 DEF Becomes, TypeOK
      <4> QED BY <1>g, <2>1, <4>1
    <3> QED BY <3>1, <3>2
  <2> QED BY <1>2, <1>a, <2>3, <2>4, ConnectDelivery
<1>3. ASSUME NEW s \in Socket, Break(s) PROVE CalmOK(q)'
  <2>1. \A r \in Socket : Gone(r) => Gone1(r)
    BY <1>3, <1>a DEF Break, TypeOK, Gone, Gone1
  <2> QED BY <1>3, <1>g, <2>1 DEF Break
<1>4. ASSUME NEW s \in Socket, Disconnect(s) PROVE CalmOK(q)'
  <2>1. PICK p \in Process, u \in User : home[s] = [user |-> u, process |-> p]
    BY <1>a DEF TypeOK, Home
  <2>2. \A r \in Socket : Gone(r) => Gone1(r)
    BY <1>4, <1>a DEF Disconnect, TypeOK, Gone, Gone1
  <2>3. conns' = [conns EXCEPT ![p][u] = @ \ {s}]
    BY <1>4, <2>1 DEF Disconnect
  <2>4. CASE UNCHANGED task /\ ~Delivering(p, u)
    <3>1. e # 0 => conns'[q][R] = conns[q][R]
      BY <1>a, <1>c, <2>3, <2>4 DEF Delivering, R, TypeOK
    <3> QED BY <1>g, <2>2, <2>4, <3>1
  <2>5. ASSUME Becomes(p, [task[p] EXCEPT !.ahead = @ \ {s}, !.calm = FALSE,
                 !.attached = IF conns[p][u] \ {s} = {} THEN FALSE ELSE @])
        PROVE  CalmOK(q)'
    <3>1. CASE q = p
      <4>1. task'[q].event = e /\ ~task'[q].calm
        BY <1>a, <2>5, <3>1 DEF Becomes, Delivery
      <4> QED BY <1>f, <4>1
    <3>2. CASE q # p
      <4>1. task'[q] = task[q] /\ conns'[q] = conns[q]
        BY <1>a, <2>3, <2>5, <3>2 DEF Becomes, TypeOK
      <4> QED BY <1>g, <2>2, <4>1
    <3> QED BY <3>1, <3>2
  <2> QED BY <1>4, <1>a, <2>1, <2>4, <2>5, DisconnectDelivery
<1>5. ASSUME NEW p \in Process, TakeEvent(p) PROVE CalmOK(q)'
  <2>1. CASE q = p
    <3> DEFINE x == Head(queue[p])
    <3>1. /\ task'[q].event = x /\ task'[q].attached /\ conns' = conns
          /\ task'[q].start = conns[q][Recipient(x)] /\ task'[q].ahead = task'[q].start
      BY <1>5, <1>a, <2>1 DEF TakeEvent, Connections, sockets, TypeOK
    <3>2. stored' = stored /\ published' = published
      BY <1>5 DEF TakeEvent, database
    <3> HIDE DEF x
    <3> QED BY <3>1, <3>2 DEF CalmOK, Recipient
  <2>2. CASE q # p
    <3>1. UNCHANGED <<sock, conns>> /\ task'[q] = task[q]
      BY <1>5, <1>a, <2>2 DEF TakeEvent, sockets, TypeOK
    <3> QED BY <1>g, <3>1 DEF Gone, Gone1
  <2> QED BY <2>1, <2>2
<1>6. ASSUME NEW p \in Process, NEW s \in Socket, Send(p, s) PROVE CalmOK(q)'
  <2>1. PICK dead \in SUBSET Socket :
          /\ Becomes(p, [task[p] EXCEPT !.ahead = @ \ {s}, !.dead = dead])
          /\ \/ dead = task[p].dead /\ sock[s] = "joined"
                /\ inbox' = [inbox EXCEPT ![s] = Append(@, task[p].event)]
             \/ dead = task[p].dead /\ sock[s] = "broken" /\ inbox' = inbox
             \/ dead = task[p].dead \cup {s} /\ sock[s] = "broken" /\ inbox' = inbox
    BY <1>6, <1>a, SendDelivery
  <2>2. UNCHANGED <<sock, conns>>
    BY <1>6 DEF Send, sockets
  <2>3. \A r \in Socket : Gone(r) => Gone1(r)
    BY <2>2 DEF Gone, Gone1
  <2>4. CASE q = p
    <3>1. /\ task'[q].event = e /\ task'[q].ahead = task[q].ahead \ {s}
          /\ task'[q].attached = task[q].attached /\ task'[q].dead = dead
          /\ task'[q].start = task[q].start /\ task'[q].calm = task[q].calm
          /\ task[q].dead \subseteq dead
      BY <1>a, <2>1, <2>4 DEF Becomes, Delivery
    <3>2. Gone1(s) \/ Has1(s)
      <4>1. CASE sock[s] = "broken"
        BY <2>2, <4>1 DEF Gone1
      <4>2. CASE inbox' = [inbox EXCEPT ![s] = Append(@, task[p].event)]
        <5>1. inbox[s] \in Seq(DOMAIN published) /\ e \in DOMAIN published
          BY <1>6, <1>a, <2>4 DEF TypeOK, Send
        <5>2. inbox'[s] = Append(inbox[s], e)
          BY <1>a, <2>4, <4>2 DEF TypeOK
        <5>3. Len(inbox[s]) + 1 \in DOMAIN inbox'[s] /\ inbox'[s][Len(inbox[s]) + 1] = e
          BY <5>1, <5>2, Appended
        <5> QED BY <5>3 DEF Has1
      <4> QED BY <2>1, <4>1, <4>2
    <3>3. e # 0 /\ task[q].calm => \A r \in task[q].start : Settled1(r)
      BY <1>b, <1>d, <1>e, <2>3, <3>1, <3>2
    <3> QED BY <1>b, <1>f, <2>2, <3>1, <3>3
  <2>5. CASE q # p
    <3>1. task'[q] = task[q]
      BY <2>1, <2>5 DEF Becomes
    <3> QED BY <1>g, <2>2, <2>3, <3>1
  <2> QED BY <2>4, <2>5
<1>7. ASSUME NEW p \in Process, Finish(p) \/ Abandon(p) \/ Restart(p) PROVE CalmOK(q)'
  <2>1. task' = [task EXCEPT ![p] = Idle]
    BY <1>7 DEF Finish, Abandon, Restart
  <2>2. \A s \in Socket : Gone(s) => Gone1(s)
    BY <1>7, <1>a DEF Finish, Abandon, Restart, sockets, TypeOK, Gone, Gone1
  <2>3. CASE q = p
    <3>1. task'[q].event = 0
      BY <1>a, <2>1, <2>3 DEF TypeOK, Idle
    <3> QED BY <3>1 DEF CalmOK
  <2>4. CASE q # p
    <3>1. task'[q] = task[q]
      BY <1>a, <2>1, <2>4 DEF TypeOK
    <3>2. conns'[q] = conns[q]
      BY <1>7, <1>a, <2>4 DEF Finish, Abandon, Restart, sockets, TypeOK
    <3> QED BY <1>g, <2>2, <3>1, <3>2
  <2> QED BY <2>3, <2>4
<1> QED
  BY <1>1, <1>2, <1>3, <1>4, <1>5, <1>6, <1>7 DEF Next, vars, Listener,
     StoreMessage, Publish, PublishFails, SkipEvent, LoseRedis, sockets

LEMMA InvStep == IInv /\ [Next]_vars => IInv'
BY TypeStep, ExactStep, LoopStep, NewEmptyStep, PushedStep, ReceivedStep, OrderStep, CalmStep
   DEF IInv, Hub

THEOREM Invariance == Spec => []IInv
BY InitInv, InvStep, PTL DEF Spec

-----------------------------------------------------------------------------
(* The properties *)

\* A hub knows the sockets that wait on it, and no others, however many users,
\* processes and sockets there are.
THEOREM HubsExact == Spec => []ConnectionsExact
<1>1. IInv => ConnectionsExact
  BY DEF IInv, Hub
<1> QED BY <1>1, Invariance, PTL

\* No client is pushed a message addressed to somebody else.
THEOREM PushedOnlyToRecipient == Spec => []PushedToRecipient
<1>1. IInv => PushedToRecipient
  BY DEF IInv
<1> QED BY <1>1, Invariance, PTL

\* No client receives an event after a later one.
THEOREM PushedInOrder == Spec => []ReceivedInOrder
<1>1. IInv => ReceivedInOrder
  BY DEF IInv
<1> QED BY <1>1, Invariance, PTL

\* A delivery no socket of the user came to or left during reaches every client.
THEOREM CalmReaches == Spec => CalmDeliveryReaches
<1>1. ASSUME IInv, [Next]_vars, NEW p \in Process, NEW s \in Socket,
             EndsFor(p, s), task[p].calm
      PROVE  Received(s, task[p].event)
  <2>1. /\ TypeOK /\ task[p].attached /\ task[p].start = conns[p][Recipient(task[p].event)]
        /\ s \in task[p].ahead \cup task[p].dead \/ sock[s] \in {"broken", "left"}
             \/ \E i \in DOMAIN inbox[s] : inbox[s][i] = task[p].event
        /\ \A r \in task[p].dead : sock[r] \in {"broken", "left"}
    BY <1>1 DEF IInv, Hub, CalmOK, LoopOK, EndsFor
  <2>2. ~SizeChanged(p)
    BY <2>1 DEF SizeChanged, Iterated, Connections
  <2>3. CASE Finish(p)
    <3>1. sock[s] = "joined" /\ task[p].ahead = {} /\ inbox' = inbox
      BY <1>1, <2>3 DEF Finish, EndsFor
    <3> QED BY <2>1, <3>1 DEF Received
  <2>4. CASE Restart(p)
    <3>1. Recipient(task[p].event) \in User
      BY <1>1, <2>1, LenProperties DEF TypeOK, Recipient, EndsFor
    <3>2. s \in conns[p][Recipient(task[p].event)]
      BY <1>1, <2>1 DEF EndsFor
    <3>3. home[s] = [user |-> Recipient(task[p].event), process |-> p]
          /\ sock[s] \in {"joined", "broken"}
      BY <1>1, <3>1, <3>2 DEF IInv, Hub, ConnectionsExact
    <3>4. home[s].process = p /\ sock[s] # "new"
      BY <3>3
    <3>5. sock'[s] = "left"
      BY <2>4, <3>4 DEF Restart
    <3> QED BY <1>1, <3>5 DEF EndsFor
  <2>5. task'[p].event = task[p].event \/ Finish(p) \/ Restart(p) \/ Abandon(p)
    <3> DEFINE Same == task'[p].event = task[p].event
    <3>0. TypeOK /\ task[p].event # 0
      BY <2>1, <1>1 DEF EndsFor
    <3>1. ASSUME NEW r \in Socket, NEW u \in User, NEW q \in Process, Connect(r, u, q) PROVE Same
      BY <3>0, <3>1, ConnectDelivery DEF Becomes
    <3>2. ASSUME NEW r \in Socket, Disconnect(r) PROVE Same
      <4>1. PICK q \in Process, u \in User : home[r] = [user |-> u, process |-> q]
        BY <3>0 DEF TypeOK, Home
      <4> QED BY <3>0, <3>2, <4>1, DisconnectDelivery DEF Becomes
    <3>3. ASSUME NEW q \in Process, TakeEvent(q) PROVE Same
      BY <3>0, <3>3 DEF TakeEvent, TypeOK
    <3>4. ASSUME NEW q \in Process, NEW r \in Socket, Send(q, r) PROVE Same
      BY <3>0, <3>4, SendDelivery DEF Becomes
    <3>5. ASSUME NEW q \in Process, q # p, Finish(q) \/ Abandon(q) \/ Restart(q) PROVE Same
      BY <3>0, <3>5 DEF Finish, Abandon, Restart, TypeOK
    <3> QED
      BY <1>1, <3>1, <3>2, <3>3, <3>4, <3>5 DEF Next, vars, Listener, StoreMessage, Publish,
         PublishFails, Break, SkipEvent, LoseRedis
  <2> QED BY <1>1, <2>2, <2>3, <2>4, <2>5 DEF EndsFor, Abandon
<1>2. IInv /\ [Next]_vars =>
        [\A p \in Process, s \in Socket :
           EndsFor(p, s) /\ task[p].calm => Received(s, task[p].event)]_vars
  BY <1>1
<1> QED BY <1>2, Invariance, PTL DEF Spec, CalmDeliveryReaches
=============================================================================
