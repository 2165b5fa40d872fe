----------------------------- MODULE Messaging -----------------------------
(***************************************************************************)
(* Direct messages and the WebSocket hub that pushes them.  A request      *)
(* stores a message and publishes an event on one Redis channel; each API  *)
(* process has a listener task that takes the events in turn and sends     *)
(* them to the sockets its own ConnectionManager holds for the recipient.  *)
(* Each send is an await: sockets come and go while the listener is in the *)
(* middle of a user's set.                                                 *)
(***************************************************************************)
EXTENDS Naturals, Sequences, FiniteSets

CONSTANTS
    User,
    Process,     \* API processes
    MaxSockets,  \* bound on WebSocket connections
    MaxMessages, \* bound on messages stored
    MaxRestarts  \* bound on process restarts

ASSUME BoundsAssumption == MaxSockets \in Nat /\ MaxMessages \in Nat /\ MaxRestarts \in Nat

ASSUME SomebodyAssumption == User # {} /\ Process # {}

VARIABLES
    stored,     \* recipients of the messages in the database, in commit order
    pending,    \* messages whose request has committed and not yet published
    published,  \* messages published on ws:notifications, in that order
    queue,      \* events (positions of `published`) each listener has to take
    listening,  \* the processes whose listener task runs
    home,       \* the user each socket has authenticated as and its process
    sock,       \* the life of each socket
    conns,      \* _connections of each process
    task,       \* the event each listener is delivering
    inbox,      \* history: the events each client has received
    restarts    \* restarts so far

vars == <<stored, pending, published, queue, listening, home, sock, conns, task,
          inbox, restarts>>

database == <<stored, pending>>
redis    == <<published, queue, listening>>
sockets  == <<home, sock, conns>>

-----------------------------------------------------------------------------
(* Types *)

\* Sockets are numbered in the order of their handshakes.
Socket == 1..MaxSockets

Home == [user : User, process : Process]

\* "joined": the route waits in receive_text; "broken": the peer is gone and
\* the route has not noticed; "left": the route has ended.
Life == {"new", "joined", "broken", "left"}

\* _deliver_local's loop over the set `conns`: `event` is 0 between events,
\* `start` the set as the loop began, `ahead` the sockets its iterator has still
\* to meet, `dead` those whose send raised.  `attached`: _connections still
\* holds that set.  `calm` is history: no socket of the user came or went.
Delivery == [event : Nat, attached : BOOLEAN, start : SUBSET Socket,
             ahead : SUBSET Socket, dead : SUBSET Socket, calm : BOOLEAN]

Idle == [event |-> 0, attached |-> FALSE, start |-> {}, ahead |-> {}, dead |-> {},
         calm |-> TRUE]

TypeOK ==
    /\ stored \in Seq(User)
    /\ pending \subseteq DOMAIN stored
    /\ published \in Seq(DOMAIN stored)
    /\ queue \in [Process -> Seq(DOMAIN published)]
    /\ listening \subseteq Process
    /\ home \in [Socket -> Home]
    /\ sock \in [Socket -> Life]
    /\ conns \in [Process -> [User -> SUBSET Socket]]
    /\ task \in [Process -> Delivery]
    /\ \A p \in Process : task[p].event # 0 => task[p].event \in DOMAIN published
    /\ inbox \in [Socket -> Seq(DOMAIN published)]
    /\ restarts \in Nat

-----------------------------------------------------------------------------
(* Helpers *)

Recipient(e) == stored[published[e]]

NobodyConnected == [u \in User |-> {}]

\* Fault: _deliver_local sends to all the sockets of the process.
Connections_OfAnyone(p, u) == UNION {conns[p][v] : v \in User}

\* What self._connections.get(user_id) gives, {} for an absent entry.
Connections(p, u) == conns[p][u]

\* The set the listener of p is iterating over.  disconnect() drops an empty
\* set from the map; the loop then still holds that set, which stays empty.
Iterated(p) ==
    IF task[p].attached THEN Connections(p, Recipient(task[p].event)) ELSE {}

\* The listener of p is in the middle of the set of user u.
Delivering(p, u) == task[p].event # 0 /\ Recipient(task[p].event) = u

\* next() on a Python set raises when its size has changed since iter().
SizeChanged(p) == Cardinality(Iterated(p)) # Cardinality(task[p].start)

Init ==
    /\ stored = <<>> /\ pending = {} /\ published = <<>>
    /\ queue = [p \in Process |-> <<>>]
    /\ listening \in SUBSET Process     \* start_listener may fail
    /\ home = [s \in Socket |-> CHOOSE h \in Home : TRUE]   \* no meaning while "new"
    /\ sock = [s \in Socket |-> "new"]
    /\ conns = [p \in Process |-> NobodyConnected]
    /\ task = [p \in Process |-> Idle]
    /\ inbox = [s \in Socket |-> <<>>]
    /\ restarts = 0

-----------------------------------------------------------------------------
(* POST /messages/{username} *)

\* Fault: the commit is missing: the request goes on to publish a message nobody stored.
StoreMessage_Uncommitted(u) ==
    /\ Len(stored) < MaxMessages
    /\ pending' = pending \cup {Len(stored) + 1}
    /\ UNCHANGED <<stored, redis, sockets, task, inbox, restarts>>

\* send_message up to db.commit().
StoreMessage(u) ==
    /\ Len(stored) < MaxMessages
    /\ stored' = Append(stored, u)
    /\ pending' = pending \cup {Len(stored) + 1}
    /\ UNCHANGED <<redis, sockets, task, inbox, restarts>>

\* connection_manager.publish(): every subscribed listener will see the event.
Publish(m) ==
    /\ m \in pending
    /\ pending' = pending \ {m}
    /\ published' = Append(published, m)
    /\ queue' = [p \in Process |-> IF p \in listening
                                   THEN Append(queue[p], Len(published) + 1)
                                   ELSE queue[p]]
    /\ UNCHANGED <<stored, listening, sockets, task, inbox, restarts>>

\* Redis refuses, or the process is lost: the message stays stored, unannounced.
PublishFails(m) ==
    /\ m \in pending
    /\ pending' = pending \ {m}
    /\ UNCHANGED <<stored, redis, sockets, task, inbox, restarts>>

-----------------------------------------------------------------------------
(* The route /ws/notifications *)

\* connect().  An iteration in progress may or may not meet the new socket, and
\* a table rebuilt to make room may put any of the sockets before it again.
Connect(s, u, p) ==
    LET met == Delivering(p, u) /\ task[p].attached IN
    /\ sock[s] = "new" /\ \A r \in 1..(s - 1) : sock[r] # "new"
    /\ sock' = [sock EXCEPT ![s] = "joined"]
    /\ home' = [home EXCEPT ![s] = [user |-> u, process |-> p]]
    /\ conns' = [conns EXCEPT ![p][u] = @ \cup {s}]
    /\ IF met
       THEN \E left \in SUBSET conns'[p][u] :
              task' = [task EXCEPT ![p].ahead = left, ![p].calm = FALSE]
       ELSE UNCHANGED task
    /\ UNCHANGED <<database, redis, inbox, restarts>>

\* The peer vanishes without a close frame.
Break(s) ==
    /\ sock[s] = "joined"
    /\ sock' = [sock EXCEPT ![s] = "broken"]
    /\ UNCHANGED <<database, redis, home, conns, task, inbox, restarts>>

\* Fault: disconnect() pops the user's entry whether or not other sockets are in it.
Disconnect_PopsAll(s) ==
    LET p == home[s].process
        u == home[s].user
    IN
    /\ sock[s] \in {"joined", "broken"}
    /\ sock' = [sock EXCEPT ![s] = "left"]
    /\ conns' = [conns EXCEPT ![p][u] = {}]
    /\ UNCHANGED <<database, redis, home, task, inbox, restarts>>

\* disconnect() in the route's finally.  The last socket takes the entry of the
\* map with it.
Disconnect(s) ==
    LET p == home[s].process
        u == home[s].user
        rest == conns[p][u] \ {s}
    IN
    /\ sock[s] \in {"joined", "broken"}
    /\ sock' = [sock EXCEPT ![s] = "left"]
    /\ conns' = [conns EXCEPT ![p][u] = rest]
    /\ IF Delivering(p, u)
       THEN task' = [task EXCEPT ![p].ahead = @ \ {s}, ![p].calm = FALSE,
                                 ![p].attached = IF rest = {} THEN FALSE ELSE @]
       ELSE UNCHANGED task
    /\ UNCHANGED <<database, redis, home, inbox, restarts>>

-----------------------------------------------------------------------------
(* The listener task: _listen and _deliver_local *)

\* The next event, for which this process has no socket.
SkipEvent(p) ==
    /\ p \in listening /\ task[p].event = 0 /\ queue[p] # <<>>
    /\ Connections(p, Recipient(Head(queue[p]))) = {}
    /\ queue' = [queue EXCEPT ![p] = Tail(@)]
    /\ UNCHANGED <<database, published, listening, sockets, task, inbox, restarts>>

\* The next event, up to the first pass of the loop.
TakeEvent(p) ==
    /\ p \in listening /\ task[p].event = 0 /\ queue[p] # <<>>
    /\ LET clients == Connections(p, Recipient(Head(queue[p]))) IN
       /\ clients # {}
       /\ task' = [task EXCEPT ![p] =
             [event |-> Head(queue[p]), attached |-> TRUE, start |-> clients,
              ahead |-> clients, dead |-> {}, calm |-> TRUE]]
    /\ queue' = [queue EXCEPT ![p] = Tail(@)]
    /\ UNCHANGED <<database, published, listening, sockets, inbox, restarts>>

\* Fault: the first send that raises ends the loop.
Send_Stops(p, s) ==
    /\ task[p].event # 0 /\ ~SizeChanged(p)
    /\ s \in task[p].ahead
    /\ \/ /\ sock[s] = "joined"
          /\ inbox' = [inbox EXCEPT ![s] = Append(@, task[p].event)]
          /\ task' = [task EXCEPT ![p].ahead = @ \ {s}]
       \/ /\ sock[s] = "broken"
          /\ task' = [task EXCEPT ![p].ahead = {}, ![p].dead = @ \cup {s}]
          /\ UNCHANGED inbox
    /\ UNCHANGED <<database, redis, sockets, restarts>>

\* One pass: send_text to the next socket.  To a peer that is gone it raises or
\* is lost without a sign.
Send(p, s) ==
    /\ task[p].event # 0 /\ ~SizeChanged(p)
    /\ s \in task[p].ahead
    /\ \/ /\ sock[s] = "joined"
          /\ inbox' = [inbox EXCEPT ![s] = Append(@, task[p].event)]
          /\ task' = [task EXCEPT ![p].ahead = @ \ {s}]
       \/ /\ sock[s] = "broken"
          /\ task' = [task EXCEPT ![p].ahead = @ \ {s}]
          /\ UNCHANGED inbox
       \/ /\ sock[s] = "broken"
          /\ task' = [task EXCEPT ![p].ahead = @ \ {s}, ![p].dead = @ \cup {s}]
          /\ UNCHANGED inbox
    /\ UNCHANGED <<database, redis, sockets, restarts>>

\* Fault: an event whose send raised for some socket goes back to the queue.
Finish_Retries(p) ==
    /\ task[p].event # 0 /\ ~SizeChanged(p)
    /\ task[p].ahead = {}
    /\ queue' = IF task[p].dead # {}
                THEN [queue EXCEPT ![p] = Append(@, task[p].event)]
                ELSE queue
    /\ conns' = [conns EXCEPT ![p][Recipient(task[p].event)] = @ \ task[p].dead]
    /\ task' = [task EXCEPT ![p] = Idle]
    /\ UNCHANGED <<database, published, listening, home, sock, inbox, restarts>>

\* The loop is over: the dead sockets leave the set.
Finish(p) ==
    /\ task[p].event # 0 /\ ~SizeChanged(p)
    /\ task[p].ahead = {}
    /\ conns' = IF task[p].attached
                THEN [conns EXCEPT ![p][Recipient(task[p].event)] = @ \ task[p].dead]
                ELSE conns
    /\ task' = [task EXCEPT ![p] = Idle]
    /\ UNCHANGED <<database, redis, home, sock, inbox, restarts>>

\* Fault: the except clause is outside the loop over the messages.
Abandon_Ends(p) ==
    /\ task[p].event # 0 /\ SizeChanged(p)
    /\ task' = [task EXCEPT ![p] = Idle]
    /\ listening' = listening \ {p}
    /\ UNCHANGED <<database, published, queue, sockets, inbox, restarts>>

\* next() raises; _listen logs "failed processing pubsub message" and goes on.
Abandon(p) ==
    /\ task[p].event # 0 /\ SizeChanged(p)
    /\ task' = [task EXCEPT ![p] = Idle]
    /\ UNCHANGED <<database, redis, sockets, inbox, restarts>>

\* The subscriber's connection to Redis fails while the task waits in
\* pubsub.listen(): the exception ends the task, and nothing starts it again.
LoseRedis(p) ==
    /\ p \in listening /\ task[p].event = 0
    /\ listening' = listening \ {p}
    /\ queue' = [queue EXCEPT ![p] = <<>>]
    /\ UNCHANGED <<database, published, sockets, task, inbox, restarts>>

\* The process starts anew; start_listener only warns when Redis is away.
Restart(p) ==
    /\ restarts < MaxRestarts
    /\ restarts' = restarts + 1
    /\ \E up \in BOOLEAN : listening' = IF up THEN listening \cup {p} ELSE listening \ {p}
    /\ queue' = [queue EXCEPT ![p] = <<>>]
    /\ task' = [task EXCEPT ![p] = Idle]
    /\ conns' = [conns EXCEPT ![p] = NobodyConnected]
    /\ sock' = [s \in Socket |->
                  IF home[s].process = p /\ sock[s] # "new" THEN "left" ELSE sock[s]]
    /\ UNCHANGED <<database, published, home, inbox>>

-----------------------------------------------------------------------------
Listener(p) ==
    \/ SkipEvent(p)
    \/ TakeEvent(p)
    \/ \E s \in Socket : Send(p, s)
    \/ Finish(p)
    \/ Abandon(p)

Next ==
    \/ \E u \in User : StoreMessage(u)
    \/ \E m \in pending : Publish(m) \/ PublishFails(m)
    \/ \E s \in Socket, u \in User, p \in Process : Connect(s, u, p)
    \/ \E s \in Socket : Break(s) \/ Disconnect(s)
    \/ \E p \in Process : Listener(p) \/ LoseRedis(p) \/ Restart(p)

Spec == Init /\ [][Next]_vars

\* The event loop of a process runs a task that is ready, and a send to a peer
\* that does not read ends once the server's keep-alive closes the socket.
FairSpec == Spec /\ \A p \in Process : WF_vars(Listener(p))

-----------------------------------------------------------------------------
(* Properties *)

\* A hub holds every socket whose route is waiting and whose peer is there, and
\* no socket whose route has ended, whatever deliveries, failed sends and other
\* sockets of the user did to the set meanwhile.
ConnectionsExact ==
    \A p \in Process, u \in User :
      LET here == {s \in Socket : home[s] = [user |-> u, process |-> p]} IN
      /\ {s \in here : sock[s] = "joined"} \subseteq conns[p][u]
      /\ conns[p][u] \subseteq {s \in here : sock[s] \in {"joined", "broken"}}

\* A client receives only messages addressed to the user it authenticated as,
\* even when its set was dropped and made anew in the middle of a delivery.
PushedToRecipient ==
    \A s \in Socket : \A i \in DOMAIN inbox[s] : Recipient(inbox[s][i]) = home[s].user

\* A client receives events in the order they were published.
ReceivedInOrder ==
    \A s \in Socket : \A i, j \in DOMAIN inbox[s] : i < j => inbox[s][i] <= inbox[s][j]

\* The listener of p ends a delivery that had begun while s was connected, and
\* s is connected still.
EndsFor(p, s) ==
    /\ task[p].event # 0 /\ task'[p].event = 0
    /\ s \in task[p].start /\ sock'[s] = "joined"

Received(s, e) == \E i \in DOMAIN inbox'[s] : inbox'[s][i] = e

\* A delivery during which the user's other sockets stayed put reaches every
\* client, past those whose send raised.
CalmDeliveryReaches ==
    [][\A p \in Process, s \in Socket :
         EndsFor(p, s) /\ task[p].calm => Received(s, task[p].event)]_vars

\* manager.py:12-14: "any process can `publish()` an event, and every process's
\* listener task receives it and forwards to whichever of ITS OWN
\* locally-connected clients match the target user_id."
DeliveryReaches ==
    [][\A p \in Process, s \in Socket :
         EndsFor(p, s) => Received(s, task[p].event)]_vars

\* A listener works off what was published to it, whatever a delivery raises.
QueueDrains == \A p \in Process : queue[p] # <<>> ~> queue[p] = <<>>
=============================================================================
