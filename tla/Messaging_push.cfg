CONSTANTS
    User = {u1, u2}
    Process = {p1}
    MaxSockets = 3
    MaxMessages = 2
    MaxRestarts = 1
SPECIFICATION FairSpec

INVARIANTS TypeOK ConnectionsExact PushedToRecipient ReceivedInOrder
PROPERTIES CalmDeliveryReaches QueueDrains

\* The messages, sockets and restarts are bounded: the system may come to rest.
CHECK_DEADLOCK FALSE
