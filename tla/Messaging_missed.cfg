CONSTANTS
    User = {u1}
    Process = {p1}
    MaxSockets = 2
    MaxMessages = 1
    MaxRestarts = 0
SPECIFICATION FairSpec

PROPERTIES DeliveryReaches

CHECK_DEADLOCK FALSE
