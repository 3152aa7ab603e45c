SPECIFICATION FairSpec
CONSTANTS
    Node = {n1, n2}
    NoNode = NoNode
    ConnectionId = {c1}
    Payload = {p1}
    NonceSpace = 6
    MaxNonce = 2
    MaxDuplicates = 1
    MaxEvents = 0
PROPERTIES
    Delivery
    DialEnds
CHECK_DEADLOCK FALSE
