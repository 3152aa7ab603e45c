SPECIFICATION Spec
CONSTANTS
    Node = {n1, n2}
    NoNode = NoNode
    ConnectionId = {c1}
    Payload = {p1}
    NonceSpace = 6
    MaxNonce = 2
    MaxDuplicates = 0
    MaxEvents = 0
INVARIANT PendingDialsArePending
CHECK_DEADLOCK FALSE
