SPECIFICATION Spec
CONSTANTS
    Node = {n1, n2}
    NoNode = NoNode
    ConnectionId = {c1}
    Payload = {p1, p2}
    NonceSpace = 6
    MaxNonce = 2
    MaxDuplicates = 2
    MaxEvents = 1
SYMMETRY Symmetry
INVARIANTS
    TypeOK
    IndInv
    InOrder
    NoAlarms
    Agreement
    NothingPoppableIsLeft
PROPERTIES
    SetUpOnce
    ImplementsOrderedLink
CHECK_DEADLOCK FALSE
