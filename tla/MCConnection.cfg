SPECIFICATION FairSpec
CONSTANTS
    SubstreamId = {s1}
    MaxData = 2
    MaxHoles = 1
INVARIANTS
    TypeOK
    IndInv
    NoAlarms
    CloseIsLast
    ReadInOrder
    ChannelsUntilRemoteClose
PROPERTIES
    OpenIsAnswered
    CloseArrives
CHECK_DEADLOCK FALSE
