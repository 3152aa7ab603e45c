SPECIFICATION Spec
CONSTANTS
    SubstreamId = {s1}
    MaxData = 1
    MaxHoles = 1
INVARIANT DroppedSubstreamsAreFine
CHECK_DEADLOCK FALSE
