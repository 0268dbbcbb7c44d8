SPECIFICATION LifecycleSpec
CONSTANTS
    Instances = {p1, p2, p3}
    NoSocket = NoSocket
    MaxStreams = 2
CHECK_DEADLOCK FALSE
INVARIANTS
    LifecycleTypeOK
    ServesUntilCancelled
    ListenGetsSocket
PROPERTIES
    StreamsFinish
    CancelEnds
