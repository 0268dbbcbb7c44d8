SPECIFICATION Spec
CONSTANTS
    streamChunkSize = 2
    Ids = {"1", "2"}
    NoId = "none"
    Tools = {"plain", "schema"}
    StructuredTools = {"schema"}
    NoTool = "nil"
    RequestBodies <- MCRequestBodies
    UpstreamBodies <- MCUpstreamBodies
    BodyParts = 2
    EncodedSizes = {0, 3}
    HeaderLists <- MCHeaderLists
    Statuses <- WithRedirect
    Payloads <- MCPayloads
    MaxPieces = 2
    MaxCycles = 1
CHECK_DEADLOCK FALSE
INVARIANT StructuredOnlyFor2xx
