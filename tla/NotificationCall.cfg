SPECIFICATION Spec
CONSTANTS
    streamChunkSize = 2
    Ids = {"1", "2"}
    NoId = "none"
    Tools = {"plain", "schema"}
    StructuredTools = {"schema"}
    NoTool = "nil"
    RequestBodies <- NotificationOnly
    UpstreamBodies <- MCUpstreamBodies
    BodyParts = 2
    EncodedSizes = {0, 3}
    HeaderLists <- NoHeaderLists
    Statuses <- MCStatuses
    Payloads <- MCPayloads
    MaxPieces = 2
    MaxCycles = 2
CHECK_DEADLOCK FALSE
INVARIANT ForwardedIsOwned
