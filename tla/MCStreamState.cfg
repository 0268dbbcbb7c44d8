SPECIFICATION Spec
CONSTANTS
    streamChunkSize = 2
    Ids = {"1", "2"}
    NoId = "none"
    Tools = {"plain", "schema"}
    StructuredTools = {"schema"}
    NoTool = "nil"
    RequestBodies <- MCRequestBodies
    UpstreamBodies <- MCUpstreamBodies
    BodyParts = 2
    EncodedSizes = {0, 3}
    HeaderLists <- MCHeaderLists
    Statuses <- MCStatuses
    Payloads <- MCPayloads
    MaxPieces = 2
    MaxCycles = 2
CHECK_DEADLOCK FALSE
INVARIANTS
    TypeOK
    BufferHoldsThisBody
    ContextIsThisCycles
    RepliesInOrder
    ForwardedOnlyIfAdmissible
    McpHeadersStripped
    AnswersThisCall
    StructuredOnlyIfPromised
    LengthAnnounced
