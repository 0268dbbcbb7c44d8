SPECIFICATION ExchangeSpec
CONSTANTS
    streamChunkSize = 2
    Ids = {"1", "2"}
    NoId = "none"
    Tools = {"tool"}
    StructuredTools = {"tool"}
    NoTool = "nil"
    RequestBodies <- MCRequestBodies
    UpstreamBodies <- MCUpstreamBodies
    BodyParts = 3
    EncodedSizes = {0, 3}
    HeaderLists <- MCHeaderLists
    Statuses <- MCStatuses
    Payloads <- MCPayloads
    MaxPieces = 3
    MaxCycles = 1
    ClientRequests <- MCClientRequests
    ApiReplies <- MCApiReplies
CHECK_DEADLOCK FALSE
INVARIANTS
    ViolationsAreKnown
    ApiGetsWholeCall
    ClientGetsItsAnswer
PROPERTIES
    KeepsPromise
    ProcessReturns
