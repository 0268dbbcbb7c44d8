SPECIFICATION SessionSpec
CONSTANTS
    streamChunkSize = 2
    Ids = {"1"}
    NoId = "none"
    Tools = {"tool"}
    StructuredTools = {"tool"}
    NoTool = "nil"
    RequestBodies <- MCRequestBodies
    UpstreamBodies = {}
    BodyParts = 1
    EncodedSizes = {1}
    Clients <- MCClients
    MaxLosses = 2
CHECK_DEADLOCK FALSE
INVARIANTS
    AgreementHolds
PROPERTIES
    SessionSettles
