SPECIFICATION HandlingSpec
CONSTANTS
    streamChunkSize = 2
    Ids = {"1"}
    NoId = "none"
    Tools = {"tool"}
    StructuredTools = {"tool"}
    NoTool = "nil"
    RequestBodies <- MCRequestBodies
    UpstreamBodies = {}
    BodyParts = 1
    EncodedSizes = {1}
    CapturedHeaders <- MCCapturedHeaders
CHECK_DEADLOCK FALSE
INVARIANTS
    NeverInternalError
    ErasNeverMix
    ErrorStatusFollowsEra
