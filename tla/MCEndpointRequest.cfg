SPECIFICATION RequestSpec
CONSTANTS
    Operations <- MCOperations
    Calls <- MCCalls
CHECK_DEADLOCK FALSE
INVARIANTS
    VerdictFixed
    PathIsSubstitution
    QueryAndHeadersComplete
    NoPlaceholderLeft
    RequiredAsListed
