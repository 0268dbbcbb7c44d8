SPECIFICATION HostSpec
CONSTANTS
    AllowedHosts <- MCAllowedHosts
    HeaderMaps <- MCHeaderMaps
CHECK_DEADLOCK FALSE
INVARIANTS
    VerdictIsPolicy
    FailsClosed
