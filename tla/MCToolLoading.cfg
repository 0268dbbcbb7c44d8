SPECIFICATION LoadSpec
CONSTANTS
    Deployments <- MCDeployments
    MaxStarts = 2
CHECK_DEADLOCK FALSE
INVARIANTS
    RegistriesKept
    NamesFixedByDocuments
    FirstFileWins
    StructuredAsListed
    RestartSameIfUnambiguous
    OutputSchemaFromSuccess
