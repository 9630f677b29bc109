CONSTANTS
    fra = fra
    ist = ist
    Endpoints <- MCEndpoints
    NoEndpoint = NoEndpoint
    Fleet <- MCFleet
    Cdn <- MCCdn
    maxAttempts = 5
    MaxCalls = 4
    MaxCores = 2
    Patient = TRUE
    Restarts = TRUE
SPECIFICATION Spec
INVARIANTS
    SessionMatchesState
    IdleHasNoChild
    RetriesAreBounded
PROPERTIES
    ImplementsSession
