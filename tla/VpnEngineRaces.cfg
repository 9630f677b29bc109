CONSTANTS
    fra = fra
    ist = ist
    Endpoints <- MCEndpoints
    NoEndpoint = NoEndpoint
    Fleet <- MCFleet
    Cdn <- MCCdn
    maxAttempts = 2
    MaxCalls = 5
    MaxCores = 2
    Patient = FALSE
    Restarts = FALSE
SPECIFICATION Spec
INVARIANTS
    BusyIsDriven
PROPERTIES
    CallsReturn
