CONSTANTS
    fra = fra
    ist = ist
    Endpoints <- MCEndpoints
    NoEndpoint = NoEndpoint
    Fleet <- MCFleet
    Cdn <- MCCdn
    Envelopes = {e1}
    NoEnvelope = NoEnvelope
    MAX_ATTEMPTS = 5
    Quanta <- MCQuanta
    MaxTokens = 3
    MaxPending = 0
SPECIFICATION Spec
INVARIANTS
    TypeOK
    StateIsOfTheLiveRun
    ConnectedIsSettled
    BusyIsDriven
PROPERTIES
    ImplementsSession
    RequestsAreTimely
