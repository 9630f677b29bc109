CONSTANTS
    fra = fra
    ist = ist
    Endpoints <- MCLone
    NoEndpoint = NoEndpoint
    Fleet <- MCLoneFleet
    Cdn <- MCNoCdn
    Envelopes = {e1}
    NoEnvelope = NoEnvelope
    MAX_ATTEMPTS = 2
    Quanta <- MCQuanta
    MaxTokens = 2
    MaxPending = 1
SPECIFICATION Spec
INVARIANTS
    ActivatedIsStored
PROPERTIES
    BusySettles
    RunsEnd
    StoredActivationRestored
