SPECIFICATION Spec
CONSTANTS
    r1 = r1
    r2 = r2
    r3 = r3
    s1 = s1
    integral = integral
    Integral = Integral
    derivative = derivative
    NoSession = NoSession
    Requests = {r1, r2}
    Queries <- MCQueries
    SessionIds <- MCSessionIds
    Normal <- MCNormal
    Bodies <- MCBodiesMalformed
    MalformedIds <- MCMalformedIds
    MaxMessages = 2
    MaxInFlight = 2
    Faults <- AllFaults
    EnforceForeignKeys = FALSE
    MappersConfigured = TRUE
INVARIANTS
    HistoriesAreExchanges
    TypeOK
    SavedCompletelyOrNotAtAll
PROPERTIES
    EveryRequestEnds
    ImplementsContract
