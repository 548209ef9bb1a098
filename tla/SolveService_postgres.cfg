SPECIFICATION Spec
CONSTANTS
    r1 = r1
    r2 = r2
    r3 = r3
    s1 = s1
    integral = integral
    Integral = Integral
    derivative = derivative
    NoSession = NoSession
    Requests = {r1, r2}
    Queries <- MCQueries
    SessionIds <- MCSessionIds
    Normal <- MCNormal
    Bodies <- MCBodies
    MalformedIds <- MCMalformedIds
    MaxMessages = 20
    MaxInFlight = 1
    Faults <- NoFaults
    EnforceForeignKeys = TRUE
    MappersConfigured = TRUE
INVARIANT AnswersAreSaved
