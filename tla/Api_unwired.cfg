SPECIFICATION Spec
CONSTANTS
    w1 = w1
    w2 = w2
    r1 = r1
    r2 = r2
    r3 = r3
    r4 = r4
    ann = ann
    bob = bob
    an = an
    bn = bn
    secret = secret
    other = other
    Workers = {w1, w2}
    Requests = {r1, r2, r3, r4}
    Emails = {ann, bob}
    Usernames = {an, bn}
    Passwords = {secret, other}
    Scenarios <- MCScenarios
    MaxFaults = 0
    LimiterWired = FALSE
    ROUTE_LIMITS <- MCLimits
    PoolSize = 2
    MappersConfigured = TRUE
    Threads = 2
    OCR_CONFIDENCE_THRESHOLD = 85
INVARIANT
    SlidingWindow
