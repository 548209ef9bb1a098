SPECIFICATION FairSpec
CONSTANTS
    solve1 = solve1
    solve2 = solve2
    ocr = ocr
    p1 = p1
    p2 = p2
    NoJob = NoJob
    JobIds <- MCJobIds
    TaskOf <- MCTaskOf
    Slots <- MCSlots
    MaxFaults = 2
INVARIANTS
    TypeOK
    OneRunAtATime
PROPERTIES
    ReadyIsFinal
    LostOnlyByFaults
    FailsOnlyWhenTried
    ImplementsJobContract
    ReadyOrOrphaned
