SPECIFICATION FairSpec
CONSTANTS
    calc = calc
    sym = sym
    wiki1 = wiki1
    wiki2 = wiki2
    plot = plot
    run1 = run1
    run2 = run2
    NoCall = NoCall
    Calls <- MCCalls
    ToolOf <- MCToolOf
    RunOf <- MCRunOf
INVARIANTS
    TypeOK
    OnlyAbandonedChildrenRunOn
    ValuesComeFromChildren
PROPERTIES
    EndsUnlessHeld
    ImplementsToolCalls
