SPECIFICATION FairSpec
CONSTANTS
    RetryCap = 2
    RecursionLimits <- BothLimits
    Threshold = 80
    Scores <- MCScores
    sympy = sympy
    wikipedia = wikipedia
    plotter = plotter
    ToolNames <- MCToolNames
    Registry <- MCRegistry
INVARIANTS
    TypeOK
    ConfidentOrExhausted
    OneAttempt
    ScoreIsOfTheAnswer
    RaisesOnlyWithoutRoom
PROPERTIES
    AnswersUnlessHeld
    ImplementsContract
