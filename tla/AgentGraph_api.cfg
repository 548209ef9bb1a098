SPECIFICATION FairSpec
CONSTANTS
    RetryCap = 2
    RecursionLimits <- ApiLimit
    Threshold = 80
    Scores <- MCScores
    sympy = sympy
    wikipedia = wikipedia
    plotter = plotter
    ToolNames <- MCToolNames
    Registry <- MCRegistry
INVARIANT GiveUpSendsWhatWeHave
