SPECIFICATION FairSpec
CONSTANTS
    Starters = {"node", "go", "java", "python"}
    Calls = {c1, c2}
    MaxSignals = 2
    Written <- AllThatMatters
INVARIANTS
    TypeOK
    HandledSignalGivesGrace
    DrainedExitIsClean
    MendedStaysMended
PROPERTY
    SignalEndsTheProcess
CHECK_DEADLOCK FALSE
