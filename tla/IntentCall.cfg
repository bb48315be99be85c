SPECIFICATION FairSpec
CONSTANTS
    s1 = s1
    s2 = s2
    Sales <- TwoSales
    LangOf <- GoAndPython
    Keys = {k1, k2}
    Attempts = {a1, a2}
    Refusals = {"unauthenticated"}
    Faults = {"unavailable"}
    None = None
PROPERTY
    KeepsPromise
    EveryCallIsResolved
INVARIANTS
    TypeOK
    AcceptedIsOnFile
    DeclinedStaysClosed
    SecondIntentNeedsDoubt
CHECK_DEADLOCK FALSE
