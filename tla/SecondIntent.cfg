SPECIFICATION Spec
CONSTANTS
    s1 = s1
    s2 = s2
    Sales <- OneSale
    LangOf <- JavaOnly
    Keys = {k1, k2}
    Attempts = {a1, a2}
    Refusals = {"unauthenticated"}
    Faults = {"unavailable"}
    None = None
INVARIANT
    OneIntentPerSale
CHECK_DEADLOCK FALSE
