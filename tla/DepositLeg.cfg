SPECIFICATION Spec
CONSTANTS
    i1 = i1
    i2 = i2
    d1 = d1
    d2 = d2
    e1 = e1
    q1 = q1
    Unset = Unset
    Intents = {i1, i2}
    Executions = {e1}
    Quotes = {q1}
    Deposits = {d1, d2}
    Settlements = {s1}
    Transfers = {}
    Due = 2
    Credited <- RightAndShort
    ChainOf <- EthAndBsc
    Terms <- OneOnChainOneFiat
    ExecutionOf <- SameExecution
    Dated = {i1}
    Screenings <- DeclineOrOverlook
    Window = 2
    Ttl = 1
    Horizon = 2
    Refusals = {"unauthenticated"}
    Faults = {"unavailable"}
INVARIANTS
    TypeOK
    OutcomesAreTrue
    ShownAddressIsHeld
PROPERTIES
    KeepsSalePromise
    EverySaleEnds
CHECK_DEADLOCK FALSE
