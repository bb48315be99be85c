SPECIFICATION ReceiptSpec
CONSTANTS
    i1 = i1
    t2 = t2
    Unset = Unset
    Intents = {i1}
    Executions = {e1}
    Quotes = {}
    Deposits = {}
    Settlements = {}
    Transfers = {t1, t2}
    Refusals = {"unauthenticated"}
    Faults = {"unavailable"}
    Lang = "python"
    IntentOf <- OneIntent
    Currency = "COP"
    Moved <- SameAmount
    Credited <- OneFee
    Readings = {3, 4}
INVARIANTS
    ReceiptTypeOK
    NoTransferForARejectedExecution
    RejectedReportIsFinal
    AcceptedReportIsRecorded
    ReceiptIsTrue
PROPERTY
    EveryTransferIsSettled
