SPECIFICATION Spec
CONSTANTS
    Validity = 5
    Refresh = 1
    Lag = 0
    Delay = 1
    Losses = 2
    Restarts = 1
    Horizon = 9
INVARIANTS
    TypeOK
    ExposureBounded
    BookStaysCovered
    NothingOutlivesAStop
CHECK_DEADLOCK FALSE
