SPECIFICATION Spec
CONSTANTS
    IntMax = 127
    MaxExponent = 2
    Digits = {0, 1, 2, 8}
    MaxWhole = 1
    MaxFraction = 2
    MaxMagnitude = 0
    MaxScale = 3
    TokenDecimals = 1
    Readers = {"go"}
INVARIANT
    GoShowsAPlainDecimal
CHECK_DEADLOCK FALSE
