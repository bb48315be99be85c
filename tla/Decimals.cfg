SPECIFICATION Spec
CONSTANTS
    IntMax = 127
    MaxExponent = 2
    Digits = {0, 1, 2, 8}
    MaxWhole = 3
    MaxFraction = 3
    MaxMagnitude = 1300
    MaxScale = 3
    TokenDecimals = 1
    Readers = {"go", "java", "node", "python", "units"}
INVARIANTS
    ShownIsTheAmount
    ReadIsTheAmount
    UnitsAreExact
CHECK_DEADLOCK FALSE
