CONSTANTS
    p1 = p1
    p2 = p2
    r0 = r0
    r1 = r1
    r2 = r2
    NoPin = NoPin
    Junk = Junk
    Empty = r0
    Pins <- MCPins
    Records = {r0}
    Origins = {"blank", "format1"}
    EraseRaces = TRUE
    Misreads = TRUE
    MaxWrites = 4
    MaxChecks = 7
    MaxCuts = 1
    MaxFaults = 1
SPECIFICATION Spec
SYMMETRY MCSymmetry
INVARIANT FailuresCounted
PROPERTY BackoffHonoured
INVARIANT TypeOK
INVARIANT KeyOpensCurrent
