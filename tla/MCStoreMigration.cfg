CONSTANTS
    p1 = p1
    p2 = p2
    r0 = r0
    r1 = r1
    r2 = r2
    NoPin = NoPin
    Junk = Junk
    Empty = r0
    Pins <- MCPins
    Records <- MCRecords
    Origins = {"blank", "format1"}
    EraseRaces = FALSE
    Misreads = FALSE
    MaxWrites = 8
    MaxChecks = 1
    MaxCuts = 1
    MaxFaults = 0
SPECIFICATION Spec
SYMMETRY MCSymmetry
INVARIANT DurableStore
INVARIANT NewPinOnFormat2
PROPERTY UnlockReturnsPromise
