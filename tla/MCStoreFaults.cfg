CONSTANTS
    p1 = p1
    p2 = p2
    r0 = r0
    r1 = r1
    r2 = r2
    NoPin = NoPin
    Junk = Junk
    Empty = r0
    Pins <- MCPins
    Records <- MCRecords
    Origins = {"blank"}
    EraseRaces = FALSE
    Misreads = FALSE
    MaxWrites = 8
    MaxChecks = 1
    MaxCuts = 1
    MaxFaults = 1
SPECIFICATION Spec
SYMMETRY MCSymmetry
INVARIANT DurableStore
PROPERTY KeepsPromise
