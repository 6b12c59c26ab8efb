CONSTANTS
    p1 = p1
    p2 = p2
    a1 = a1
    a2 = a2
    NoPin = NoPin
    Pins <- MCPins
    Accounts <- MCAccounts
    Records <- MCRecords
    Empty <- MCEmpty
    MaxCopies = 3
SPECIFICATION Spec
PROPERTY ChangeKeepsRecords
