\* Every day from 1970 to 2100, and texts of up to eight characters.
CONSTANTS
    LastYear = 2100
    MaxLen = 8
SPECIFICATION Spec
INVARIANT DatesAgree RtcKeepsDate DecodesBits
CHECK_DEADLOCK FALSE
