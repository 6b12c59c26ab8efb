SPECIFICATION Spec
CONSTANTS
    b1 = b1
    b2 = b2
    Slots <- TwoSlots
    Tmp = Tmp
    Jsons = {j}
    Rescues = {m}
    Cards = {{j}, {m, b1}}
    Data = {d}
    Plain = Plain
    Absent = Absent
    Torn = Torn
    Zeros = Zeros
    Console = {"con"}
    MaxJobs = 2
    MaxFaults = 0
INVARIANT NeverTruncated
