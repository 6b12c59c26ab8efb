SPECIFICATION Spec
CONSTANTS
    b1 = b1
    b2 = b2
    Slots <- TwoSlots
    Tmp = Tmp
    Jsons = {j}
    Rescues = {m}
    Cards = {{j}, {m, b1}}
    Data = {d}
    Plain = Plain
    Absent = Absent
    Torn = Torn
    Zeros = Zeros
    Console = {}
    MaxJobs = 1
    MaxFaults = 1
INVARIANTS BackupsComplete ExportTold WipesShown CardReleased PcOwnsAlone
PROPERTIES BackupsKept
