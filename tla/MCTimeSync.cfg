\* The manual tab and the two radio workers, two synchronisations, one fault.
CONSTANTS
    Sources <- Radios
    MaxJobs = 2
    MaxFaults = 1
SPECIFICATION Spec
INVARIANT BleTold ClockKept HistoryKept
PROPERTY SyncEnds
CHECK_DEADLOCK FALSE
