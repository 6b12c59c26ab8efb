CONSTANTS
    NoBackup = NoBackup
    MaxCuts = 3
    MaxFaults = 2
SPECIFICATION FairSpec
INVARIANT TypeOK
INVARIANT SelectionKept
PROPERTY NoSleepInSwitch
PROPERTY BadImageRecovers
