CONSTANTS
    plain = plain
    coded = coded
    broken = broken
    odd = odd
    Names <- MCNames
    Profiles <- MCProfiles
    Data <- MCData
    BadKeys = {broken}
    BadParams = {odd}
    Codes <- MCCodes
    Inputs <- MCInputs
    Targets <- MCTargets
    Backups <- MCBackups
    Samples <- MCSamples
    MaxAccounts = 2
    IdMod = 65536
    MaxId = 3
    MaxFailed = 1
SPECIFICATION Spec
INVARIANT TypeOK
INVARIANT KeysUnique
INVARIANT RamMatchesStore
INVARIANT ActiveUsed
INVARIANT ProfileKept
INVARIANT AllProfilesReached
PROPERTY IdsKept
INVARIANT ImportPromised
INVARIANT SummaryTells
