CONSTANTS
    NULL = NULL
    JiffMod = 64
    HalfInt = 16
    LastLine = 3
    NConf = 2
    Boot <- MCBoot
    Growths <- MCGrowths
    MaxHotplugs = 2
    CpuHosts <- MCCpuHosts
    CommandLines <- MCCommandLines
    DELAY_MAX = 60
    COUNT_MAX = 100
SPECIFICATION FairSpec
CHECK_DEADLOCK FALSE
INVARIANTS
    IdleAccounted
    SharesWithinWhole
    VerdictIsTrue
PROPERTIES
    EndsForAReason
