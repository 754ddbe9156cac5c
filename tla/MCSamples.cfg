CONSTANTS
    NULL = NULL
    Stats <- MCStats
    StatsAtBoot <- MCStatsAtBoot
    Growths <- MCGrowths
    CPU <- MCCPU
    IrqAtBoot <- MCIrqAtBoot
    IrqGrowths <- MCIrqGrowths
    NineDigits = 10
    Junk = {0, 2}
    Layouts <- MCLayouts
    Hotplugs = 1
    MaxGrowths = 3
    DELAY_MAX = 60
    COUNT_MAX = 100
    RatesOptions <- MCRatesOptions
    Word = 64
    PoolsAtBoot <- MCPoolsAtBoot
    Hosts <- MCHosts
    Uninitialized = {0, 40}
    MaxMoves = 2
    MemoryOptions <- MCMemoryOptions
    Port = {"host0", "host1", "host2"}
    Fabrics <- MCFabrics
    MaxPortEvents = 3
    PortsOptions <- MCPortsOptions
    IntWord = 32
    Zone = {1, 2, 3}
    SensorHosts <- MCSensorHosts
    Frequencies = {0, 6, 11}
    MaxFreqChanges = 2
    SensorsOptions <- MCSensorsOptions
SPECIFICATION FairSpec
CHECK_DEADLOCK FALSE
INVARIANTS
    CpuRatesExact
    PagingExact
    FullWithinSome
    MemoryNearTruth
    OnlineBracketed
    FramesOfTheRun
    ReadingsJudged
PROPERTIES
    ImplementsCounterRate
    EndsForAReason
