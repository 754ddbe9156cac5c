CONSTANTS
    NULL = NULL
    Key <- MCKey
    HASHSIZE = 2
    Hash <- MCHash
    Containers <- MCContainers
    ImageOf <- MCImageOf
    LabelsOf <- SomeLabels
    Usages = {1, 3, 4, 7}
    AtStart <- MCAtStart
    MaxEvents = 3
    Kilo = 2
    OptionSets <- MCOptionSets
SPECIFICATION FairSpec
CHECK_DEADLOCK FALSE
INVARIANTS
    TableIsBag
    CountIsOfTheList
    MemoryBracketed
PROPERTIES
    EndsForAReason
