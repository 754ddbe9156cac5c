CONSTANTS
    NULL = NULL
    UintMod = 64
    Mega = 16
    LastIndex = 4
    NameOf <- MCNameOf
    LinkOf <- MCLinkOf
    AtBoot = {1, 2}
    Matches <- MCMatches
    Deltas <- MCDeltas
    MaxEvents = 3
    OptionSets <- MCOptionSets
    DELAY_DEFAULT = 1
    DELAY_MAX = 60
SPECIFICATION Spec
CHECK_DEADLOCK FALSE
INVARIANTS
    JudgedWasSampledTwice
