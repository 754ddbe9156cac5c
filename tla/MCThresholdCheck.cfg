CONSTANTS
    NULL = NULL
    Strings <- MCStrings
    Values <- MCValues
    Items = 2
    Percentages = TRUE
    Word = 16
    DELAY_MAX = 3
    COUNT_MAX = 3
SPECIFICATION ThresholdsSpec
CHECK_DEADLOCK FALSE
INVARIANTS
    StatusIsDeserved
    RefusedIffIllFormed
    PerfdataLimitIsBoundary
