CONSTANTS
    NULL = NULL
    Node = {"file", "link", "sub", "big", "locked", "lost", "dot", "dotfile", "socket", "other"}
    Dirs <- MCDirs
    Entry <- MCTree
    AtStart <- MCAtStart
    Accesses <- MCAccesses
    MaxEvents = 2
    OptionSets <- MCSizes
SPECIFICATION Spec
CHECK_DEADLOCK FALSE
INVARIANTS
    AtLeastThisBig
