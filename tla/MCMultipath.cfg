CONSTANTS
    NULL = NULL
    LenSize = 3
    QueryLen = 3
    BufSize = 4
    SockBuf = 3
    Replies <- MCReplies
    MaxIntr = 2
SPECIFICATION FairSpec
CHECK_DEADLOCK FALSE
INVARIANTS
    VerdictFromWholeReply
    UnknownHasAReason
    BufferNotOverrun
PROPERTIES
    Termination
    Implements
