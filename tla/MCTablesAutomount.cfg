CONSTANTS
    NULL = NULL
    Word = 64
    DELAY_MAX = 60
    COUNT_MAX = 100
    PID = {1, 2, 3, 5}
    Uid = {"root", "alice"}
    Slot = {1, 2, 3}
    MaxThreads = 2
    ProcHosts <- MCProcHosts
    ProcsAtStart <- MCProcsAtStart
    UtmpAtStart <- MCUtmpAtStart
    MaxProcEvents = 2
    ProcessesOptions <- MCProcessesOptions
    Place = {1, 2, 3, 4}
    TcpTables <- MCTcpTables
    TcpMoves = {0, 1, 6}
    AnyState = {0, 1}
    MaxTcpEvents = 2
    TcpOptions <- MCTcpOptions
    Mount <- MCMount
    MountOf <- MCMountOf
    Dir <- MCDir
    Automount <- MCAutomount
    MountHosts <- MCMountHosts
    MaxMountEvents = 2
    MountsOptions <- MCMountsOptions
    Processor = {0, 1, 2, 3}
    Boards <- MCBoards
    UnsignedInt = 32
    MaxPlugs = 2
    TopologyOptions <- MCTopologyOptions
SPECIFICATION Spec
CHECK_DEADLOCK FALSE
INVARIANTS
    AutomountedIsChecked
