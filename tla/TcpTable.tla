------------------------------ MODULE TcpTable ------------------------------
(***************************************************************************)
(* check_tcpcount over lib/tcpinfo.c: the sockets of /proc/net/tcp and of  *)
(* /proc/net/tcp6 are counted by state, line by line, while connections    *)
(* come, change and go.                                                    *)
(*                                                                         *)
(* The kernel lists the sockets in the order of their places in its hash   *)
(* table, with one socket a place: a connection keeps its place until it   *)
(* is gone.                                                                *)
(***************************************************************************)
EXTENDS Plugin, Sequences, FiniteSets, FiniteSetsExt, Functions

CONSTANTS
    Place,          \* the places of sockets, 1 .. n
    TcpTables,      \* the tables there may be at the start
    TcpMoves,       \* the states a connection may take while it is watched
    AnyState,       \* what an unsigned int that is not initialised may hold
    MaxTcpEvents,   \* bound: the changes of connections
    TcpOptions      \* the command lines

Files == {"tcp", "tcp6"}
TCP_ESTABLISHED == 1
States == 1 .. 11               \* TCP_ESTABLISHED to TCP_CLOSING

\* What is at a place: a socket, nothing, or what sscanf() cannot read.
Vacant == 0
Bogus == 99
Table == [Place -> States \cup {Vacant, Bogus}]

TcpCommandLine ==
    [program : {"tcpcount"}, flags : SUBSET Files, ranges_ok : BOOLEAN, my_threshold : Limits]

ASSUME TcpAssumption ==
    /\ Place \subseteq Nat \ {0} /\ IsFiniteSet(Place) /\ AnyState \subseteq Nat
    /\ TcpMoves \subseteq States \cup {Vacant} /\ MaxTcpEvents \in Nat
    /\ TcpTables \subseteq [Files -> Table \cup {NULL}] /\ TcpTables # {} /\ NULL \notin Table
    /\ TcpOptions \subseteq TcpCommandLine

VARIABLES
    tofiles,        \* the tables still to be read
    place, lnr,     \* up to where the open one is read, the lines read from it
    state,          \* the state on the last line that could be read
    data,           \* struct proc_tcptable_data: the counters by state
    tcp,            \* the tables of the kernel; NULL: there is no such file
    tcpSeen,        \* ghost: the established connections, all the time and some time
    tcpEvents

reading == <<tofiles, place, lnr, state, data>>
sockets == <<tcp, tcpSeen, tcpEvents>>
tcpVars == <<reading, sockets>>

TcpPrograms == {"tcpcount"}

\* TCPv4 is the default.
tcp_flags == IF opt.flags = {} THEN {"tcp"} ELSE opt.flags

Established(tables) ==
    IF ~Runs(TcpPrograms) THEN {}
    ELSE {c \in tcp_flags \X Place :
            tables[c[1]] # NULL /\ tables[c[1]][c[2]] = TCP_ESTABLISHED}

TcpInit ==
    /\ tofiles = <<>> /\ place = -1 /\ lnr = 0 /\ state = 0 /\ data = [s \in States |-> 0]
    /\ tcp \in Either(TcpPrograms, TcpTables)
    /\ tcpSeen = Since(Established(tcp)) /\ tcpEvents = 0

\* A connection is made, changes its state or is gone.
TcpChange ==
    /\ pc \in {"tables", "lines"} /\ tcpEvents < MaxTcpEvents /\ tcpEvents' = tcpEvents + 1
    /\ \E f \in {g \in Files : tcp[g] # NULL}, p \in Place, s \in TcpMoves :
         /\ tcp[f][p] # Bogus /\ tcp' = [tcp EXCEPT ![f][p] = s]
    /\ tcpSeen' = Meeting(tcpSeen, Established(tcp'))
    /\ UNCHANGED <<main, reading>>

-----------------------------------------------------------------------------
TcpParseOptions ==
    /\ pc = "options" /\ Runs(TcpPrograms) /\ UNCHANGED <<place, lnr, state, data, sockets>>
    /\ tofiles' = CASE tcp_flags = Files -> <<"tcp", "tcp6">>
                    [] tcp_flags = {"tcp6"} -> <<"tcp6">>
                    [] OTHER -> <<"tcp">>
    /\ IF opt.ranges_ok THEN Goto("tables") ELSE GiveUp

\* A mutant: the lines are numbered over both files.
OpenTableNumbered ==
    /\ pc = "tables" /\ tofiles # <<>> /\ UNCHANGED <<tofiles, lnr, data, sockets>>
    /\ IF tcp[Head(tofiles)] = NULL THEN GiveUp /\ UNCHANGED <<place, state>>
       ELSE Goto("lines") /\ place' = -1 /\ state' \in AnyState

\* procparser_tcp opens the next file; its variable state is not initialised.
OpenTable ==
    /\ pc = "tables" /\ tofiles # <<>> /\ UNCHANGED <<tofiles, data, sockets>>
    /\ IF tcp[Head(tofiles)] = NULL THEN GiveUp /\ UNCHANGED <<place, lnr, state>>
       ELSE Goto("lines") /\ place' = -1 /\ lnr' = 0 /\ state' \in AnyState

\* The places of the lines still to be read; the heading line has place 0.
LinesAfter(p) ==
    {q \in Place \cup {0} : q > p /\ (q # 0 => tcp[Head(tofiles)][q] # Vacant)}

\* procparser_tcp: the next line.  A line that cannot be read is warned about, and
\* counted under the state of the line before.
procparser_tcp ==
    /\ pc = "lines" /\ LinesAfter(place) # {} /\ UNCHANGED <<main, tofiles, sockets>>
    /\ place' = Min(LinesAfter(place)) /\ lnr' = lnr + 1
    /\ IF lnr' = 1 THEN UNCHANGED <<state, data>>
       ELSE /\ state' = IF place' = 0 \/ tcp[Head(tofiles)][place'] = Bogus THEN state
                        ELSE tcp[Head(tofiles)][place']
            /\ data' = IF state' \in States THEN [data EXCEPT ![state'] = @ + 1] ELSE data

EndOfTable ==
    /\ pc = "lines" /\ LinesAfter(place) = {} /\ Goto("tables")
    /\ tofiles' = Tail(tofiles) /\ UNCHANGED <<place, lnr, state, data, sockets>>

JudgeTcp ==
    /\ pc = "tables" /\ tofiles = <<>>
    /\ Exit(get_status(data[TCP_ESTABLISHED], opt.my_threshold)) /\ UNCHANGED tcpVars

TcpPlugin == TcpParseOptions \/ OpenTable \/ procparser_tcp \/ EndOfTable \/ JudgeTcp

TcpSpec == /\ opt \in TcpOptions /\ PluginInit /\ TcpInit
           /\ [][TcpPlugin \/ TcpChange]_<<main, tcpVars>>

-----------------------------------------------------------------------------
TcpTypeOK ==
    /\ tofiles \in Seq(Files) /\ place \in Place \cup {-1, 0} /\ lnr \in Nat
    /\ state \in Nat /\ data \in [States -> Nat]
    /\ tcp \in [Files -> Table \cup {NULL}] /\ tcpEvents \in 0 .. MaxTcpEvents
    /\ tcpSeen.steady \subseteq tcpSeen.ever /\ tcpSeen.ever \subseteq Files \X Place

BogusLines == {c \in tcp_flags \X Place : tcp[c[1]] # NULL /\ tcp[c[1]][c[2]] = Bogus}

\* With connections that come and go in both tables, every connection that was
\* established all the time is counted once, and what was never established is not,
\* except that a line that cannot be read may add one; and no line is counted in two
\* states.
EstablishedBracketed ==
    Runs(TcpPrograms) /\ Judged =>
        /\ data[TCP_ESTABLISHED] \in
              Cardinality(tcpSeen.steady) ..
                Cardinality(tcpSeen.ever) + Cardinality(BogusLines)
        /\ SumFunctionOnSet(data, States) <= Cardinality(tcp_flags \X Place)

\* Why the exit status may be UNKNOWN.
TcpReason == ~opt.ranges_ok \/ \E f \in tcp_flags : tcp[f] = NULL
=============================================================================
