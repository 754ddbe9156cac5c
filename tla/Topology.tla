------------------------------ MODULE Topology ------------------------------
(***************************************************************************)
(* "check_cpu --cpuinfo" over lib/cputopology.c: for each CPU in turn the  *)
(* threads of its core and the CPUs of its package are counted in two      *)
(* files, then the CPUs online; what was found at the last CPU is shown.   *)
(* CPUs go offline, which takes their files away, and come back meanwhile. *)
(*                                                                         *)
(* The masks are sets: the kernel writes those of the CPUs online.         *)
(***************************************************************************)
EXTENDS Plugin, FiniteSets, FiniteSetsExt

CONSTANTS
    Processor,          \* the CPUs the kernel allows for, from 0 on
    Boards,             \* how they may be arranged
    UnsignedInt,        \* the modulus of unsigned int, 2^32 in the code
    MaxPlugs,           \* bound: how often a CPU goes or comes
    TopologyOptions     \* the command lines

\* Of each CPU its core and its package, and the CPUs online at the start.
Arrangement == [core : [Processor -> Nat], package : [Processor -> Nat], online : SUBSET Processor]

\* accepted: whether what comes before --cpuinfo is.
TopologyCommandLine == [program : {"cpuinfo"}, accepted : BOOLEAN, my_threshold : Limits]

\* The CPUs fit an int, and a core is in one package.
ASSUME TopologyAssumption ==
    /\ Processor \subseteq Nat /\ 0 \in Processor /\ IsFiniteSet(Processor)
    /\ Boards \subseteq Arrangement /\ \A b \in Boards : 0 \in b.online
    /\ \A b \in Boards : \A c, d \in Processor :
          b.core[c] = b.core[d] => b.package[c] = b.package[d]
    /\ UnsignedInt \in Nat /\ Cardinality(Processor) < UnsignedInt /\ MaxPlugs \in Nat
    /\ TopologyOptions \subseteq TopologyCommandLine

VARIABLES
    board, up,          \* the host, its CPUs online,
    upSeen, plugs,      \* ghost: all the time and some time; the changes so far
    lookup,             \* the CPU whose files are read
    nthreads, ncores, nsockets

cpus == <<board, up, upSeen, plugs>>
topologyVars == <<cpus, lookup, nthreads, ncores, nsockets>>

TopologyPrograms == {"cpuinfo"}

TopologyInit ==
    /\ board \in Either(TopologyPrograms, Boards)
    /\ up = board.online /\ upSeen = Since(up) /\ plugs = 0
    /\ lookup = 0 /\ nthreads = 1 /\ ncores = 1 /\ nsockets = 1

\* The first CPU stays.
PlugCpu ==
    /\ pc \in {"threads", "cores", "sockets"} /\ plugs < MaxPlugs /\ plugs' = plugs + 1
    /\ \E c \in Processor \ {0} : up' = IF c \in up THEN up \ {c} ELSE up \cup {c}
    /\ upSeen' = Meeting(upSeen, up')
    /\ UNCHANGED <<main, board, lookup, nthreads, ncores, nsockets>>

-----------------------------------------------------------------------------
TopologyParseOptions ==
    /\ pc = "options" /\ Runs(TopologyPrograms) /\ UNCHANGED topologyVars
    /\ IF opt.accepted THEN Goto("threads") ELSE GiveUp

\* The CPUs of the same core, of the same package.
thread_siblings(c) == {d \in up : board.core[d] = board.core[c]}
core_siblings(c) == {d \in up : board.package[d] = board.package[c]}

\* cpumask_parse(): the size of a mask, -1 if there is none.
cpumask_parse(c, mask) == IF c \in up THEN Cardinality(mask) ELSE -1

AtLeastOne(n) == IF n = 0 THEN 1 ELSE n

\* The end of the loop, or the first file: a CPU that has none is passed over.
ReadThreads ==
    /\ pc = "threads" /\ UNCHANGED <<cpus, ncores, nsockets>>
    /\ IF lookup > Max(Processor) THEN Exit(STATE_UNKNOWN) /\ UNCHANGED <<lookup, nthreads>>
       ELSE IF lookup \notin up
       THEN lookup' = lookup + 1 /\ UNCHANGED <<main, nthreads>>
       ELSE /\ nthreads' = AtLeastOne(cpumask_parse(lookup, thread_siblings(lookup)))
            /\ Goto("cores") /\ UNCHANGED lookup

\* The second file.  The quotient is unsigned: without a file it is 2^32 - 1 over the
\* number of threads.
ReadCores ==
    /\ pc = "cores" /\ Goto("sockets") /\ UNCHANGED <<cpus, lookup, nthreads, nsockets>>
    /\ ncores' = AtLeastOne(
          (cpumask_parse(lookup, core_siblings(lookup)) % UnsignedInt) \div nthreads)

\* A mutant: the CPUs that are configured, not those online.
ReadOnlineConfigured ==
    /\ pc = "sockets" /\ Goto("threads") /\ lookup' = lookup + 1
    /\ nsockets' = AtLeastOne((Cardinality(Processor) \div nthreads) \div ncores)
    /\ UNCHANGED <<cpus, nthreads, ncores>>

\* get_processor_number_online().
ReadOnline ==
    /\ pc = "sockets" /\ Goto("threads") /\ lookup' = lookup + 1
    /\ nsockets' = AtLeastOne((Cardinality(up) \div nthreads) \div ncores)
    /\ UNCHANGED <<cpus, nthreads, ncores>>

TopologyPlugin == TopologyParseOptions \/ ReadThreads \/ ReadCores \/ ReadOnline

TopologySpec == /\ opt \in TopologyOptions /\ PluginInit /\ TopologyInit
                /\ [][TopologyPlugin \/ PlugCpu]_<<main, topologyVars>>

-----------------------------------------------------------------------------
TopologyTypeOK ==
    /\ board \in Boards /\ up \subseteq Processor /\ plugs \in 0 .. MaxPlugs
    /\ 0 \in up /\ upSeen.steady \subseteq up /\ up \subseteq upSeen.ever
    /\ lookup \in 0 .. Max(Processor) + 1
    /\ nthreads \in 1 .. UnsignedInt - 1 /\ ncores \in 1 .. UnsignedInt - 1
    /\ nsockets \in 1 .. UnsignedInt - 1

\* Every core has as many CPUs online as any other, and every package.
Uniform ==
    \A c, d \in up : /\ Cardinality(thread_siblings(c)) = Cardinality(thread_siblings(d))
                     /\ Cardinality(core_siblings(c)) = Cardinality(core_siblings(d))

\* On a host whose cores are alike and stay online, the numbers shown are its own; and
\* while CPUs come and go, they do not add up to more CPUs than were ever online, if the
\* last one stays.  (The last CPU that goes between its two files leaves a huge number.)
TopologyMultiplies ==
    pc = "exited" /\ Runs(TopologyPrograms) /\ opt.accepted =>
        /\ plugs = 0 /\ Uniform =>
             /\ nthreads = Cardinality(thread_siblings(0))
             /\ nsockets = Cardinality({board.package[c] : c \in up})
             /\ nsockets * ncores = Cardinality({board.core[c] : c \in up})
        /\ Max(upSeen.ever) \in upSeen.steady =>
             nsockets * ncores * nthreads <= Cardinality(upSeen.ever)
=============================================================================
