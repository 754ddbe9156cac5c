------------------------------ MODULE MCTables ------------------------------
(***************************************************************************)
(* Small instances of the plugins that read a table entry by entry, or one *)
(* file of each CPU after the other, while what they read changes.         *)
(***************************************************************************)
EXTENDS Processes, TcpTable, Mounts, Topology, TLC

UpTo(n) == [DefaultRange EXCEPT !.end = n, !.end_infinity = FALSE]
Ranges(w, c) == [warning |-> UpTo(w), critical |-> UpTo(c)]

(* Processes: three of two users, one number free; two sessions. *)

Proc(uid, threads) == [uid |-> uid, threads |-> threads]
MCProcsAtStart == {(1 :> Proc("root", 2)) @@ (2 :> Proc("alice", 1)) @@ (3 :> NULL) @@ (5 :> Proc("root", 1))}
MCUtmpAtStart == {(1 :> "root") @@ (2 :> "dead") @@ (3 :> "alice"), [s \in 1 .. 3 |-> "unnamed"]}
MCProcHosts == {[proc |-> p, systemd |-> "no"] : p \in {"yes", "no", "broken"}}
               \cup {[proc |-> "yes", systemd |-> s] : s \in {"yes", "fails"}}

Nbprocs == [program |-> "nbprocs", threads |-> "no", ranges_ok |-> TRUE, my_threshold |-> Ranges(2, 3)]
MCProcessesOptions ==
    {Nbprocs, [Nbprocs EXCEPT !.threads = "--threads"], [Nbprocs EXCEPT !.threads = "-t"],
     [Nbprocs EXCEPT !.ranges_ok = FALSE], [Nbprocs EXCEPT !.program = "users"]}

(* Sockets: established, closing and listening ones; a line that cannot be read. *)

MCTcpTables ==
    {[tcp |-> <<1, 0, 10, 1>>, tcp6 |-> NULL], [tcp |-> <<6, 1, 1, 0>>, tcp6 |-> <<1, 0, 6, 11>>],
     [tcp |-> <<99, 1, 0, 6>>, tcp6 |-> <<10, 99, 99, 1>>]}
Tcp == [program |-> "tcpcount", flags |-> {}, ranges_ok |-> TRUE, my_threshold |-> Ranges(1, 2)]
MCTcpOptions == {Tcp, [Tcp EXCEPT !.ranges_ok = FALSE]}
                \cup {[Tcp EXCEPT !.flags = f] : f \in {{"tcp6"}, {"tcp", "tcp6"}}}

(* Mounts: a disk, a share, selinuxfs, and a directory that autofs mounts. *)

On(dir, dev, type) ==
    [mountdir |-> dir, devname |-> dev, type |-> type, colon |-> FALSE, slashes |-> FALSE]
MCMountOf ==
    [root |-> On("/", "/dev/sda", "ext4"), trigger |-> On("/auto", "systemd-1", "autofs"),
     auto |-> On("/auto", "/dev/sdb", "ext4"), share |-> [On("/nfs", "nas", "nfs") EXCEPT !.colon = TRUE],
     selinux |-> On("/selinux", "selinuxfs", "selinuxfs")]
MCMount == DOMAIN MCMountOf
MCDir == {"/", "/auto", "/nfs", "/selinux", "/dev/sda", "/dev/sdb", "nas", "selinuxfs", "systemd-1", "/lost"}
MCAutomount == [d \in MCDir |-> IF d = "/auto" THEN "auto" ELSE NULL]

Disk == [table |-> TRUE, enforce |-> 1, openable |-> MCDir \ {"/lost"},
         mounted |-> <<"root", "trigger", "share", "selinux">>,
         opts |-> [m \in MCMount |-> IF m = "auto" THEN {"ro"} ELSE {"rw", "errors=remount-ro"}]]
MCMountHosts ==
    {Disk, [Disk EXCEPT !.opts["share"] = {"ro"}, !.enforce = 0], [Disk EXCEPT !.mounted = <<"root">>],
     [Disk EXCEPT !.mounted = <<"auto", "selinux">>], [Disk EXCEPT !.table = FALSE],
     [Disk EXCEPT !.mounted = <<>>, !.opts["root"] = {"ro"}]}

Ask(program, dirs) ==
    [program |-> program, argv |-> dirs, list |-> FALSE, exclude_mode |-> FALSE,
     show_all_fs |-> FALSE, show_local_fs |-> FALSE, fs_select |-> {}, fs_exclude |-> {},
     permissive |-> "none"]
MCMountsOptions ==
    {Ask("ifmountfs", dirs) : dirs \in {<<>>, <<"/">>, <<"/nfs", "/">>, <<"/lost", "/auto">>}}
    \cup {[Ask("ifmountfs", <<>>) EXCEPT !.list = TRUE]}
    \cup {Ask("readonlyfs", dirs) : dirs \in {<<>>, <<"/auto">>, <<"/nfs", "/">>, <<"/", "/lost">>}}
    \cup {[Ask("readonlyfs", dirs) EXCEPT !.exclude_mode = TRUE] : dirs \in {<<>>, <<"/auto", "nas">>}}
    \cup {[Ask("readonlyfs", <<>>) EXCEPT !.show_local_fs = TRUE, !.show_all_fs = TRUE],
          [Ask("readonlyfs", <<"/auto">>) EXCEPT !.show_all_fs = TRUE],
          [Ask("readonlyfs", <<>>) EXCEPT !.fs_select = {"ext4"}],
          [Ask("readonlyfs", <<>>) EXCEPT !.fs_exclude = {"ext4"}],
          [Ask("readonlyfs", <<>>) EXCEPT !.fs_select = {"nfs"}, !.fs_exclude = {"nfs"}]}
    \cup {[Ask("selinux", <<>>) EXCEPT !.permissive = p] :
            p \in {"none", "-p", "-P", "--permissive-is-critical"}}

(* Topology: two threads a core, two packages, a core of another kind, CPUs offline. *)

Cpus(cores, packages, there) ==
    [core |-> (0 :> cores[1]) @@ (1 :> cores[2]) @@ (2 :> cores[3]) @@ (3 :> cores[4]),
     package |-> (0 :> packages[1]) @@ (1 :> packages[2]) @@ (2 :> packages[3]) @@ (3 :> packages[4]),
     online |-> there]
MCBoards == {Cpus(<<0, 0, 1, 1>>, <<0, 0, 0, 0>>, 0 .. 3), Cpus(<<0, 1, 2, 3>>, <<0, 0, 1, 1>>, 0 .. 3),
             Cpus(<<0, 0, 1, 2>>, <<0, 0, 0, 0>>, 0 .. 3), Cpus(<<0, 0, 1, 1>>, <<0, 0, 1, 1>>, {0, 2})}
MCTopologyOptions == [program : {"cpuinfo"}, accepted : BOOLEAN, my_threshold : {Ranges(0, 0)}]

-----------------------------------------------------------------------------
(* One host, one plugin: what the others have stays as it is. *)

Init == /\ opt \in ProcessesOptions \cup TcpOptions \cup MountsOptions \cup TopologyOptions
        /\ PluginInit /\ ProcessesInit /\ TcpInit /\ MountsInit /\ TopologyInit

vars == <<main, processesVars, tcpVars, mountsVars, topologyVars>>

Plugins == \/ ProcessesPlugin /\ UNCHANGED <<tcpVars, mountsVars, topologyVars>>
           \/ TcpPlugin /\ UNCHANGED <<processesVars, mountsVars, topologyVars>>
           \/ TopologyPlugin /\ UNCHANGED <<processesVars, tcpVars, mountsVars>>
           \/ MountsPlugin /\ UNCHANGED <<processesVars, tcpVars, topologyVars>>
Others == \/ ProcessesChange /\ UNCHANGED <<tcpVars, mountsVars, topologyVars>>
          \/ TcpChange /\ UNCHANGED <<processesVars, mountsVars, topologyVars>>
          \/ PlugCpu /\ UNCHANGED <<processesVars, tcpVars, mountsVars>>
          \/ MountsChange /\ UNCHANGED <<processesVars, tcpVars, topologyVars>>

Next == Plugins \/ Others

Spec == Init /\ [][Next]_vars

\* A plugin that can step does.
FairSpec == Spec /\ WF_vars(Plugins)

TypeOK ==
    /\ pc \in {"options", "proc", "utmp", "verdict", "tables", "lines", "open", "mtab",
              "entries", "enforce", "value", "threads", "cores", "sockets",
              "exited"}
    /\ exit \in ExitStatuses
    /\ ProcessesTypeOK /\ TcpTypeOK /\ MountsTypeOK
    /\ TopologyTypeOK

\* UNKNOWN has a reason: an option that is not acceptable, something that cannot be
\* read, or SELinux going away between two looks at it; and the first two always lead
\* to UNKNOWN where nothing else can come first.  A description of the CPUs is no verdict.
UnknownHasAReason ==
    pc = "exited" =>
        CASE Runs(ProcessesPrograms) -> exit = STATE_UNKNOWN <=> ProcessesReason
          [] Runs(TcpPrograms) -> exit = STATE_UNKNOWN <=> TcpReason
          [] Runs(MountsPrograms) -> exit = STATE_UNKNOWN => MountsReason
          [] Runs(TopologyPrograms) -> exit = STATE_UNKNOWN

\* The types hold, and every plugin ends, since it reads the entries in an order, however
\* they come and go, with UNKNOWN for a reason.
EndsForAReason == []TypeOK /\ <>(pc = "exited" /\ UnknownHasAReason)
=============================================================================
