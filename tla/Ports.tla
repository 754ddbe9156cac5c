------------------------------- MODULE Ports -------------------------------
(***************************************************************************)
(* check_fc: the state and the traffic of the Fibre Channel ports.  They   *)
(* are visited one after the other in the order of readdir(), each for     *)
(* (count - 1) * delay seconds, while links go up and down, frames arrive  *)
(* and ports come and go (a port that comes back has a new name).          *)
(*                                                                         *)
(* rx_frames stands for tx_frames too, which is read right after it each   *)
(* time, and error_frames for the five counters of errors.                 *)
(***************************************************************************)
EXTENDS Plugin, FiniteSets, Functions

CONSTANTS
    Port,               \* the ports there may be
    Fabrics,            \* what the host may have, at the start
    MaxPortEvents,      \* bound: changes of the ports
    PortsOptions        \* the command lines

PortsPrograms == {"fc"}

\* sysfs, class: whether /sys and /sys/class/fc_host are there.
Fabric == [sysfs : BOOLEAN, class : BOOLEAN, ports : SUBSET Port, online : SUBSET Port]

PortsCommandLine ==
    [program : PortsPrograms, delay : Int, count : Int, summary : BOOLEAN,
     ranges_ok : BOOLEAN, my_threshold : Limits]

ASSUME PortsAssumption ==
    /\ IsFiniteSet(Port) /\ Fabrics \subseteq Fabric /\ MaxPortEvents \in Nat
    /\ \A f \in Fabrics : f.online \subseteq f.ports
    /\ PortsOptions \subseteq PortsCommandLine

VARIABLES
    fabric,             \* the host
    port_state,         \* [there, online, frames, errors] of each port
    changes,            \* the changes so far
    todo, maybe,        \* what readdir() will return, what it may return
    dp, reads,          \* the port visited, how often its frames were read
    rx,                 \* the last two readings
    n_ports, n_online, rx_tot, err_tot, \* what is shown
    steady, ever        \* ghosts: ports online all the time, ports online at some time

fcSystem == <<fabric, port_state, changes, steady, ever>>
fcWalk == <<todo, maybe, dp, reads, rx, n_ports, n_online, rx_tot, err_tot>>
portsVars == <<fcSystem, fcWalk>>

PortsInit ==
    /\ fabric \in Either(PortsPrograms, Fabrics) /\ changes = 0
    /\ port_state = [p \in Port |-> [there |-> p \in fabric.ports,
                         online |-> p \in fabric.online, frames |-> 1, errors |-> 0]]
    /\ todo = {} /\ maybe = {} /\ dp = NULL /\ reads = 0
    /\ rx = <<0, 0>>
    /\ n_ports = 0 /\ n_online = 0 /\ rx_tot = 0 /\ err_tot = 0
    /\ steady = fabric.online /\ ever = fabric.online

-----------------------------------------------------------------------------
(* The ports.  What comes before the directory is opened is part of the start *)

Change == /\ Runs(PortsPrograms) /\ pc \notin {"options", "exited"}
          /\ changes < MaxPortEvents /\ changes' = changes + 1
          /\ UNCHANGED <<main, fabric, dp, reads, rx, n_ports, n_online, rx_tot, err_tot>>

Link(p) ==
    /\ Change /\ port_state[p].there
    /\ port_state' = [port_state EXCEPT ![p].online = ~@]
    /\ steady' = steady \ {p} /\ ever' = ever \cup {p}
    /\ UNCHANGED <<todo, maybe>>

Frames(p) ==
    /\ Change /\ port_state[p].there
    /\ port_state' = [port_state EXCEPT ![p].frames = @ + 2, ![p].errors = @ + 1]
    /\ UNCHANGED <<todo, maybe, steady, ever>>

Appear(p) ==
    /\ Change /\ ~port_state[p].there /\ p \notin fabric.ports
    /\ port_state' = [port_state EXCEPT ![p].there = TRUE]
    /\ maybe' = maybe \cup {p}
    /\ UNCHANGED <<todo, steady, ever>>

Vanish(p) ==
    /\ Change /\ port_state[p].there /\ p \in fabric.ports
    /\ port_state' = [port_state EXCEPT ![p].there = FALSE, ![p].online = FALSE]
    /\ todo' = todo \ {p} /\ maybe' = IF p \in todo THEN maybe \cup {p} ELSE maybe
    /\ steady' = steady \ {p} /\ UNCHANGED ever

PortsChange == \E p \in Port : Link(p) \/ Frames(p) \/ Appear(p) \/ Vanish(p)

-----------------------------------------------------------------------------
(* main *)

PortsBadOptions ==
    opt.summary \/ BadDelay(opt.delay) \/ BadCount(opt.count) \/ ~opt.ranges_ok

\* With --summary the ports are listed, and the status is UNKNOWN.
OpenHosts ==
    /\ pc = "options" /\ Runs(PortsPrograms)
    /\ IF PortsBadOptions \/ ~fabric.sysfs \/ ~fabric.class
       THEN GiveUp /\ UNCHANGED todo
       ELSE Goto("ports") /\ todo' = {p \in Port : port_state[p].there}
    /\ UNCHANGED <<fcSystem, maybe, dp, reads, rx, n_ports, n_online, rx_tot, err_tot>>

\* A mutant: a port is looked at again if it is online.
VisitPortAgain(p) ==
    /\ pc = "ports" /\ p \in todo \cup maybe
    /\ todo' = (IF port_state[p].online THEN todo ELSE todo \ {p})
    /\ maybe' = maybe \ {p}
    /\ dp' = p /\ reads' = 0 /\ n_ports' = n_ports + 1
    /\ IF port_state[p].there
       THEN n_online' = n_online + (IF port_state[p].online THEN 1 ELSE 0) /\ Goto("rx")
       ELSE Crash /\ UNCHANGED n_online
    /\ UNCHANGED <<fcSystem, rx, rx_tot, err_tot>>

\* readdir() returns a port: if it has gone there is no line to compare, STREQ() reads
\* through a null pointer.
VisitPort(p) ==
    /\ pc = "ports" /\ p \in todo \cup maybe
    /\ todo' = todo \ {p} /\ maybe' = maybe \ {p}
    /\ dp' = p /\ reads' = 0 /\ n_ports' = n_ports + 1
    /\ IF port_state[p].there
       THEN n_online' = n_online + (IF port_state[p].online THEN 1 ELSE 0) /\ Goto("rx")
       ELSE Crash /\ UNCHANGED n_online
    /\ UNCHANGED <<fcSystem, rx, rx_tot, err_tot>>

\* fc_host_get_statistic(): a statistic that cannot be read is an error.
ReadFrames ==
    /\ pc = "rx"
    /\ IF port_state[dp].there
       THEN /\ rx' = <<rx[2], port_state[dp].frames>> /\ reads' = reads + 1
            /\ Goto(IF reads + 1 < opt.count THEN "rx" ELSE "errors")
       ELSE GiveUp /\ UNCHANGED <<rx, reads>>
    /\ UNCHANGED <<fcSystem, todo, maybe, dp, n_ports, n_online, rx_tot, err_tot>>

\* A mutant: the first difference of a port is against the last reading of the port
\* before it.
rx_framesCarried == rx[2] - rx[1]

\* The last difference, or the count itself.  It is not divided by the delay.
rx_frames == IF reads = 1 THEN rx[2] ELSE rx[2] - rx[1]

ReadErrors ==
    /\ pc = "errors"
    /\ IF port_state[dp].there
       THEN /\ rx_tot' = rx_tot + rx_frames /\ err_tot' = err_tot + port_state[dp].errors
            /\ Goto("ports")
       ELSE GiveUp /\ UNCHANGED <<rx_tot, err_tot>>
    /\ UNCHANGED <<fcSystem, todo, maybe, dp, reads, rx, n_ports, n_online>>

JudgePorts ==
    /\ pc = "ports" /\ todo = {}
    /\ Exit(get_status(n_online, opt.my_threshold)) /\ UNCHANGED portsVars

PortsPlugin == \/ OpenHosts \/ ReadFrames \/ ReadErrors \/ JudgePorts
               \/ \E p \in Port : VisitPort(p)

PortsNext == PortsPlugin \/ PortsChange

PortsSpec == /\ opt \in PortsOptions /\ PluginInit /\ PortsInit
             /\ [][PortsNext]_<<main, portsVars>>

-----------------------------------------------------------------------------
PortsTypeOK ==
    /\ fabric \in Fabrics /\ changes \in 0 .. MaxPortEvents
    /\ port_state \in [Port -> [there : BOOLEAN, online : BOOLEAN, frames : Nat,
                                errors : Nat]]
    /\ todo \subseteq Port /\ maybe \subseteq Port /\ dp \in Port \cup {NULL}
    /\ reads \in Nat /\ rx \in Nat \X Nat
    /\ n_online \in Nat /\ n_ports \in Nat /\ n_online <= n_ports
    /\ rx_tot \in Nat /\ err_tot \in Nat
    /\ steady \subseteq ever /\ ever \subseteq Port

\* What has arrived at each port during the run or, with one reading, since boot.
FramesSince == [p \in Port |-> port_state[p].frames - (IF opt.count > 1 THEN 1 ELSE 0)]
Errors == [p \in Port |-> port_state[p].errors]

\* While links go up and down and ports come and go, the number judged lies between
\* that of the ports that were online all the time and that of those that ever were.
OnlineBracketed ==
    Judged /\ Runs(PortsPrograms) =>
        /\ Cardinality(steady) <= n_online /\ n_online <= Cardinality(ever)
        /\ exit = get_status(n_online, opt.my_threshold)

\* The frames shown are frames that arrived during the run (or, with one reading, since
\* boot): no port's are counted twice, none's are taken for another's, although each
\* port is watched at another time.
FramesOfTheRun ==
    Judged /\ Runs(PortsPrograms) =>
        /\ rx_tot <= SumFunctionOnSet(FramesSince, Port)
        /\ opt.count <= 1 => rx_tot >= n_ports
        /\ err_tot <= SumFunctionOnSet(Errors, Port)

\* No verdict only for a reason: an option, a file system or class that is missing, or a
\* port that went away.
NoVerdictOfPorts ==
    IF PortsBadOptions \/ ~fabric.sysfs \/ ~fabric.class THEN exit = STATE_UNKNOWN
    ELSE Judged \/ \E p \in fabric.ports : ~port_state[p].there
=============================================================================
