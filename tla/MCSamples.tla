----------------------------- MODULE MCSamples -----------------------------
(***************************************************************************)
(* Small instances of the plugins that read values of /proc and /sys.      *)
(***************************************************************************)
EXTENDS Rates, Memory, Ports, Sensors, TLC

UpTo(n) == [DefaultRange EXCEPT !.end = n, !.end_infinity = FALSE]
Ranges(w, c) == [warning |-> UpTo(w), critical |-> UpTo(c)]
NoRanges == [warning |-> NULL, critical |-> NULL]

(* Rates: three CPUs, the third one about to fill its column. *)

VmNames == {"pgpgin", "pgpgout", "pswpin", "pswpout", "pgfault", "pgmajfault", "pgfree"}
StealNames == {"pgsteal_dma", "pgsteal_normal", "pgscan_direct_normal"}
MCStats == {"ctxt", "intr", "some", "full", "pgsteal"} \cup VmNames \cup StealNames

\* Every counter has a pace of its own.
MCGrowths ==
    {[s \in MCStats |-> IF s \in slow THEN 0
                        ELSE IF s \in {"ctxt", "intr", "pswpin", "some", "pgfree"} THEN 3 ELSE 2] :
        slow \in {{}, {"some", "full", "pgmajfault", "pgpgin", "ctxt"}}}
MCStatsAtBoot == {[s \in MCStats |-> IF s \in {"ctxt", "some", "pgpgin"} THEN 7 ELSE 1]}

MCCPU == {0, 1, 2}
MCIrqAtBoot == {(0 :> 12) @@ (1 :> 2) @@ (2 :> 8)}
MCIrqGrowths == {[c \in MCCPU |-> c + 1]}

Modern == {"ctxt", "intr", "interrupts", "vmstat", "psi_cpu", "psi_io", "psi_mem"} \cup VmNames
MCLayouts == {Modern \cup {"pgsteal"}, {"vmstat", "page", "swap", "ctxt", "intr"},
              (Modern \ {"pswpin", "pswpout"}) \cup {"swap"} \cup StealNames,
              Modern \ {"pgpgin", "pgpgout", "interrupts"}, {"interrupts"}}

Rate(program) ==
    [program |-> program, delay |-> 1, count |-> 2, swapping_only |-> FALSE,
     resource |-> "none", full |-> FALSE, ranges_ok |-> TRUE, my_threshold |-> Ranges(2, 3)]

MCRatesOptions ==
    {[Rate(p) EXCEPT !.count = n] : p \in {"cswch", "intr"}, n \in {-1, 0, 3, 101}}
    \cup {[Rate(p) EXCEPT !.delay = n] : p \in {"cswch", "intr"}, n \in {0, 2, 61}}
    \cup {[Rate("paging") EXCEPT !.swapping_only = b] : b \in BOOLEAN}
    \cup {[Rate("pressure") EXCEPT !.resource = r, !.full = b] : r \in {"none", "cpu", "mem"}, b \in BOOLEAN}
    \cup {[Rate("intr") EXCEPT !.count = 4], [Rate("pressure") EXCEPT !.resource = "io", !.delay = 2],
          [Rate("paging") EXCEPT !.ranges_ok = FALSE]}

(* Memory: a host with little in use, with and without swap. *)

MCPoolsAtBoot == {[free |-> 3, used |-> 1, file |-> 3, shmem |-> 1, buffers |-> 1, slab |-> 3]}

Kernel314 == [meminfo |-> TRUE, vmstat |-> TRUE, available |-> TRUE, version |-> "new",
              swap_total |-> 9, swap_free |-> 4, min_free |-> 2]
Kernel31 == [Kernel314 EXCEPT !.available = FALSE, !.vmstat = FALSE]
MCHosts == {Kernel314, [Kernel314 EXCEPT !.meminfo = FALSE],
            Kernel31, [Kernel31 EXCEPT !.min_free = 8], [Kernel31 EXCEPT !.min_free = NULL, !.swap_total = 0, !.swap_free = 0],
            [Kernel31 EXCEPT !.version = "old"], [Kernel31 EXCEPT !.version = "non-standard"]}

Percent == [program |-> "memory", available |-> FALSE, vmstats |-> FALSE, units_ok |-> TRUE,
            percentages |-> TRUE, ranges_ok |-> TRUE, my_threshold |-> Ranges(8, 50)]
MCMemoryOptions ==
    {Percent, [Percent EXCEPT !.vmstats = TRUE], [Percent EXCEPT !.available = TRUE],
     [Percent EXCEPT !.units_ok = FALSE], [Percent EXCEPT !.percentages = FALSE],
     [Percent EXCEPT !.ranges_ok = FALSE], [Percent EXCEPT !.program = "swap", !.vmstats = TRUE]}

(* Ports: two at the start, one offline, and one that may appear. *)

Switch == [sysfs |-> TRUE, class |-> TRUE, ports |-> {"host0", "host1"}, online |-> {"host0"}]
MCFabrics == {Switch, [Switch EXCEPT !.sysfs = FALSE], [Switch EXCEPT !.online = @ \cup {"host1"}],
              [Switch EXCEPT !.class = FALSE, !.ports = {}, !.online = {}]}

Fibre == [program |-> "fc", delay |-> 1, count |-> 2, summary |-> FALSE, ranges_ok |-> TRUE,
          my_threshold |-> Ranges(0, 1)]
MCPortsOptions ==
    {[Fibre EXCEPT !.count = n] : n \in {-1, 0, 1, 2, 3, 101}}
    \cup {[Fibre EXCEPT !.delay = 0], [Fibre EXCEPT !.summary = TRUE],
          [Fibre EXCEPT !.ranges_ok = FALSE]}

(* Sensors: zones that are cold, hot, unreadable or missing. *)

At(t) == [there |-> TRUE, temp |-> t, trip |-> TRUE]
Board == [sysfs |-> TRUE, thermal |-> TRUE, cpuinfo |-> TRUE,
          zones |-> <<At(4), At(9), At(NULL)>>, freq |-> <<5, 0, 9>>, loadavg |-> <<5, 8, 3>>, cpus |-> 2, uptime |-> 540,
          clock |-> 20, calls |-> TRUE]
MCSensorHosts ==
    {Board, [Board EXCEPT !.zones = <<At(0), At(NULL), At(7)>>, !.freq = <<12, 5>>,
                    !.loadavg = <<20, 2, 60>>],
     [Board EXCEPT !.zones = <<At(12), At(-5), At(4)>>, !.loadavg = <<2, 2, 20>>],
     [Board EXCEPT !.zones[2].there = FALSE, !.zones[1].trip = FALSE, !.cpus = 3],
     [Board EXCEPT !.zones = [z \in 1 .. 3 |-> [At(1) EXCEPT !.there = FALSE]]],
     [Board EXCEPT !.sysfs = FALSE],
     [Board EXCEPT !.thermal = FALSE, !.cpuinfo = FALSE, !.calls = FALSE]}

Sensor(program) ==
    [program |-> program, unit |-> "C", zone |-> NULL, list |-> FALSE, refclock |-> NULL,
     loads |-> <<NULL, NULL, NULL>>, normalize |-> FALSE, ranges_ok |-> TRUE,
     my_threshold |-> Ranges(8, 10)]
Load == [Sensor("load") EXCEPT !.loads = <<[w |-> 2, c |-> 4], NULL, [w |-> 3, c |-> 7]>>]
MCSensorsOptions ==
    {Load, [Load EXCEPT !.normalize = TRUE], [Load EXCEPT !.loads[2] = [w |-> 3, c |-> 3]],
     [Load EXCEPT !.loads = <<NULL, [w |-> 1, c |-> 9], [w |-> 2, c |-> 70]>>], Sensor("load"),
     Sensor("uptime"), Sensor("clock"), Sensor("cpufreq"),
     [Sensor("uptime") EXCEPT !.ranges_ok = FALSE], [Sensor("temperature") EXCEPT !.list = TRUE]}
    \cup {[Sensor("clock") EXCEPT !.refclock = r] : r \in {15, 20, 32, 60}}
    \cup {[Sensor("temperature") EXCEPT !.zone = z] : z \in {NULL, 1, 2}}
    \cup {[Sensor("temperature") EXCEPT !.unit = u, !.my_threshold = Ranges(50, 280)] : u \in {"F", "K"}}

-----------------------------------------------------------------------------
(* One host, one plugin: what the others have stays as it is. *)

Init == /\ opt \in RatesOptions \cup MemoryOptions \cup PortsOptions \cup SensorsOptions
        /\ PluginInit /\ RatesInit /\ MemoryInit /\ PortsInit /\ SensorsInit

vars == <<main, ratesVars, memoryVars, portsVars, sensorsVars>>

Plugins == \/ RatesPlugin /\ UNCHANGED <<memoryVars, portsVars, sensorsVars>>
           \/ MemoryPlugin /\ UNCHANGED <<ratesVars, portsVars, sensorsVars>>
           \/ PortsPlugin /\ UNCHANGED <<ratesVars, memoryVars, sensorsVars>>
           \/ SensorsPlugin /\ UNCHANGED <<ratesVars, memoryVars, portsVars>>
Write == WriteLine /\ UNCHANGED <<ratesVars, portsVars, sensorsVars>>
Kernel == \/ /\ CountersGrow \/ Hotplug
             /\ UNCHANGED <<memoryVars, portsVars, sensorsVars>>
          \/ MovePage /\ UNCHANGED <<ratesVars, portsVars, sensorsVars>>
          \/ Write
          \/ PortsChange /\ UNCHANGED <<ratesVars, memoryVars, sensorsVars>>
          \/ FrequencyChanges /\ UNCHANGED <<ratesVars, memoryVars, portsVars>>

Next == Plugins \/ Kernel

Spec == Init /\ [][Next]_vars

\* A plugin that can step does; the kernel finishes the text it has begun.
FairSpec == /\ Spec /\ WF_vars(Plugins)
            /\ WF_vars(Write)

TypeOK ==
    /\ pc \in {"options", "read", "count", "columns", "full", "judge", "meminfo", "vmstat",
              "verdict", "ports", "rx", "errors", "value", "frequencies", "zones", "exited"}
    /\ exit \in ExitStatuses
    /\ RatesTypeOK /\ MemoryTypeOK /\ PortsTypeOK /\ SensorsTypeOK

\* UNKNOWN is the exit status exactly when an option is not acceptable or something
\* the plugin needs cannot be read.
UnknownHasAReason ==
    pc = "exited" =>
        IF Runs(PortsPrograms) THEN NoVerdictOfPorts
        ELSE exit = STATE_UNKNOWN <=> CASE Runs(RatesPrograms) -> RatesReason
                                        [] Runs(MemoryPrograms) -> MemoryReason
                                        [] Runs(SensorsPrograms) -> SensorsReason

\* The types hold, and every plugin ends, however the kernel steps between its readings,
\* with UNKNOWN for a reason.
EndsForAReason == []TypeOK /\ <>(pc = "exited" /\ UnknownHasAReason)
=============================================================================
