------------------------------ MODULE Sensors ------------------------------
(***************************************************************************)
(* The plugins that judge values as they are at the moment: check_load,    *)
(* check_uptime, check_clock, check_cpufreq and check_temperature.  The    *)
(* frequency of a CPU may change while the plugin looks at the others; the *)
(* thermal zones are met in the order of readdir().                        *)
(*                                                                         *)
(* Temperatures are in degrees.  A text with a minus sign is a huge number *)
(* for strtoull(); int is modulo IntWord, 2^32 in the code.                *)
(***************************************************************************)
EXTENDS Plugin, Sequences, FiniteSetsExt

CONSTANTS
    IntWord,            \* the modulus of int
    Zone,               \* the numbers of the thermal zones there may be
    SensorHosts,        \* the hosts there may be
    Frequencies,        \* what a frequency may change to
    MaxFreqChanges,     \* bound: how often one does
    SensorsOptions      \* the command lines

SensorsPrograms == {"load", "uptime", "clock", "cpufreq", "temperature"}

\* A zone may be missing, its temperature unreadable; trip: FALSE if the zone has a
\* critical trip point whose temperature cannot be read.
ZoneKind == [there : BOOLEAN, temp : Int \cup {NULL}, trip : BOOLEAN]

\* thermal: whether the kernel has a class for them; cpuinfo: whether cpu_desc_read() gets
\* at what it reads; zones: for each number; freq: of each configured CPU, 0 if it has
\* none; loadavg: over all the CPUs, cpus: those online; uptime in seconds, clock: seconds
\* since the Epoch; calls: whether sysinfo(), clock_gettime(), getloadavg() and strftime()
\* succeed.
SensorHost ==
    [sysfs : BOOLEAN, thermal : BOOLEAN, cpuinfo : BOOLEAN,
     zones : [Zone -> ZoneKind], freq : Seq(Nat), loadavg : [1 .. 3 -> Nat],
     cpus : Nat, uptime : Nat, clock : Nat, calls : BOOLEAN]

Units == {"C", "F", "K"}
Pairs == [w : Nat, c : Nat] \cup {NULL}

\* zone: the one selected, NULL for all; list: --list; refclock: NULL if it is not
\* given; loads: the thresholds for each of the three averages, as far as given.
SensorsCommandLine ==
    [program : SensorsPrograms, unit : Units, zone : Zone \cup {NULL}, list : BOOLEAN,
     refclock : Nat \cup {NULL}, loads : [1 .. 3 -> Pairs], normalize : BOOLEAN,
     ranges_ok : BOOLEAN, my_threshold : Limits]

ASSUME SensorsAssumption ==
    /\ IntWord \in Nat \ {0} /\ IntWord % 2 = 0 /\ Word % IntWord = 0
    /\ Zone \subseteq Nat /\ Frequencies \subseteq Nat
    /\ SensorHosts \subseteq SensorHost /\ SensorsOptions \subseteq SensorsCommandLine
    /\ \A h \in SensorHosts :
          /\ h.cpus > 0
          /\ \A z \in Zone : h.zones[z].temp = NULL \/ h.zones[z].temp < IntWord \div 2
    /\ MaxFreqChanges \in Nat

VARIABLES
    sensors,            \* the host
    freq, freqs,        \* the frequencies; ghost: all those each CPU ever had
    freqchanges,        \* how often one changed
    cpu, worst,         \* the loop over the CPUs, the status so far
    unseen,             \* the zones readdir() has not returned yet
    temp, max_temp, zone \* sysfsparser_thermal_get_temperature()

sensorsHost == <<sensors, freq, freqs, freqchanges>>
sensorsVars == <<sensorsHost, cpu, worst, unseen, temp, max_temp, zone>>

SensorsInit ==
    /\ sensors \in Either(SensorsPrograms, SensorHosts)
    /\ freq = sensors.freq /\ freqs = [c \in DOMAIN freq |-> {freq[c]}] /\ freqchanges = 0
    /\ cpu = 1 /\ worst = STATE_OK
    /\ unseen = {z \in Zone : sensors.zones[z].there}
    /\ temp = 0 /\ max_temp = 0 /\ zone = NULL

FrequencyChanges ==
    /\ pc = "frequencies" /\ freqchanges < MaxFreqChanges /\ freqchanges' = freqchanges + 1
    /\ \E c \in DOMAIN freq, f \in Frequencies :
         /\ freq[c] # 0 /\ f # freq[c]
         /\ freq' = [freq EXCEPT ![c] = f] /\ freqs' = [freqs EXCEPT ![c] = @ \cup {f}]
    /\ UNCHANGED <<main, sensors, cpu, worst, unseen, temp, max_temp, zone>>

-----------------------------------------------------------------------------
(* main *)

\* validate_input: the warning limit must be below the critical one.
SensorsBadOptions ==
    \/ ~opt.ranges_ok
    \/ /\ Runs({"load"})
       /\ \E k \in 1 .. 3 : opt.loads[k] # NULL /\ opt.loads[k].w >= opt.loads[k].c
    \/ Runs({"clock"}) /\ opt.refclock = NULL
    \/ Runs({"temperature"}) /\ opt.list

\* sysfsparser_check_for_sysfs(), sysfsparser_thermal_kernel_support(), cpu_desc_read().
HostLacks ==
    \/ ~sensors.sysfs /\ Runs({"load", "cpufreq", "temperature"})
    \/ ~sensors.thermal /\ Runs({"temperature"})
    \/ ~sensors.cpuinfo /\ Runs({"cpufreq"})

SensorsParseOptions ==
    /\ pc = "options" /\ Runs(SensorsPrograms)
    /\ IF SensorsBadOptions \/ HostLacks
       THEN GiveUp
       ELSE Goto(CASE Runs({"cpufreq"}) -> "frequencies"
                   [] Runs({"temperature"}) -> "zones" [] OTHER -> "value")
    /\ UNCHANGED sensorsVars

-----------------------------------------------------------------------------
(* check_load, check_uptime, check_clock *)

\* normalize_loadavg: a load over a number of CPUs.
NumCpus == IF opt.normalize THEN sensors.cpus ELSE 1

\* loadavg_status: the averages in order, until one is critical.
loadavg_status ==
    LET exceeds(k, bound) == sensors.loadavg[k] > bound * NumCpus
        from[k \in 1 .. 4] ==
            IF k = 4 THEN STATE_OK
            ELSE IF opt.loads[k] = NULL THEN from[k + 1]
            ELSE IF exceeds(k, opt.loads[k].c) THEN STATE_CRITICAL
            ELSE IF exceeds(k, opt.loads[k].w) THEN Worse(STATE_WARNING, from[k + 1])
            ELSE from[k + 1]
    IN from[1]

\* (int) of a long.
int(x) == LET y == x % IntWord IN IF y < IntWord \div 2 THEN y ELSE y - IntWord
labs(x) == IF x < 0 THEN -x ELSE x

\* get_timedelta() returns an int.
timedelta == int(sensors.clock - opt.refclock)

JudgeValue ==
    /\ pc = "value"
    /\ IF ~sensors.calls THEN GiveUp
       ELSE Exit(CASE Runs({"load"}) -> loadavg_status
                   [] Runs({"uptime"}) -> get_status(sensors.uptime \div 60, opt.my_threshold)
                   [] Runs({"clock"}) -> get_status(labs(timedelta), opt.my_threshold))
    /\ UNCHANGED sensorsVars

-----------------------------------------------------------------------------
(* check_cpufreq *)

\* One turn of the loop over the configured CPUs, or the return: a CPU without a
\* frequency does not count.
JudgeFrequency ==
    /\ pc = "frequencies"
    /\ IF cpu <= Len(freq)
       THEN /\ worst' = (IF freq[cpu] > 0
                         THEN Worse(worst, get_status(freq[cpu], opt.my_threshold))
                         ELSE worst)
            /\ cpu' = cpu + 1 /\ UNCHANGED main
       ELSE Exit(worst) /\ UNCHANGED <<cpu, worst>>
    /\ UNCHANGED <<sensorsHost, unseen, temp, max_temp, zone>>

-----------------------------------------------------------------------------
(* check_temperature *)

\* sysfsparser_getvalue() of a temperature; a file that cannot be read leaves what
\* the variable had.
ZoneReading(z) == IF sensors.zones[z].temp = NULL THEN temp ELSE unsigned(sensors.zones[z].temp)

\* A mutant: the first zone is only overwritten by a colder one.
ReadZoneColdest(z) ==
    /\ pc = "zones" /\ z \in unseen /\ unseen' = unseen \ {z}
    /\ IF opt.zone \notin {NULL, z} THEN UNCHANGED <<temp, max_temp, zone>>
       ELSE /\ temp' = ZoneReading(z)
            /\ IF max_temp > ZoneReading(z) \/ max_temp = 0
               THEN max_temp' = ZoneReading(z) /\ zone' = z
               ELSE UNCHANGED <<max_temp, zone>>
    /\ UNCHANGED <<main, sensorsHost, cpu, worst>>

ReadZone(z) ==
    /\ pc = "zones" /\ z \in unseen /\ unseen' = unseen \ {z}
    /\ IF opt.zone \notin {NULL, z} THEN UNCHANGED <<temp, max_temp, zone>>
       ELSE /\ temp' = ZoneReading(z)
            /\ IF max_temp < ZoneReading(z) \/ max_temp = 0
               THEN max_temp' = ZoneReading(z) /\ zone' = z
               ELSE UNCHANGED <<max_temp, zone>>
    /\ UNCHANGED <<main, sensorsHost, cpu, worst>>

\* get_real_temp(): ten times the temperature in the unit asked for.
real_temp(t) == CASE opt.unit = "C" -> 10 * t
                  [] opt.unit = "F" -> 18 * t + 320
                  [] opt.unit = "K" -> 10 * t + 2731

\* The status of a temperature.
TemperatureStatus(t) ==
    get_status(real_temp(t), [warning |-> Scaled(opt.my_threshold.warning, 10),
                              critical |-> Scaled(opt.my_threshold.critical, 10)])

\* max_temp is returned as an int and taken as an unsigned long.  The critical trip
\* point is looked up when the verdict is made: if it cannot be read there is none.
JudgeTemperature ==
    /\ pc = "zones" /\ unseen = {}
    /\ IF zone = NULL \/ ~sensors.zones[zone].trip THEN GiveUp
       ELSE Exit(TemperatureStatus(unsigned(int(max_temp))))
    /\ UNCHANGED sensorsVars

SensorsPlugin ==
    \/ SensorsParseOptions \/ JudgeValue \/ JudgeFrequency
    \/ (\E z \in Zone : ReadZone(z)) \/ JudgeTemperature

SensorsNext == SensorsPlugin \/ FrequencyChanges

SensorsSpec == /\ opt \in SensorsOptions /\ PluginInit /\ SensorsInit
               /\ [][SensorsNext]_<<main, sensorsVars>>

-----------------------------------------------------------------------------
SensorsTypeOK ==
    /\ sensors \in SensorHosts /\ DOMAIN freq = DOMAIN sensors.freq
    /\ cpu \in 1 .. Len(freq) + 1 /\ worst \in Statuses \ {STATE_UNKNOWN}
    /\ freqchanges \in 0 .. MaxFreqChanges
    /\ unseen \subseteq Zone /\ zone \in Zone \cup {NULL}
    /\ temp \in 0 .. Word - 1 /\ max_temp \in 0 .. Word - 1

\* The zones asked for that are there, and those of them that can be read.
Asked == {z \in Zone : sensors.zones[z].there /\ opt.zone \in {NULL, z}}
Readable == {z \in Asked : sensors.zones[z].temp # NULL}

Hottest == Max({sensors.zones[z].temp : z \in Readable} \cup {0})

\* In whatever order the zones are met, and although an unreadable one leaves the
\* temperature of the zone before it, the temperature judged is the highest, and the
\* zone named has it, as long as none is below zero.
HottestZoneJudged ==
    /\ Judged /\ Runs({"temperature"})
    /\ \A z \in Readable : sensors.zones[z].temp >= 0
    => /\ exit = TemperatureStatus(Hottest)
       /\ zone \in Asked
       /\ Hottest = 0 \/ sensors.zones[zone].temp = Hottest

\* A CPU that keeps its frequency is judged by it, one that changes it by one of those
\* it had; the worst of them is the exit status.
FrequenciesJudged ==
    Judged /\ Runs({"cpufreq"}) =>
        LET statuses(c) == {get_status(f, opt.my_threshold) : f \in freqs[c] \ {0}}
        IN /\ \A c \in DOMAIN freq : 0 \notin freqs[c] => \E s \in statuses(c) : s <= exit
           /\ exit = STATE_OK \/ \E c \in DOMAIN freq : exit \in statuses(c)

\* A load is judged by the average that is worst off, each against its own limits and
\* for all the CPUs or for each; a clock by how far it is off, in either direction,
\* if that is less than half the range of an int.
ValuesJudged ==
    Judged =>
        /\ Runs({"load"}) =>
             LET over(bound) == \E k \in 1 .. 3 : /\ opt.loads[k] # NULL
                     /\ sensors.loadavg[k] > opt.loads[k][bound]
                            * (IF opt.normalize THEN sensors.cpus ELSE 1)
             IN exit = IF over("c") THEN STATE_CRITICAL
                       ELSE IF over("w") THEN STATE_WARNING ELSE STATE_OK
        /\ Runs({"clock"}) =>
             LET off == IF sensors.clock < opt.refclock THEN opt.refclock - sensors.clock
                        ELSE sensors.clock - opt.refclock
             IN off < IntWord \div 2 => exit = get_status(off, opt.my_threshold)

\* Each plugin judges the reading it is about: the hottest of the zones, the worst of the
\* CPUs and of the load averages, the distance of the clock.
ReadingsJudged == HottestZoneJudged /\ FrequenciesJudged /\ ValuesJudged

\* Why the exit status may be UNKNOWN.
SensorsReason ==
    \/ SensorsBadOptions
    \/ HostLacks
    \/ ~sensors.calls /\ Runs({"load", "uptime", "clock"})
    \/ /\ Runs({"temperature"})
       /\ Asked # {} => ~sensors.zones[zone].trip
=============================================================================
