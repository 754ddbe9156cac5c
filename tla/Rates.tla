------------------------------- MODULE Rates -------------------------------
(***************************************************************************)
(* The plugins that read counters of the kernel twice and judge the rate:  *)
(* check_cswch, check_intr (with the interrupts of each CPU), check_paging *)
(* and check_pressure.  sleep() is a time in which the kernel may step, as *)
(* it may between any two readings; counters stay below 2^64.              *)
(*                                                                         *)
(* One row stands for all of /proc/interrupts: a column for each CPU that  *)
(* is online when it is read.                                              *)
(***************************************************************************)
EXTENDS Plugin, VmInfo, FiniteSets

CONSTANTS
    Stats,              \* the counters of the kernel
    StatsAtBoot,        \* and their first values
    Growths,            \* what they may grow by in one step
    CPU,                \* the CPUs, numbered from 0
    IrqAtBoot, IrqGrowths,  \* the interrupts each CPU served, and their growth
    NineDigits,         \* 10^9: a count that fills its column is not below it
    Junk,               \* what strtoul() finds where a column is missing
    Layouts,            \* the names and files a kernel may have
    Hotplugs,           \* bound: how often a CPU comes or goes
    MaxGrowths,         \* bound: how often the counters grow
    RatesOptions        \* the command lines

RatesPrograms == {"cswch", "intr", "paging", "pressure"}
Resources == {"none", "cpu", "io", "mem"}

\* ranges_ok: whether the thresholds parse.
RatesCommandLine ==
    [program : RatesPrograms, delay : Int, count : Int, swapping_only : BOOLEAN,
     resource : Resources, full : BOOLEAN, ranges_ok : BOOLEAN, my_threshold : Limits]

\* What a line of a file of pressures has been read into; NULL if it has not.
PressureReading == [some : Nat \cup {NULL}, full : Nat \cup {NULL}]

\* A kernel lists both counters of a pair or none, and the pages reclaimed either in
\* one count or by zone.
ASSUME RatesAssumption ==
    /\ {"ctxt", "intr", "some", "full"} \subseteq Stats
    /\ StatsAtBoot \subseteq [Stats -> Nat] /\ Growths \subseteq [Stats -> Nat]
    /\ CPU \subseteq Nat /\ IsFiniteSet(CPU)
    /\ IrqAtBoot \subseteq [CPU -> Nat] /\ IrqGrowths \subseteq [CPU -> Nat]
    /\ NineDigits \in Nat \ {0} /\ Junk \subseteq Nat
    /\ \A s \in StatsAtBoot : s["full"] <= s["some"]
    /\ \A g \in Growths : g["full"] <= g["some"]
    /\ \A l \in Layouts :
          /\ l \cap Slots \subseteq Stats /\ "none" \notin l
          /\ "pgpgin" \in l <=> "pgpgout" \in l
          /\ "pswpin" \in l <=> "pswpout" \in l
          /\ "pgsteal" \in l => ForAllZones("pgsteal") \cap l = {}
    /\ {"pgpgin", "pgpgout", "pswpin", "pswpout"} \subseteq Stats
    /\ NULL \notin Nat /\ NULL \notin VmReading /\ NULL \notin PressureReading
    /\ MaxGrowths \in Nat /\ Hotplugs \in Nat
    /\ RatesOptions \subseteq RatesCommandLine

VARIABLES
    stat, irq, online,  \* the kernel: its counters, its CPUs,
    listed, grown, plugged, \* the names it lists, the steps it took so far
    i, tog, buf,        \* the readings: their number, the toggle, the two buffers
    vintr, ncpus,       \* the two snapshots of the interrupts of each CPU
    seen                \* ghost: the kernel at each of two readings or snapshots

kernel == <<stat, irq, online, listed, grown, plugged>>
readings == <<i, tog, buf, vintr, ncpus, seen>>
ratesVars == <<kernel, readings>>

NoReading == [some |-> NULL, full |-> NULL]

RatesInit ==
    /\ stat \in Either(RatesPrograms, StatsAtBoot)
    /\ irq \in Either(RatesPrograms, IrqAtBoot) /\ online = CPU
    /\ listed \in Either(RatesPrograms, Layouts) /\ grown = 0 /\ plugged = 0
    /\ i = 0 /\ tog = 0 /\ buf = [b \in {0, 1} |-> NULL]
    /\ vintr = [b \in {0, 1} |-> <<>>] /\ ncpus = [b \in {0, 1} |-> 0]
    /\ seen = [b \in {0, 1} |-> NULL]

-----------------------------------------------------------------------------
(* The kernel *)

Reading == pc \notin {"options", "exited"}

\* The CPUs serve interrupts while somebody reads their number.
CountersGrow ==
    /\ Reading /\ Runs(RatesPrograms) /\ grown < MaxGrowths /\ grown' = grown + 1
    /\ \E g \in Growths : stat' = [s \in Stats |-> stat[s] + g[s]]
    /\ IF Runs({"intr"})
       THEN \E g \in IrqGrowths :
              irq' = [c \in CPU |-> IF c \in online THEN irq[c] + g[c] ELSE irq[c]]
       ELSE UNCHANGED irq
    /\ UNCHANGED <<main, online, listed, plugged, readings>>

Hotplug ==
    /\ Reading /\ Runs({"intr"}) /\ plugged < Hotplugs /\ plugged' = plugged + 1
    /\ \E c \in CPU \ {0} :
         online' = IF c \in online THEN online \ {c} ELSE online \cup {c}
    /\ UNCHANGED <<main, stat, irq, listed, grown, readings>>

\* The ghost remembers what the kernel had when something was read.
See(b) == seen' = [seen EXCEPT ![b] = [stat |-> stat, irq |-> irq, online |-> online]]

-----------------------------------------------------------------------------
(* main *)

RatesBadOptions ==
    \/ ~opt.ranges_ok
    \/ ~Runs({"paging"}) /\ BadDelay(opt.delay)
    \/ Runs({"cswch", "intr"}) /\ BadCount(opt.count)
    \/ Runs({"pressure"}) /\ opt.resource = "none"
    \/ Runs({"pressure"}) /\ opt.resource = "cpu" /\ opt.full

RatesParseOptions ==
    /\ pc = "options" /\ Runs(RatesPrograms)
    /\ IF RatesBadOptions THEN GiveUp ELSE Goto("read")
    /\ UNCHANGED ratesVars

\* get_ctxtdelta, get_intrdelta: cpu_stats_get_value_with_pattern().
Pattern == IF Runs({"cswch"}) THEN "ctxt" ELSE "intr"

\* A mutant: the first snapshot is the one before the loop for three readings too.
SnapshotAfterFirst(k) ==
    IF k = 0 THEN (IF opt.count <= 3 THEN {0} ELSE {})
    ELSE IF k = opt.count - 2 /\ k # 1 THEN {0}
    ELSE IF k = opt.count - 1 THEN {1} ELSE {}

\* The snapshot of the interrupts that follows reading k, if any.
SnapshotAfter(k) ==
    IF k = 0 THEN (IF opt.count <= 2 THEN {0} ELSE {})
    ELSE IF k = opt.count - 2 THEN {0}
    ELSE IF k = opt.count - 1 THEN {1} ELSE {}

\* Where the sampling loop goes after n readings.
Loop(n) == IF n < opt.count THEN "read" ELSE "judge"

\* A mutant: the toggle stays where it is.
ReadCounterNoToggle ==
    /\ pc = "read" /\ Runs({"cswch", "intr"})
    /\ IF Pattern \notin listed THEN GiveUp /\ UNCHANGED readings
       ELSE /\ buf' = [buf EXCEPT ![IF i < 2 THEN i ELSE 1] = stat[Pattern]]
            /\ tog' = (IF i < 2 THEN i ELSE 1) /\ i' = i + 1
            /\ Goto(IF Runs({"intr"}) /\ SnapshotAfter(i) # {}
                    THEN "count" ELSE Loop(i + 1))
            /\ UNCHANGED <<vintr, ncpus, seen>>
    /\ UNCHANGED kernel

\* The first reading goes to buffer 0, each of the others to the other buffer.
ReadCounter ==
    /\ pc = "read" /\ Runs({"cswch", "intr"})
    /\ IF Pattern \notin listed THEN GiveUp /\ UNCHANGED readings
       ELSE LET t == IF i = 0 THEN 0 ELSE 1 - tog
            IN /\ buf' = [buf EXCEPT ![t] = stat[Pattern]]
               /\ tog' = t /\ i' = i + 1
               /\ Goto(IF Runs({"intr"}) /\ SnapshotAfter(i) # {}
                       THEN "count" ELSE Loop(i + 1))
               /\ UNCHANGED <<vintr, ncpus, seen>>
    /\ UNCHANGED kernel

(* proc_interrupts_get_nintr_per_cpu *)

Snapshot == CHOOSE k \in SnapshotAfter(i - 1) : TRUE

\* A mutant: a host without /proc/interrupts is waited for.
CountOnlineRetry ==
    /\ pc = "count"
    /\ IF "interrupts" \notin listed
       THEN Goto("count") /\ UNCHANGED ncpus
       ELSE /\ ncpus' = [ncpus EXCEPT ![Snapshot] = Cardinality(online)]
            /\ Goto("columns")
    /\ UNCHANGED <<kernel, i, tog, buf, vintr, seen>>

\* fopen() and get_processor_number_online(): the number of CPUs is counted before
\* the columns are read.
CountOnline ==
    /\ pc = "count"
    /\ IF "interrupts" \notin listed
       THEN Goto(Loop(i)) /\ UNCHANGED ncpus
       ELSE /\ ncpus' = [ncpus EXCEPT ![Snapshot] = Cardinality(online)]
            /\ Goto("columns")
    /\ UNCHANGED <<kernel, i, tog, buf, vintr, seen>>

\* The CPU of a column.
CpuOf(column) == CHOOSE c \in online : Cardinality({o \in online : o < c}) = column

\* What strtoul() makes of a column: "p = end + 1" is already in the next one if
\* that is full, and its first digit is lost.
strtoul(column) ==
    IF column = 0 THEN irq[CpuOf(column)] ELSE irq[CpuOf(column)] % NineDigits

ReadColumns ==
    /\ pc = "columns"
    /\ \E junk \in Junk :
         vintr' = [vintr EXCEPT ![Snapshot] =
             [n \in 0 .. ncpus[Snapshot] - 1 |->
                 IF n < Cardinality(online) THEN strtoul(n) ELSE junk]]
    /\ See(Snapshot)
    /\ Goto(Loop(i))
    /\ UNCHANGED <<kernel, i, tog, buf, ncpus>>

-----------------------------------------------------------------------------
(* get_paging_status *)

\* Two turns, a reading in each; the toggle is left for the next one.
ReadVmem ==
    /\ pc = "read" /\ Runs({"paging"})
    /\ IF "vmstat" \notin listed THEN GiveUp /\ UNCHANGED readings
       ELSE /\ buf' = [buf EXCEPT ![tog] = proc_vmem_read(stat, listed)]
            /\ tog' = 1 - tog /\ i' = i + 1
            /\ See(tog) /\ Goto(IF i + 1 < 2 THEN "read" ELSE "judge")
            /\ UNCHANGED <<vintr, ncpus>>
    /\ UNCHANGED kernel

\* The differences: the buffers' numbers tell their order.
Paging == [name \in DOMAIN buf[0] |-> buf[1][name] - buf[0][name]]

-----------------------------------------------------------------------------
(* proc_psi_read_cpu and proc_psi_read: "some" is read, and "full" after it *)

Files == [cpu |-> "psi_cpu", io |-> "psi_io", mem |-> "psi_mem"]

\* proc_psi_parser: the file is opened for each of the two lines.
ReadPressure(line, next) ==
    /\ IF Files[opt.resource] \notin listed THEN GiveUp /\ UNCHANGED readings
       ELSE /\ buf' = [buf EXCEPT ![tog] =
                   [(IF @ = NULL THEN NoReading ELSE @) EXCEPT ![line] = stat[line]]]
            /\ tog' = (IF next = "full" THEN tog ELSE 1) /\ i' = i + 1
            /\ IF line = "some" THEN See(tog) ELSE UNCHANGED seen
            /\ Goto(next)
            /\ UNCHANGED <<vintr, ncpus>>
    /\ UNCHANGED kernel

AfterPair == IF tog = 0 THEN "read" ELSE "judge"

ReadSome ==
    /\ pc = "read" /\ Runs({"pressure"})
    /\ ReadPressure("some", IF opt.resource = "cpu" THEN AfterPair ELSE "full")

ReadFull == pc = "full" /\ ReadPressure("full", AfterPair)

\* A mutant: the growth is not divided by the delay.
StarvationInAll(line) == buf[1][line] - buf[0][line]

Starvation(line) == (buf[1][line] - buf[0][line]) \div opt.delay

-----------------------------------------------------------------------------
(* The verdict *)

\* The number that is judged.
Result ==
    CASE Runs({"cswch", "intr"}) ->
           (IF i = 1 THEN buf[0] ELSE (buf[tog] - buf[1 - tog]) \div opt.delay)
      [] Runs({"paging"}) ->
           (IF opt.swapping_only THEN Paging.pswpin + Paging.pswpout
                                 ELSE Paging.pgmajfault)
      [] Runs({"pressure"}) -> Starvation(IF opt.full THEN "full" ELSE "some")

JudgeRate ==
    /\ pc = "judge" /\ Runs(RatesPrograms)
    /\ Exit(get_status(Result, opt.my_threshold)) /\ UNCHANGED ratesVars

RatesPlugin ==
    \/ RatesParseOptions \/ ReadCounter \/ CountOnline \/ ReadColumns
    \/ ReadVmem \/ ReadSome \/ ReadFull \/ JudgeRate

RatesNext == RatesPlugin \/ CountersGrow \/ Hotplug

-----------------------------------------------------------------------------
RatesTypeOK ==
    /\ stat \in [Stats -> Nat] /\ irq \in [CPU -> Nat] /\ online \subseteq CPU
    /\ listed \in Layouts /\ grown \in 0 .. MaxGrowths /\ plugged \in 0 .. Hotplugs
    /\ i \in Nat /\ tog \in {0, 1} /\ DOMAIN buf = {0, 1}
    /\ \A b \in {0, 1} : /\ ncpus[b] \in 0 .. Cardinality(CPU)
                         /\ \A n \in DOMAIN vintr[b] : vintr[b][n] \in Nat

RatesSpec == /\ opt \in RatesOptions /\ PluginInit /\ RatesInit
             /\ [][RatesNext]_<<main, ratesVars>>

\* The counter that is judged, in a kernel or in a buffer.
JudgedOf(reading) ==
    CASE reading = NULL -> NULL
      [] reading # NULL /\ Runs({"cswch", "intr"}) -> reading
      [] reading # NULL /\ Runs({"paging"}) ->
           (IF opt.swapping_only THEN reading.pswpin + reading.pswpout
                                 ELSE reading.pgmajfault)
      [] reading # NULL /\ Runs({"pressure"}) ->
           (IF opt.full THEN reading.full ELSE reading.some)

JudgedCounter ==
    CASE Runs({"cswch", "intr"}) -> stat[Pattern]
      [] Runs({"paging"}) -> JudgedOf(proc_vmem_read(stat, listed))
      [] Runs({"pressure"}) -> stat[IF opt.full THEN "full" ELSE "some"]
      [] OTHER -> 0

\* The buffers in the order they were filled.
Reached(b) == IF Runs(RatesPrograms) THEN JudgedOf(buf[b]) ELSE NULL
Latest == IF Runs({"cswch", "intr"}) THEN tog
          ELSE IF Reached(1) # NULL THEN 1 ELSE 0

Watched == INSTANCE CounterRate WITH
    counter <- JudgedCounter, last <- Reached(Latest), prev <- Reached(1 - Latest),
    delay <- IF Runs(RatesPrograms \ {"paging"}) THEN opt.delay ELSE 1,
    ranges <- opt.my_threshold,
    verdict <- IF Runs(RatesPrograms) THEN exit ELSE RUNNING

\* Each of the four plugins judges the growth per second of its counter between
\* the last two readings, whatever else it reads in between and whichever buffer
\* holds which reading.
ImplementsCounterRate == Watched!Spec

\* The columns of /proc/interrupts that are printed.
PrintedColumns == 0 .. (IF ncpus[0] < ncpus[1] THEN ncpus[0] ELSE ncpus[1]) - 1

intr_cpu(n) == (vintr[1][n] - vintr[0][n]) \div opt.delay

\* No column is printed that one of the snapshots does not have; and when the
\* same CPUs are online all the time, and the counts leave a blank between the
\* columns, column n is the growth per second of the n-th of them, between the last
\* two readings of the total.
CpuRatesExact ==
    Judged /\ Runs({"intr"}) => \A n \in PrintedColumns :
        /\ n \in DOMAIN vintr[0] \cap DOMAIN vintr[1]
        /\ LET c == CpuOf(n)
           IN /\ plugged = 0
              /\ n = 0 \/ seen[1].irq[c] < NineDigits
              => /\ intr_cpu(n) = (seen[1].irq[c] - seen[0].irq[c]) \div opt.delay
                 /\ buf[1 - tog] <= seen[0].stat["intr"]
                 /\ seen[0].stat["intr"] <= buf[tog]

\* The names of the counters that are shown as they are, and the line of an old
\* /proc/stat some are found in.
PagingLines == [pgpgin |-> "page", pgpgout |-> "page", pswpin |-> "swap",
                pswpout |-> "swap", pgfault |-> "none", pgmajfault |-> "none",
                pgfree |-> "none", pgsteal |-> "none"]

\* A counter of check_paging that the kernel lists, under its own name or in the
\* lines of an old /proc/stat, is shown with its growth between the two readings.
PagingExact ==
    Judged /\ Runs({"paging"}) => \A name \in DOMAIN PagingLines :
        {name, PagingLines[name]} \cap listed # {} =>
            Paging[name] = seen[1].stat[name] - seen[0].stat[name]

\* The kernel never stalls all tasks without stalling some: what is shown as "full"
\* is within the growth of "some" over the whole run, although the two lines are
\* read one after the other.  (The "some" that is shown may be less.)
FullWithinSome ==
    Judged /\ Runs({"pressure"}) /\ opt.resource # "cpu" =>
        Starvation("full") * opt.delay <= stat["some"] - seen[0].stat["some"]

\* Why the exit status may be UNKNOWN: an option, or a file or line that is missing.
RatesReason ==
    \/ RatesBadOptions
    \/ Runs({"cswch", "intr"}) /\ Pattern \notin listed
    \/ Runs({"paging"}) /\ "vmstat" \notin listed
    \/ Runs({"pressure"}) /\ Files[opt.resource] \notin listed
=============================================================================
