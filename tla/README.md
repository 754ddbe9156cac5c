# A formal model of nagios-plugins-linux

This directory models the plugins of this repository in TLA+: each plugin is a
process that reads its options, obtains data from the kernel or from a service
that changes while it is being read, judges the data against thresholds, and
exits with one of four statuses. TLC checks the models on small instances, and
TLAPS proves their safety properties for every value of the constants.

What the whole project is about is one sentence: **the exit status is the one
the observed system deserves, or UNKNOWN for a reason**. Everything that makes
this hard is modelled: interrupted and partial transfers, counters that wrap or
run backwards, tables that change while they are read entry by entry, objects
that appear and vanish between two looks at them, threshold strings that parse in
unexpected ways.

## The system

Every plugin is a sequential program that runs once; nothing is persisted. The
concurrency is between the plugin and what it observes.

| part | state | operations | what is hard | what makes it correct |
|---|---|---|---|---|
| thresholds (`lib/thresholds.c`, `lib/perfdata.c`) | two ranges | parse, check, print limit | open, closed, inverted ranges; half-parsed pairs | the status is the one the strings mean; all or nothing |
| `check_multipath` | socket, buffer | connect, send, receive, judge | EINTR, short reads, daemon that dies, long answers | a verdict is that of one whole answer |
| `check_cpu`, `check_iowait` (`lib/cpustats.c`) | two sample buffers, idle debt | sample, subtract, judge | idle runs backwards, CPUs come and go | idle is accounted for, shares sum to the whole |
| `check_network*` (`lib/netinfo*.c`) | two lists of links | dump, pair, rate, judge | links come and go, counters wrap | a rate is that of one link; the worst link decides |
| `check_filecount` (`lib/files.c`, `lib/xstrton.c`) | counters of a walk | suffixes, walk, stat, age/size/type filters | files vanish during the walk; the end of a string | what is counted exists and matches |
| `check_container` (`lib/container.c`, `lib/collection.c`, `lib/json_helpers.c`) | table of images, counters | two HTTP requests, JSON search | containers stop between requests; keys collide | counts per image; memory between the least and the most |
| `check_intr`, `check_cswch`, `check_paging`, `check_pressure` (`lib/interrupts.c`, `lib/vminfo.c`, `lib/pressure.c`) | two readings of counters | read, sleep, subtract | columns move, names are missing, readings are of different moments | the growth of one counter between two readings |
| `check_fc` (`lib/sysfsparser.c`) | sums over ports | walk, read, sleep | ports come and go, links change | each port counted once; frames are those of the run |
| `check_memory`, `check_swap` (`lib/meminfo.c`, `lib/procparser.c`) | one reading | parse, compute | lines of different moments, unsigned subtraction, old kernels | what is used is near what was used |
| `check_temperature`, `check_cpufreq`, `check_load`, `check_uptime`, `check_clock` | one reading | read, judge | zones in any order, unreadable ones, minus signs | the value judged is the one asked for |
| `check_nbprocs`, `check_users` (`lib/processes.c`) | list of users, counter | walk `/proc`, read login records | processes exit during the walk | everyone steady is counted, the total is the sum |
| `check_tcpcount` (`lib/tcpinfo.c`) | counters by state | read two tables | odd lines, connections that move | every steady connection counted |
| `check_readonlyfs`, `check_ifmountfs` (`lib/mountlist.c`), `check_selinux` | list of mounts | open, list, select, report | mounts come and go, automounts, selection rules | what is mounted is found, what is read-only is reported |
| `check_cpu --cpuinfo` (`lib/cputopology.c`) | three counts | read masks per CPU | a CPU goes offline between two files | threads, cores and sockets multiply to the CPUs |

They interact only by calls: a plugin's `main()` calls one library file for the
data, `set_thresholds()` and `get_status()` for the verdict, and `plugin_error()`
to give up with UNKNOWN. So the models compose by `EXTENDS`: each plugin module
extends `Thresholds`.

## Modules

| module | models | form |
|---|---|---|
| `NagStatus` | the statuses, the null pointer | operators |
| `Thresholds` | `lib/thresholds.c`, `lib/perfdata.c` | operators, and a parser-free definition of what a string means |
| `ThresholdCheck` | the life of the thresholds inside a plugin, over `Plugin` | state machine |
| `PathReply` | what check_multipath makes of an answer | operators |
| `PathQuery` | what check_multipath promises | abstract specification |
| `Multipath` | check_multipath, the socket, the daemon | state machine, implements `PathQuery` |
| `CpuUsage` | check_cpu and check_iowait, `/proc/stat` | state machine |
| `Netinfo` | check_network and its four aliases, the kernel's links | state machine |
| `Suffixes` | `lib/xstrton.c` | operators |
| `FileCount` | check_filecount, the file system, other processes | state machine |
| `Collection` | the hash table of counters | operators, and the bag they promise |
| `Container` | check_container, the JSON search, the container engine | state machine |
| `Plugin` | what every plugin does alike: options, giving up, the verdict | variables and actions the next modules share |
| `VmInfo` | `lib/vminfo.c` over `lib/procparser.c`: the bisection of an unsorted table | operators |
| `CounterRate` | what a plugin that watches a counter promises | abstract specification |
| `Rates` | check_cswch, check_intr, check_paging, check_pressure, the kernel's counters | state machine, implements `CounterRate` |
| `Memory` | check_memory, check_swap, the pages and the text of `/proc/meminfo` | state machine |
| `Ports` | check_fc, the ports and their links | state machine |
| `Sensors` | check_load, check_uptime, check_clock, check_cpufreq, check_temperature | state machine |
| `Census` | what a plugin that counts who comes and goes promises | abstract specification |
| `Processes` | check_nbprocs, check_users, processes and sessions | state machine, implements `Census` |
| `TcpTable` | check_tcpcount, the sockets | state machine |
| `Mounts` | check_ifmountfs, check_readonlyfs, check_selinux, the mounts | state machine |
| `Topology` | check_cpu --cpuinfo, CPUs that go and come | state machine |
| `CommonLemmas` | facts about numbers, finite sets and sums over them, which the library lacks | proofs |
| `SamplesProofs` | theorems about `ThresholdCheck`, `Ports`, `Memory`, `Sensors` and `Rates` | proofs |
| `TablesProofs` | theorems about `Mounts`, `Processes`, `TcpTable` and `Topology` | proofs |
| the other `*Proofs` | theorems about the module of that name (`ContainerProofs`: about `Collection` too) | proofs |
| `MC*` | instances for TLC; `MCSamples` and `MCTables` compose several plugins on one host | constants, and for these two the composition |

```
NagStatus <- Thresholds <- CpuUsage                 <- CpuUsageProofs
                        <- Netinfo                  <- NetinfoProofs
                        <- Suffixes <- FileCount    <- FileCountProofs
                        <- Container -> Collection  <- ContainerProofs
                        <- CounterRate
                        <- Plugin <- ThresholdCheck, Ports, Memory, Sensors, Rates -> VmInfo
                                                    <- SamplesProofs
                                  <- Mounts, Processes, TcpTable, Topology
                                                    <- TablesProofs
          <- Census
          <- PathReply  <- Multipath                <- MultipathProofs
   CommonLemmas <- all the proofs but MultipathProofs
   Multipath == INSTANCE ==> PathQuery      Rates     == INSTANCE ==> CounterRate
                                            Processes == INSTANCE ==> Census
   MCSamples = Rates + Memory + Ports + Sensors
   MCTables  = Processes + TcpTable + Mounts + Topology
```

Conventions. A definition has the name of the C function or variable it
models. `pc` is the place in `main()`; each action is the code from one place
at which something outside the program can intervene (a system call, a sleep, a
turn of a loop over such calls) to the next. `exit` is the exit status,
`RUNNING` (-1) before. Definitions introduced as "A mutant" are what a plausible
bug would make of the definition that follows them or is named; no specification
uses them. They show that each checked property notices a bug: the table
"mutants" of `PROJECT.json` says which definition each replaces and which property
then fails. Ghost variables, which the code does not have, are named as such.

The modules over `Plugin` share `pc`, `opt` and `exit`: a host runs one plugin
at a time and `opt.program` says which, so that `MCSamples` and `MCTables` explore
all of them in one run, each with its own command lines and its own part of the
kernel; what the plugins that do not run would look at stays as it is.

### How states and actions correspond to the code

**Thresholds, ThresholdCheck.** A threshold string is a record of its parts (is
there an `@`, a colon, what stands left and right of it, a percent sign), since
the parser never looks at anything else; `strtod()` is modelled by what it makes
of each text, zero for junk included. `ThresholdCheck` is the skeleton every
plugin shares: `CheckOptions` is the test of the percent signs,
`ParseWarning` and `ParseCritical` are the halves of `set_thresholds()` (the
caller's pointer is assigned only after both), `Judge` is a turn of a loop
`status = max (status, get_status (...))`, `Return` the end. Its properties
compare it with `Alerts` and `WellFormed`, which read the string by its meaning
and without the parser.

**Multipath.** One action per system call outcome: `SendLen`, `SendQuery`,
`RecvLen`, `RecvBuf` move any number of units, `Interrupt` is `EINTR`,
`WriteFails` and `ReadFails` are the peer being gone (with `SIGPIPE` deadly or
ignored), `Check` the verdict. The daemon reads, computes one of `Replies`,
writes in pieces, and may close at any moment.

**CpuUsage.** `ParseOptions` is what precedes the first sample: the name of the
program, the options, sysfs, the percent signs, delay and count, `set_thresholds()`
(`BadOptions` has the command lines that give no verdict). `FirstSample`, `Sleep`,
`NextSample` are the loop of `check_cpu.c`, with its toggle, its two buffers, its
unsigned differences modulo `JiffMod` and its `(int)` casts modulo `IntMod`;
`Unusable` is what `cpu_stats_get_time()` gives up for. `Judge` is the loop over the
lines, and after the last one `cpu_desc_read()`, which may still fail when all has been
judged (`Answer`). The environment adds one of `Growths` to the lines during a sleep,
idle going backwards included, and CPUs may go offline or come back; a `host` may lack
sysfs, `/proc/stat`, its first line, or `/proc/cpuinfo`.

**Netinfo.** `Request`, `Recv`, `NewLink` and `Done` are a netlink dump:
`recvmsg()` returns a batch of links, and between two batches, between a message
and the `ioctl()`s that complete it, and between the two dumps, links appear,
vanish, lose their carrier and carry traffic (`Kernel`). `NoSocket` is a link that is
not completed because `socket()` fails. `Pair` is the loop
over both lists, `Judge` the loop over the first. Counters are `unsigned int`,
modulo `UintMod`; the ghost `total` keeps the untruncated count.

**Suffixes, FileCount.** A size or an age is its number in tenths, its suffix, and
two facts about the bytes behind it: whether characters follow, and what follows
the terminator in memory, which the code looks at too. The recursion of
`files_filecount()` is a stack of frames; a frame has the entries `readdir()` has
still to return (`todo`) and those it may return or not since they came or went
after `opendir()` (`maybe`). `ReadEntry` is a turn of its loop with all filters,
in their order. `Wanted` is what the usage promises, inequalities included; `Disputed`
names the entries the code leaves out against it or that it leaves open (see below).

**Collection, Container.** `ListContainers` is the first request, `Search` a turn
of the loop over the tokens of its answer, `Stats` a request for the statistics
of one container; between them containers start, stop, and use more or less
memory (`Engine`). The engine may also refuse, break the connection, or send
what cannot be parsed. The hash function is a constant: any function.

**Plugin, VmInfo, Rates.** One action of `Rates` is one reading of one file; the
sleeps and the gaps between readings are where `CountersGrow` and `Hotplug`
step. The first reading, the toggle of two buffers, the snapshots of
`/proc/interrupts` with a column per online CPU, and the order in which
"some" and "full" are read are those of the four `main()`s. `VmInfo` performs the
bisection of `procparser()` on `vmem_table` in the order of the source, so a name
is found exactly when the code finds it. `ImplementsCounterRate` maps the counter
judged, its last two readings and the exit status to `CounterRate`.

**Memory.** The kernel writes `/proc/meminfo` one line at a time (`WriteLine`) while
pages change their use (`MovePage`); `proc_sysmem_read` computes from the finished
text, with unsigned differences modulo `Word` and the fallbacks for kernels that
print no `MemAvailable`. The count `moved` of pages that changed their use is what
the properties allow the result to be off by.

**Ports.** `VisitPort` is `readdir()` returning a port and the look at its state,
`ReadFrames` the readings of a counter around the sleeps, `ReadErrors` the last
reading and the sums; `PortsChange` is a link going up or down, frames arriving,
a port appearing or vanishing. What `readdir()` has still to return is `todo` and
`maybe`, as in `FileCount`.

**Sensors.** Five plugins judge values as they are; what is hard is which one.
`JudgeValue` is check_load, check_uptime and check_clock, `JudgeFrequency` a turn of
the loop over the CPUs, `ReadZone` a turn of that over the thermal zones, in any
order, with what is kept from the zone before. A host may lack what one of them needs
(`HostLacks`: sysfs, thermal zones, a system call, what `cpu_desc_read()` reads).

**Processes, TcpTable, Mounts.** Each reads a table entry by entry, by the rules of
the kernel that makes it: `/proc` in the order of process numbers and in
buffers (`Readdir`, `ReadStatus`, `PassOver`), login records one by one
(`count_users`), sockets by their place in a hash table (`OpenTable`,
`procparser_tcp`), mounts in the order they were made (`OpenArgument`, `OpenMtab`,
`ReadMount`, then `FindSelinux`, `FindEnforce`, `ReadEnforce`). `ProcessesChange`,
`TcpChange` and `MountsChange` are processes that end and whose numbers are taken
again, connections, mounts and remounts, an automount when an argument is opened,
SELinux changing its mode. `JudgeMounts` is the verdict with all its filters.
`ImplementsCensus` maps whom the plugin counts to `Census`.

**Topology.** `ReadThreads` and `ReadCores` read the two files of one CPU, `ReadOnline`
asks for the number of CPUs at the end; between them a CPU may go or come (`PlugCpu`).

## What is checked

Every property of a passing run has a mutant that breaks it. Every run that
passes explores its whole state space. `EndsForAReason` is one temporal
property, `[]TypeOK /\ <>(pc = "exited" /\ UnknownHasAReason)`: the types hold, the
plugin ends, and UNKNOWN then has one of the reasons the definition lists.

| run | properties | shows | bounds |
|---|---|---|---|
| `thresholds` | `StatusIsDeserved`, `RefusedIffIllFormed`, `PerfdataLimitIsBoundary` | the status is the one the strings deserve, ill-formed strings are refused whole, a printed limit is where the status changes | every pair of strings over 4 texts a side (empty, `~`, 1, 3, and junk); values 0..4, so below, at, between and above the bounds; two items, enough for the maximum to matter |
| `multipath` | `VerdictFromWholeReply`, `UnknownHasAReason`, `BufferNotOverrun`, `Termination`, `Implements` | a verdict is that of one whole answer; giving up has a reason; the buffer is not overrun; the plugin ends; `PathQuery` is implemented | lengths of 3 units through a socket of 3: every split; answers shorter than, as long as, and longer than the buffer; 2 signals, so two in a row at any place |
| `cpu_usage` | `IdleAccounted`, `SharesWithinWhole`, `VerdictIsTrue`, `EndsForAReason` | idle time is accounted for, shares are parts of a whole, the verdict is that of the kernel's counts, and the plugin ends, with UNKNOWN exactly for one of its reasons, while CPUs go and come | 18 command lines: each refusal, the boundaries of delay and count, and the lines measured; a host with everything, and with each thing missing; 4 lines with a table for 3 (so one CPU is beyond it), at most 4 samples (3 sleeps: idle runs backwards twice and recovers), 2 hotplugs, `jiff` modulo 64, `int` modulo 32: a wrong sign wraps, a true count does not |
| `network` | `SnapshotsAgree`, `RatesExact`, `VerdictIsTrue`, `EndsForAReason` | both snapshots hold the links asked for; rates are exact over a wrap; the verdict is the worst one deserved; UNKNOWN has a reason | 11 command lines, 4 links of which two share a name, 3 kernel events at any point, counters modulo 64 starting just below it |
| `filecount` | `CountBracketed`, `CategoriesAddUp`, `UnknownHasAReason` | the total lies between the steady files and the chances to meet one; the categories add up; UNKNOWN has a reason | 10 command lines that together use every flag and sign, and a size and an age that some file has exactly, 10 entries on 3 levels and 2 directories, 3 sets of access rights, 2 files that come or go (so one can go and come back) |
| `container` | `TableIsBag`, `CountIsOfTheList`, `MemoryBracketed`, `EndsForAReason` | the table is the bag of what was found; the number is that of the list; memory is between the least and the most used | 9 command lines, 3 containers, keys that collide, 3 events |
| `samples` | `CpuRatesExact`, `PagingExact`, `FullWithinSome`, `MemoryNearTruth`, `OnlineBracketed`, `FramesOfTheRun`, `ReadingsJudged`, `ImplementsCounterRate`, `EndsForAReason` | twelve plugins that read values of `/proc` and `/sys`: what is judged and shown is what happened between the readings, as near as the code can know | 3 growths of the counters and 1 hotplug among 3 CPUs, one of whose columns is about to be full; 2 pages that change their use; 3 changes of 3 ports; 2 changes of a frequency; kernels and hosts of every layout the code provides for; `unsigned long` modulo 64, `int` modulo 32 |
| `tables` | `UsersAddUp`, `EstablishedBracketed`, `MountedIsFound`, `ReadonlyIsCritical`, `EnforcingIsOK`, `TopologyMultiplies`, `ImplementsCensus`, `EndsForAReason` | six plugins that read a table entry by entry: what is there all the time is counted or found, what never was is not | 2 changes of each table at any point (so that one can undo, or hide, the other); 4 process numbers and 3 login records, 4 places of sockets in each of two tables, 5 mounts of which one is an automount; 4 CPUs in 4 arrangements, `unsigned int` modulo 32 |

A bound is enough when one more repeats a case: the loops carry nothing from
one turn to the next beyond what the invariants name, and what they carry (the
idle debt, a partial transfer, the maximum, the zone before) is exercised by two
turns after the first. Where the theorems below reach, they lift the bounds.

### Where the code does something else than it says

Each of these runs checks one claim that a comment or the usage text makes, and
finds it violated by what the code does; `PROJECT.json` quotes the claims.

| run | claim | what happens |
|---|---|---|
| `network_tail` (`JudgedWasSampledTwice`) | rates are taken between two snapshots | when the last link goes away its totals since boot are judged as a rate |
| `filecount_size` (`AtLeastThisBig`) | a positive SIZE counts the files that are *at least this big* | `lib/files.c:103` asks for more than that: a file of exactly that size is not counted |
| `filecount_bare` (`MultiplierIsOptional`) | a multiplier *may* be added to a number | a number without one is refused when another argument, or the environment, follows it in memory: `lib/xstrton.c:133` looks one byte behind the end of the string |
| `readonlyfs_automount` (`AutomountedIsChecked`) | the arguments are opened so that what is automounted there is seen | the entry of autofs, skipped as a dummy, ends the search |

Disagreements and oddities seen while reading the code, for which there is no run:

* `lib/cpustats.c:94` exits with "BUG: lines <= cpunum + 1" whenever a listed CPU
  number is not below the number of configured CPUs (`BeyondTable`), and
  `lib/netinfo.c:74` with "bug in netinfo()" whenever a link comes or goes between
  the dumps (`Pair`): neither is a bug of the program. With `check_cpu -p`, the name
  of a CPU is looked up among those of the first of two buffers, so one that came
  online before the last sample is judged and not displayed.
* `include/netinfo.h:42-43`: `NO_COLLISIONS` and `NO_DROPS` are the same bit, so
  `--no-collisions` hides the drops from the list of `--ifname-debug` too. The speed
  of a link in bits wraps in 32 bits from 4295 Mbit/s on, so `--perc` is of another
  speed. `plugins/check_network.c:226`: the option string has no `r` and `t`, which the
  usage lists.
* `lib/files.c:197`: without `-r`, check_filecount counts a directory as of unknown
  type, and `-u` ("ignore file with type unknown") drops it. A file of exactly the AGE
  given is counted neither with nor without its sign, and the usage does not say with
  which it should be. `CountBracketed` promises the lower bound without these files and
  without those of exactly the size (`Disputed`, with one clause for each), and counts
  them as wanted in the upper one. The usage lists `--time`, which
  the long options lack. `lib/xstrton.c:66` drops what is left of a second or a byte:
  `-s 0.5b` is no filter at all and `-t -1.5` means -1, so `CountBracketed` has the
  premise that the age and the size are whole, or greater than one (`IsWhole`).
* `lib/container.c:92`: a label called `Image` counts as one more container; the
  properties of `Container` except it as `NoLabelClash`. `--image` is looked up as it
  is among short names, so a name with a slash is never found. What cannot be parsed
  gives an empty table, or a crash, not NULL (`ListUnparsable`).
* `lib/vminfo.c:209` says that the table must be in alphabetical order; it is not,
  and the bisection misses `pgsteal_dma`, `pgsteal_dma32`, `pgsteal_high`,
  `pgsteal_normal` and `pgsteal_direct_dma` (`VmInfo` finds what the code finds). The
  scans leave out the zone DMA32.
* `plugins/check_intr.c`: with a count of 1 the branch that shows each CPU is never
  taken, and a column of `/proc/interrupts` is not the number of a CPU once one is
  offline.
* `plugins/check_fc.c`: a port that vanishes between `readdir()` and its state makes
  the plugin read through a null pointer (`Crash`), and rates are not divided by the
  delay. `lib/meminfo.c:207`: a watermark that cannot be read is an uninitialised
  variable (`Uninitialized`).
* `plugins/check_nbprocs.c` and `check_selinux.c`: `-t` and `-P` are in the usage and not
  in the option strings.
* `lib/sysfsparser.c`: a temperature below zero is a huge unsigned number; a zone that
  cannot be read keeps the value of the one before; a zone selected that cannot be
  read is at 0 degrees; the type of the trip point is that of the last zone. The
  frequency check_cpufreq prints is read again and may not be the one it judged.
* `lib/tcpinfo.c:147`: a line that does not parse is counted under the state of the
  line before.
* `lib/cputopology.c`: the last CPU decides what is shown, so on a host with cores of
  several kinds the product is not the number of CPUs; when a mask vanishes between
  two looks, -1 is divided as an unsigned number.

### Fairness

A plugin is one process that runs: it is assumed to take a step that stays
possible (`WF_vars(Plugin)`, `WF_vars(Plugins)` in the two modules that compose
several; `WF_vars(Next)` in `CpuUsage`, whose kernel only moves during the
plugin's sleeps). `Multipath` also assumes `WF_vars(Daemon)`: a daemon that is up
goes on reading, answering and writing; nothing obliges it to close, and no
signal need come. `MCSamples` also assumes `WF_vars(Write)`: the kernel finishes the
text of `/proc/meminfo` it has begun, which is one system call. The code sets no
timeout anywhere, so without a daemon, engine or kernel that answers in the end
the plugin does wait forever; `Netinfo` keeps that case, a kernel that refuses a
dump and says so once, and its `EndsForAReason` excepts it. What the environment
does else (kernel, file, engine, table events) is bounded by named constants
(`MaxEvents`, `MaxGrowths`, `Hotplugs`, `MaxMoves`, `MaxPortEvents`, ...) and needs no
fairness. Violation runs are all of safety properties.

`CHECK_DEADLOCK FALSE` is set in every configuration: a plugin that has exited
takes no step, and neither need its environment.

## What is proved

The theorems hold for all values of the constants that satisfy the assumptions
named below. In each the invariant is the property together with what each place
of the program has established; it contains the type invariant of its module, and
the step that preserves it has one lemma per action.

**Assumptions.** They say what the constants are, so that the system observed is one
there may be, and nothing about the program; TLC evaluates each of them on a run.

| assumption | beyond the types of the constants |
|---|---|
| `NullAssumption` | no range and no string is the null pointer |
| `ConstantsAssumption` (`ThresholdCheck`), `PluginAssumption` | `Word` is even, as a power of two is |
| `MultipathAssumption` | sizes are not 0, no answer is the null pointer |
| `CpuAssumption` | a jiff is at least as wide as an int, and a multiple of it |
| `NetAssumption` | a speed unit is divisible by 16, as 1000 * 1000 is (percentages are of bits, halved for duplex); names are unique among the links there at boot, as the kernel demands |
| `FileAssumption` | a parent is a directory; the entries are finitely many and a tree below the directories given, which are distinct; what is there at the start has its directory |
| `HashAssumption`, `ContainerAssumption` | the hash is a number of a chain; there is no container without an id; null is no answer |
| `PortsAssumption` | ports are finitely many, and a port online is there |
| `MemoryAssumption` | the memory and what moves fit half a word; no more swap is free than there is |
| `SensorsAssumption` | temperatures fit an int; there is a CPU |
| `RatesAssumption` | CPUs are finitely many; "full" is within "some" at boot and in each growth, which is what the two lines mean; the kernel lists both counters of a pair or none, and `pgsteal` either as a total or by zones; a name listed has a count |
| `MountsAssumption`, `ProcessesAssumption`, `TcpAssumption` | tables are finite; a process number, a login record and a place are not 0 |
| `TopologyAssumption` | there is CPU 0, it stays; a core lies in one package; an unsigned int holds the number of CPUs |

**`SamplesProofs`**, thresholds (`ThresholdsTypeCorrect`, `StatusDeserved`,
`RefusedIllFormed`, `PerfdataLimit`): for every set of strings, number of items and
values. The lemmas show that the parser stores the range the string means, that
`check_range()` and `get_status()` on it raise the alerts the string means, and
that a maximum of statuses is the status of the worst value. `ThresholdsInv` says
what has been established at each `pc`: it is needed since `StatusIsDeserved` speaks
of the strings, and only what was stored at the places before connects them with
the ranges that are judged.

**`SamplesProofs`**, ports (`PortsTypeCorrect`, `OnlineIsBracketed`,
`FramesAreOfTheRun`): for any number of ports and of changes. `PortsInv` says that
there is a set of ports, the ones found online, which contains the visited ones that
were online all the time and only such as ever were, and whose size is `n_online`
(`Counts`), and that readings do not decrease (`Readings`), without which a port's
frames could be negative. `FramesInv` says the same of the totals: they are within
the sum, over some set of ports visited once (`IsAccount`), of what each got since
the start. The two sets differ, since a port that is offline in between is in one only.

**`SamplesProofs`**, memory (`NearTruth`): for every word that holds the memory and
every kernel. A line is written at one moment and the total at another; `Drifts`
says that each line written, and each sum of lines the code forms, is no further
from the present value than the pages moved since, so that no unsigned difference
wraps but those the code clamps. `Measured` carries this over to what is computed,
with the two kinds of kernel that print no `MemAvailable`.

**`SamplesProofs`**, single readings (`ReadingsAreJudged`): `Zones` says that the zone
kept is the hottest, or the selected one, of those met so far that could be read;
`WorstSoFar` that the status is one that a frequency some CPU met so far had
deserves, and none is worse.

**`SamplesProofs`**, counters (`RatesOfCPUs`, `PagesAsCounted`, `FullIsWithinSome`,
`RatesAreWatched`): for any number of readings, CPUs and growths. `Counted` says
which of the two buffers holds the last reading and which the one before: the
toggle. `Snapped` says that a snapshot holds, in the order of the CPUs online, the
counts at the reading of the total it belongs to, or that there is still nothing in
it. `VmemRead` says that both readings of `/proc/vmstat` went through the same table;
that the bisection in a table out of order returns the row of the name asked for, or
none, is shown once (`RowFound`: the rows it misses are the five named above), so what is
shown under a name is not another counter's. `PressureRead` orders the four readings
of two lines. The refinement of `CounterRate` maps each reading of the watched
counter to a reading there, the verdict to the verdict, and the other steps to
stutters.

**`MultipathProofs`** (`TypeCorrect`, `WholeReply`, `GivesUpForAReason`,
`NoOverrun`, `ImplementsPathQuery`): for every size of the length field, of the
query, the buffer and the socket, every set of answers and any number of
signals. The verdict alone is not inductive. `IInv` adds `Streams`: at each place
of `multipathd_query()`, what is in a socket is what one side wrote and the
other has not read. So when `total` reaches `len`, the daemon has written all
of its answer, and what is judged is all of it. The refinement maps each step to a
step of `PathQuery` or a stutter: the last `RecvBuf` is `Obtain`, `Check` is
`Decide`, every failure is `GiveUp`.

**`CpuUsageProofs`** (`IdleIsAccounted`, `SharesAreWithinWhole`, `VerdictTrue`,
`GivesUpForAReason`): for all
widths of `jiff` and `int`, numbers of CPUs and samples and behaviours of the kernel,
the last one without and the others with two premises about the kernel. `[]IdleStepsFit`: the idle time of a line,
together with its debt, changes by no more than an `int` holds between two samples.
Without it the first theorem is false, as the code is: `(int) didle` drops bits. For
the two others also `[]CountsAdvance`: what a line has counted fits a jiff, and its
counts but idle do not run backwards unless its CPU goes. The run `cpu_usage` shows
behaviours that satisfy both, with idle running backwards and CPUs going and coming in
them. A CPU that went in the last interval is the one case the two theorems except
(`Went`; `forward` is false for it): its counts are zeroes, its busy differences have
wrapped around, and the code judges it with them. `GivesUpForAReason` says *exactly
when*: `BadOptions` and `host` name every refusal of the code, from the name of the
program to `cpu_desc_read()`, and `ReasonInv` which of them has been ruled out at each
place. The heart of the
first is `DebtConserved`: casting an unsigned difference to `int`, adding the debt and
clamping neither loses nor adds. Of the others it is `IsDifference`: under the
premises no subtraction and no sum wraps, so the parts are parts of one whole.

**`NetinfoProofs`** (`TypeCorrect`, `RatesAreExact`, `SnapshotsDoAgree`,
`NetworkVerdict`, `GivesUpForAReason`): for any number of links, every modulus of the counters, every
traffic and command line. A rate compares two entries of two lists with a count that
goes on; `IInv` adds that what a list holds was a count of the past (`InThePast`),
that both are in the order of the indices (`InOrder`), that the pairs made so far are
of one link (`Pairing`), and that the second dump comes after the first one and the
delay (`Delayed`). `AgreeInv` adds what a dump holds between two batches: the links
asked for below the cursor, less those whose message is still to be handled
(`Batch`, `Dumped`). `VerdictInv` adds that the status is the worst of the links judged so
far, each by its untruncated counts, its speed and its percentage (`Judging`).

**`FileCountProofs`** (`TypeCorrect`, `CategoriesAccount`, `GivesUpForAReason`,
`CountsWhatIsThere`): for every tree, command line and sequence of creations and
removals. `GivesUpForAReason` needs `Held`, an invariant of the whole stack: what
`todo` holds is there, what `maybe` holds was there once, and both are entries of a
directory the walk gets to, so that `lstat()` fails only for an entry that went away and that the command line makes
the walk look at (`LookedAt`): an entry that is ignored never excuses UNKNOWN. `CountsWhatIsThere` needs a history
that the state does not hold: how often each entry was met. `CountInv` says that there
is one (`IsHistory`) that explains the total, which is the sum of the meetings of what
passes the filters; in which an entry was met at most once for each time it came, in
each walk of its directory (`AtMostOf`), what it may still be met included, so that
the bound survives the next meeting; and in which an entry that was there all the time
was met, or is still to be, if its directory was walked (`AtLeastOf`). It also says
that the stack is a path from the argument walked (`Chain`), so that no directory is
on it twice (`NoWayBack`), and that what was there all the time has a directory of
which that is true as well (`TreeThere`). Each kind of step names the next history.
The bounds follow from the last one by inductions from the top of the tree
(`TreeInduction`); that `Above` and `Chances`, which recurse on parents, have values at
all is `TreeRecursion`; and that a number with its multiplier means what the usage says
is `WantedMeans`. `Wanted` says what the usage says; that the code counts the wanted
entries but the disputed ones, and no others, is shown filter by filter.

**`ContainerProofs`** (`TypeCorrect`, `TableOfTheList`, `CountOfTheList`,
`MemoryIsOfTheList`, `GivesUpForAReason`): for every hash function and number of chains, all containers,
images and labels. That the table is a bag is not inductive by itself: `KeyedOnce`
says that no chain has a key twice and that a key has a node when it is in the list
of keys, and `PutKeepsBag` that `counter_put()` keeps both and adds one. The list the
engine sends is a recursive function of the containers; `NamesOfTheList` counts what
is to be found in it, by an induction that rests on the least counterexample
(`LeastNumber`), since the library's rule needs an operator as parameter. For the
memory, `SumEnclosed` says that the sum so far lies between the sums over the
containers asked so far (`AskedSoFar`) of the least and the most each used; at the end
these are the containers of the list, once each, by the bag.

**`TablesProofs`**, mounts (`MountsTypeCorrect`, `MountedFound`, `ReadonlyCritical`,
`EnforcingOK`): for every table, command line and sequence of mounts, remounts and
modes. `MountsInv` says that the ghosts enclose the table (`Enclosed`), that the list
read is truly of mounts that were there, with options they had, and misses none that
stayed (`ListedTruly`), what is known at each place (`Phase`), and what the verdicts
say (`Verdicts`).

**`TablesProofs`**, processes (`ListOfUsersAddsUp`, `ProcessesAreACensus`): for any
processes, threads and users. `ProcInv` says that there is a set `C` of what has been
counted (`IsTally`): it was there at some time, it is behind the cursor and no longer
buffered, what was there all the time is in it or still to come, its size is the
number, and each node of the list has the size of its user's part. `C` cannot be a
function of the state, since a process counted may be gone and its number taken
again; so it is under an existential quantifier, and each step of the proof names
the next one. The refinement of `Census` follows: its counted set is this one.

**`TablesProofs`**, sockets (`EstablishedTruly`): as for processes, over the places of
the two hash tables that were passed; a line that could not be read may count one
under the state of the line before (`BogusLines`), and none more.

**`TablesProofs`**, topology (`TopologyOfTheHost`): for any number of CPUs, arrangement
and hotplug. `OfTheHost` says that while nothing changed the numbers are those of the
host, which needs that its three quotients are exact (`HostNumbers`, from
`EqualClasses`: a set cut into classes of n elements has n elements for each);
`OfTheLast` that once the last CPU has been looked at, and it stays, the product of what
has been read is at most the CPUs ever online, although the three factors are of
three moments.

**UNKNOWN for a reason.** Every plugin promises to give up only for a reason it can
name: this is the safety half of `EndsForAReason` and of `UnknownHasAReason`. It is
proved for each of them: `GivesUpForAReason` in `MultipathProofs`, `CpuUsageProofs`,
`NetinfoProofs`, `FileCountProofs` and `ContainerProofs`, and besides
`RatesGiveUpForAReason`, `MemoryGivesUpForAReason`, `SensorsGiveUpForAReason`,
`PortsGiveUpForAReason` (`SamplesProofs`), `MountsGiveUpForAReason`,
`ProcessesGiveUpForAReason` and `TcpGivesUpForAReason` (`TablesProofs`). For `CpuUsage`,
`Rates`, `Memory`, `Sensors`, `Processes` and `TcpTable` it holds both ways: no verdict
when there is a reason. `check_cpu --cpuinfo` gives no verdict at all. The invariants
say which reasons have been ruled out at each place (`ReasonInv`, `RatesReasonInv`,
...), and more where the reason and the failure are of two moments: a port still to be
visited is there, or was when the walk began (`WasThere`); a thermal zone is named once
one asked for was met; a container without statistics is one of the list that has
stopped since (`NotRunning`); the dumps compared so far pair up, and no link judged so
far lacks the speed its percentage needs.

**Only model-checked.** Liveness: that the plugins end (the other half of
`EndsForAReason`, and `Termination`), which needs `ENABLED` and is not in the reach of
the prover used. The compositions `MCSamples` and `MCTables` are for TLC: the theorems
are about the specification of each plugin and its part of the kernel (`PortsSpec`,
`MemorySpec`, `TcpSpec`, ...), of which the compositions are the disjoint union by
`opt.program`.

## What is not modelled

* The text a plugin prints, except where a property is about it (performance
  data limits, the columns and frames shown).
* `getopt_long()`: the command lines are records of what it finds. `--help` and
  `--version`, which print and exit before anything is looked at.
* Failing allocation: `xmalloc()` exits with UNKNOWN. The properties that name the
  reasons of UNKNOWN are about a program that gets the memory it asks for.
* In `Multipath`, the words of an answer: a line is ready, blank or faulty. In
  `Netinfo`, `sysfs` and `ethtool` details of speed and duplex: a link has them or
  not. In `CpuUsage`, `nice`, `irq` and `softirq`, which the code only uses summed.
  In `FileCount`, time passing during the walk. In `Container`, the tokens of an
  answer that equal no key, and the encoding of the request. In `Rates`, one row of
  `/proc/interrupts` for all. In `Ports`, one counter of errors for five, and
  received frames for sent ones. In `Memory` and `TcpTable`, what is only printed.
* The text of `/proc/cpuinfo` that check_cpu prints beside the topology, the
  wrappers of `messages.c`, `xmalloc.c` and `string-macros.h`: single readings and
  text.
* The vendored JSON tokenizer, the packaging and the unit tests.
* A link that is deleted and made again under the same name (`lib/netinfo.c:74`):
  the code has no identity but the name, so nothing better can be claimed of it.

The hazards of the code, each at its line and with the properties that would
catch it going wrong, are in `PROJECT.json`. For nine of them no property would: the
models have the case, but what the code does then is either not claimed anywhere (the
verdict on an engine's error message, the value of an unreadable watermark, what a line
that does not parse counts for, a daemon that never answers, a netlink dump refused
silently, a link that is not the one of its name before) or known to be wrong (a plugin killed by SIGPIPE, a lost tenth digit, names the
bisection does not find), so that the properties except it and say so. Their notes
give the reason for each.

## Plan

Done: the thresholds, which every plugin uses; the plugins with a peer
(multipath) or a series of samples (CPU, network, counters, ports); the walks and
requests that race with what they look at (files, containers, processes, sockets,
mounts, CPUs); single readings; and a theorem for each safety property of the
passing runs.

What would come next: a refinement of `Census` by `TcpTable` and by `FileCount`, whose
histories are already in their invariants; the theorems of the compositions, from those
of the parts; and the text of `/proc/cpuinfo`.
