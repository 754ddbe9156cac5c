------------------------------- MODULE Memory -------------------------------
(***************************************************************************)
(* check_memory and check_swap (over lib/meminfo.c): how much of the       *)
(* memory is used, or available, while pages go from one use to another.   *)
(*                                                                         *)
(* The kernel fills /proc/meminfo line by line, each line with what it is  *)
(* at that time; procparser() finds the text finished.  Units only scale   *)
(* the output.                                                             *)
(***************************************************************************)
EXTENDS Plugin, Sequences

CONSTANTS
    PoolsAtBoot,        \* the uses of the pages, at the start
    Hosts,              \* the hosts there may be
    Uninitialized,      \* what a variable nobody set may hold
    MaxMoves,           \* bound: the pages that change their use
    MemoryOptions       \* the command lines

MemoryPrograms == {"memory", "swap"}

\* Pages are free, used by processes or the kernel, or reclaimable: file pages,
\* shared memory (counted as Cached, but not on the lists of file pages), block
\* device buffers (on the lists, but not Cached), and slabs.
Pools == {"free", "used", "file", "shmem", "buffers", "slab"}

\* All the pages there are.
Pages(p) == p["free"] + p["used"] + p["file"] + p["shmem"] + p["buffers"] + p["slab"]

\* meminfo, vmstat: whether /proc/meminfo and /proc/vmstat can be read; available:
\* whether there is a line MemAvailable; version: uname(), before or after 2.6.27;
\* min_free: min_free_kbytes, NULL if it cannot be read.
HostKind == [meminfo : BOOLEAN, vmstat : BOOLEAN, available : BOOLEAN,
             version : {"old", "new", "non-standard"},
             swap_total : Nat, swap_free : Nat, min_free : Nat \cup {NULL}]

\* percentages: whether each threshold carries a '%'.
MemoryCommandLine ==
    [program : MemoryPrograms, available : BOOLEAN, vmstats : BOOLEAN,
     units_ok : BOOLEAN, percentages : BOOLEAN, ranges_ok : BOOLEAN,
     my_threshold : Limits]

ASSUME MemoryAssumption ==
    /\ PoolsAtBoot \subseteq [Pools -> Nat] /\ PoolsAtBoot # {} /\ Hosts # {}
    /\ \A p \in PoolsAtBoot : Pages(p) + MaxMoves < Word \div 2
    /\ Hosts \subseteq HostKind /\ \A h \in Hosts : h.swap_free <= h.swap_total
    /\ Uninitialized \subseteq Nat /\ Uninitialized # {}
    /\ MaxMoves \in Nat /\ MemoryOptions \subseteq MemoryCommandLine

VARIABLES
    host, pool,     \* the kernel, the uses of its pages
    moved,          \* the pages that changed their use so far
    lines,          \* the lines of /proc/meminfo written so far
    sysmem          \* struct proc_sysmem_data

system == <<host, pool, moved>>
memoryVars == <<system, lines, sysmem>>

\* The lines that matter, in the order the kernel writes them.
Lines == <<"MemFree", "MemAvailable", "Buffers", "Cached", "File", "SReclaimable">>

NoMemory == [available |-> 0, used |-> 0]

MemoryInit ==
    /\ pool \in Either(MemoryPrograms, PoolsAtBoot)
    /\ host \in Either(MemoryPrograms, Hosts) /\ moved = 0
    /\ lines = <<>> /\ sysmem = NoMemory

-----------------------------------------------------------------------------
(* The kernel *)

\* check_swap does not look at the pages, and nobody does when the text is written.
MovePage ==
    /\ pc = "meminfo" /\ Runs({"memory"}) /\ Len(lines) < Len(Lines)
    /\ moved < MaxMoves /\ moved' = moved + 1
    /\ \E from \in Pools, to \in Pools :
         /\ from # to /\ pool[from] > 0
         /\ pool' = [pool EXCEPT ![from] = @ - 1, ![to] = @ + 1]
    /\ UNCHANGED <<main, host, lines, sysmem>>

\* "Active(file)" and "Inactive(file)" together.
FilePages == pool["file"] + pool["buffers"]
Reclaimable == pool["free"] + FilePages + pool["slab"]

\* The kernel's own estimate leaves out a part of what could be reclaimed.
ValueOf(line) ==
    CASE line = "MemFree" -> pool["free"]
      [] line = "MemAvailable" -> pool["free"] + FilePages \div 2
      [] line = "Buffers" -> pool["buffers"]
      [] line = "Cached" -> pool["file"] + pool["shmem"]
      [] line = "File" -> FilePages
      [] line = "SReclaimable" -> pool["slab"]

WriteLine ==
    /\ pc = "meminfo" /\ Len(lines) < Len(Lines)
    /\ lines' = Append(lines, ValueOf(Lines[Len(lines) + 1]))
    /\ UNCHANGED <<main, system, sysmem>>

-----------------------------------------------------------------------------
(* main *)

MemoryBadOptions ==
    ~opt.percentages \/ ~opt.ranges_ok \/ (Runs({"memory"}) /\ ~opt.units_ok)

\* procparser() opens the file.
MemoryParseOptions ==
    /\ pc = "options" /\ Runs(MemoryPrograms)
    /\ IF MemoryBadOptions \/ ~host.meminfo THEN GiveUp ELSE Goto("meminfo")
    /\ UNCHANGED memoryVars

Least(x, y) == IF x < y THEN x ELSE y

Line(name) == lines[CHOOSE k \in DOMAIN Lines : Lines[k] = name]

\* MemAvailable for kernels that do not have it.
Estimated(kb_min_free) ==
    LET watermark_low == unsigned(kb_min_free * 5) \div 4
        mem_available ==
            signed(Line("MemFree") - watermark_low
                   + Line("File") - Least(Line("File") \div 2, watermark_low)
                   + Line("SReclaimable")
                   - Least(Line("SReclaimable") \div 2, watermark_low))
    IN IF mem_available < 0 THEN 0 ELSE mem_available

\* What sysfsparser_getvalue() leaves in the variable: nobody looks at what it
\* returns, a file that cannot be read leaves it as it was.
kb_min_free == IF host.min_free = NULL THEN Uninitialized ELSE {host.min_free}

Available ==
    IF host.available THEN {Line("MemAvailable")}
    ELSE IF host.version = "old" THEN {Line("MemFree")}
    ELSE {Estimated(k) : k \in kb_min_free}

Total == Pages(pool)

\* A mutant: the buffers are taken for a part of the page cache.
UsedWithBuffers ==
    unsigned(Total - Line("MemFree") - (Line("Cached") + Line("SReclaimable")))

Used == unsigned(Total - Line("MemFree") - (Line("Cached") + Line("SReclaimable"))
                 - Line("Buffers"))

\* proc_sysmem_read(): linux_version() gives up on a version it cannot read.
proc_sysmem_read ==
    /\ pc = "meminfo" /\ Len(lines) = Len(Lines)
    /\ IF ~host.available /\ host.version = "non-standard"
       THEN GiveUp /\ UNCHANGED sysmem
       ELSE /\ \E a \in Available : sysmem' = [available |-> a, used |-> Used]
            /\ Goto(IF opt.vmstats THEN "vmstat" ELSE "verdict")
    /\ UNCHANGED <<system, lines>>

\* "--vmstats": /proc/vmstat is read twice, as in check_paging, for the performance
\* data only.
ReadVmstats ==
    /\ pc = "vmstat"
    /\ IF host.vmstat THEN Goto("verdict") ELSE GiveUp
    /\ UNCHANGED memoryVars

\* The pages that are judged: *kb_mem_monitored, kb_swap_used; and the whole.
Monitored == IF Runs({"swap"}) THEN host.swap_total - host.swap_free
             ELSE IF opt.available THEN sysmem.available ELSE sysmem.used
Whole == IF Runs({"swap"}) THEN host.swap_total ELSE Total

\* The percentage of a whole that is 0 is 0.
StatusOf(part, whole) ==
    IF whole = 0 THEN get_status(0, opt.my_threshold)
                 ELSE get_statusPercent(part, whole, opt.my_threshold)

JudgeMemory ==
    /\ pc = "verdict" /\ Runs(MemoryPrograms)
    /\ Exit(StatusOf(Monitored, Whole)) /\ UNCHANGED memoryVars

MemoryPlugin == \/ MemoryParseOptions \/ proc_sysmem_read \/ ReadVmstats \/ JudgeMemory

MemoryNext == MovePage \/ WriteLine \/ MemoryPlugin

MemorySpec == /\ opt \in MemoryOptions /\ PluginInit /\ MemoryInit
              /\ [][MemoryNext]_<<main, memoryVars>>

-----------------------------------------------------------------------------
MemoryTypeOK ==
    /\ pool \in [Pools -> Nat] /\ host \in Hosts /\ moved \in 0 .. MaxMoves
    /\ Len(lines) \in 0 .. Len(Lines) /\ \A k \in DOMAIN lines : lines[k] \in Nat
    /\ sysmem.available \in 0 .. Word - 1 /\ sysmem.used \in 0 .. Word - 1

\* The distance of two numbers, and of an unsigned one from a number.
Apart(x, y) == IF x < y THEN y - x ELSE x - y

\* "Used" is a difference of lines written one after the other: it is off by no more
\* than the pages that changed their use meanwhile (and may wrap around when they
\* are more than the used ones).  When none did, the verdict is the true one.
UsedNearTruth ==
    Judged /\ Runs({"memory"}) =>
        /\ Apart(signed(sysmem.used), pool["used"]) <= moved
        /\ (moved = 0 /\ ~opt.available) => exit = StatusOf(pool["used"], Total)

\* "Available" is never more than what is free or may be reclaimed, the pages that
\* moved meanwhile apart; the file pages and the slabs that are counted are at least
\* half of what there is, unless less than the watermark is free.  All this unless
\* min_free_kbytes was needed and could not be read.
AvailableWithinReclaimable ==
    /\ Judged /\ Runs({"memory"})
    /\ host.min_free # NULL \/ host.available \/ host.version = "old"
    => /\ sysmem.available <= Reclaimable + moved
       /\ (~host.available /\ host.version = "new"
           /\ (host.min_free * 5) \div 4 <= Line("MemFree")) =>
            sysmem.available + moved >= (Reclaimable - pool["free"]) \div 2

\* What check_memory judges is near what was there, although the lines of /proc/meminfo
\* were written one after the other.
MemoryNearTruth == UsedNearTruth /\ AvailableWithinReclaimable

\* Why the exit status may be UNKNOWN.
MemoryReason ==
    \/ MemoryBadOptions \/ ~host.meminfo
    \/ (~host.available /\ host.version = "non-standard")
    \/ opt.vmstats /\ ~host.vmstat
=============================================================================
