------------------------------ MODULE CpuUsage ------------------------------
(***************************************************************************)
(* check_cpu and check_iowait (plugins/check_cpu.c over lib/cpustats.c):   *)
(* the plugin samples the "cpu" lines of /proc/stat, sleeps, samples again *)
(* into the other of two buffers, turns the differences into shares of the *)
(* elapsed time, and judges every line by the last differences.            *)
(*                                                                         *)
(* Line 0 is "cpu ", line n + 1 is "cpun".  The kernel advances the lines  *)
(* independently of each other, which is more than it really does (line 0  *)
(* is the sum of the others), and while CPUs come and go.  The tick counts *)
(* of a line are kept as five: user stands for user + nice and system for  *)
(* system + irq + softirq, which the code only ever uses summed.           *)
(*                                                                         *)
(* jiff is unsigned (modulo JiffMod, 2^64 in the code) and the idle debt   *)
(* is an int (modulo IntMod, 2^32): both moduli are parameters.            *)
(***************************************************************************)
EXTENDS Thresholds

CONSTANTS
    JiffMod, HalfInt,   \* the moduli of jiff and of int (2 * HalfInt)
    LastLine,           \* the highest line the kernel may ever list
    NConf,              \* get_processor_number_total()
    Boot,               \* the tick counts a line may start with
    Growths,            \* what the ticks of the lines may do during a sleep
    MaxHotplugs,        \* bound: how often CPUs go or come between two samples
    CpuHosts,           \* the hosts there may be
    CommandLines,       \* the command lines
    DELAY_MAX, COUNT_MAX

Fields == {"user", "system", "idle", "iowait", "steal"}
Lines == 0 .. LastLine
IntMod == 2 * HalfInt
TicksOf(S) == [user : S, system : S, idle : S, iowait : S, steal : S]
Ticks == TicksOf(0 .. JiffMod - 1)

\* Whether sysfs is mounted, /proc/stat can be read and has the line "cpu ", and
\* /proc/cpuinfo can be read.
CpuHost == [sysfs : BOOLEAN, stat : BOOLEAN, cpu : BOOLEAN, cpuinfo : BOOLEAN]

\* name: what follows "check_" in the program's name, "other" if the name is not of that
\* form; known: no unknown option; summary: -i; percentages, ranges_ok: the thresholds
\* have percent signs and can be parsed; numbers: delay and count are numbers.
IsCommandLine(line) ==
    /\ line.name \in {"cpu", "iowait", "other"}
    /\ line.delay \in Int /\ line.count \in Int
    /\ \A flag \in {"known", "summary", "percentages", "ranges_ok", "numbers", "per_cpu"} :
          line[flag] \in BOOLEAN

ASSUME CpuAssumption ==
    /\ HalfInt \in Nat \ {0} /\ JiffMod \in Nat /\ IntMod <= JiffMod
    /\ JiffMod % IntMod = 0
    /\ LastLine \in Nat \ {0} /\ NConf \in Nat \ {0}
    /\ Boot \subseteq Ticks /\ Growths \subseteq [Lines -> TicksOf(Int)]
    /\ MaxHotplugs \in Nat
    /\ CpuHosts \subseteq CpuHost /\ \A line \in CommandLines : IsCommandLine(line)
    /\ DELAY_MAX \in Nat /\ COUNT_MAX \in Nat

VARIABLES
    pc, options,            \* main(), its command line
    i, tog, cpuv,           \* the loop, its toggle and its two buffers
    d, ratio, debt,         \* duser .. dsteal, their sum, and the idle debt
    c, status, exit,        \* the loop over the lines, the verdict
    ticks, listed, host,    \* the kernel: counts, lines shown, what can be read
    hotplugs,               \* how often the CPUs changed
    idle0, accounted,       \* ghosts: first idle count, idle time reported,
    forward                 \* did the line run forward, with no debt, last time

kernel  == <<ticks, listed, host, hotplugs>>
samples == <<i, tog, cpuv, d, ratio, debt, idle0, accounted, forward>>
verdict == <<c, status, exit>>
vars == <<pc, options, samples, verdict, kernel>>

count == options.count
per_cpu == options.per_cpu

\* "strncmp (p, "iowait", 6) ? duser : diowait".
cpu_value == IF options.name = "iowait" THEN "iowait" ELSE "user"

ncpus == IF per_cpu THEN NConf + 1 ELSE 1
Table == 0 .. ncpus - 1

\* Unsigned arithmetic, and the cast (int).
jiff(x) == x % JiffMod
int(x) == LET y == x % IntMod IN IF y < HalfInt THEN y ELSE y - IntMod

-----------------------------------------------------------------------------
(* cpu_stats_get_time *)

ZeroTicks == [user |-> 0, system |-> 0, idle |-> 0, iowait |-> 0, steal |-> 0]
NoEntry == [cpuname |-> FALSE, t |-> ZeroTicks]

\* The table after memset() and the lines read; with one entry the loop stops
\* at line 0.  Lines the kernel does not show keep their zeroes.
cpu_stats_get_time ==
    [l \in Table |->
        IF l = 0 \/ l \in listed THEN [cpuname |-> TRUE, t |-> ticks[l]]
                                 ELSE NoEntry]

\* A mutant: the bound of the table is off by one.
BeyondTableOffByOne == ncpus > 1 /\ \E l \in listed : l > ncpus

\* "lines <= cpunum + 1": a CPU the table has no entry for.
BeyondTable == ncpus > 1 /\ \E l \in listed : ncpus <= l

-----------------------------------------------------------------------------
\* The CPUs that may be online: one at least.
Online == SUBSET (Lines \ {0}) \ {{}}

Init ==
    /\ pc = "options"
    /\ options \in CommandLines /\ host \in CpuHosts
    /\ i = 1 /\ tog = 0
    /\ cpuv = [b \in {0, 1} |-> [l \in Table |-> NoEntry]]
    /\ d = [l \in Table |-> ZeroTicks]
    /\ ratio = [l \in Table |-> 0] /\ debt = [l \in Table |-> 0]
    /\ c = 0 /\ status = STATE_OK /\ exit = RUNNING
    /\ ticks \in [Lines -> Boot]
    /\ listed \in Online /\ hotplugs = 0
    /\ idle0 = [l \in Table |-> 0] /\ accounted = [l \in Table |-> 0]
    /\ forward = [l \in Table |-> TRUE]

\* plugin_error (STATE_UNKNOWN, ...).
Fail ==
    /\ pc' = "exited" /\ exit' = STATE_UNKNOWN
    /\ UNCHANGED <<options, samples, kernel, c, status>>

\* delay and count are unsigned long: a negative argument is a huge one.
BadNumbers ==
    \/ ~options.numbers
    \/ options.delay < 1 \/ DELAY_MAX < options.delay
    \/ options.count < 0 \/ COUNT_MAX < options.count

\* The command lines main() gives no verdict for: under another name, with an unknown
\* option, asked for the summary, or with arguments it cannot use.
BadOptions ==
    \/ options.name = "other" \/ ~options.known \/ options.summary
    \/ ~options.percentages \/ BadNumbers \/ ~options.ranges_ok

\* From the name of the program to set_thresholds(); sysfsparser_check_for_sysfs() is
\* on the way.
ParseOptions ==
    /\ pc = "options"
    /\ IF BadOptions \/ ~host.sysfs THEN Fail
       ELSE /\ pc' = "first"
            /\ UNCHANGED <<options, samples, kernel, verdict>>

Sum(t) == t.user + t.system + t.idle + t.iowait + t.steal

\* "if (!ratio[c]) ratio[c] = 1, didle[c] = 1", for the differences t.
Ratio(t) == IF jiff(Sum(t)) = 0 THEN 1 ELSE jiff(Sum(t))
Shown(t) == IF jiff(Sum(t)) = 0 THEN [t EXCEPT !.idle = 1] ELSE t

\* What cpu_stats_get_time() gives up for: nothing to open, no line "cpu ", no room.
Unusable == ~host.stat \/ ~host.cpu \/ BeyondTable

\* The first sample: shares of the time since boot.
FirstSample ==
    /\ pc = "first"
    /\ IF Unusable THEN Fail
       ELSE LET new == cpu_stats_get_time
            IN /\ cpuv' = [cpuv EXCEPT ![0] = new]
               /\ d' = [l \in Table |-> Shown(new[l].t)]
               /\ ratio' = [l \in Table |-> Ratio(new[l].t)]
               /\ idle0' = [l \in Table |-> new[l].t.idle]
               /\ pc' = IF 1 < count THEN "sleep" ELSE "judge"
               /\ UNCHANGED <<options, i, tog, debt, accounted, forward, verdict,
                              kernel>>

\* The counts t of a line after they moved by delta.
Moved(t, delta) ==
    [user |-> t.user + delta.user, system |-> t.system + delta.system,
     idle |-> t.idle + delta.idle, iowait |-> t.iowait + delta.iowait,
     steal |-> t.steal + delta.steal]

\* "sleep (delay)": the kernel goes on.  The counts stay within jiff.
Sleep ==
    /\ pc = "sleep"
    /\ \E delta \in Growths :
         ticks' = [l \in Lines |-> Moved(ticks[l], delta[l])]
    /\ \A l \in Lines : ticks'[l] \in Ticks
    /\ listed' \in IF hotplugs < MaxHotplugs THEN Online ELSE {listed}
    /\ hotplugs' = IF listed' = listed THEN hotplugs ELSE hotplugs + 1
    /\ pc' = "sample"
    /\ UNCHANGED <<options, samples, verdict, host>>

\* A mutant: the debt is recorded but never paid.
PaidNever(raw, owed) == raw

\* The idle difference once the debt of earlier samples is paid.
Paid(raw, owed) == IF owed # 0 THEN jiff(int(raw) + owed) ELSE raw

\* The differences of a line between two samples, idle still signed.
Differences(new, old, owed) ==
    [user |-> jiff(new.user - old.user), system |-> jiff(new.system - old.system),
     idle |-> Paid(jiff(new.idle - old.idle), owed),
     iowait |-> jiff(new.iowait - old.iowait),
     steal |-> jiff(new.steal - old.steal)]

\* A mutant: an idle difference that is negative is not set to zero.
IdleUnclamped(paid) == paid

\* "if ((int) didle[c] < 0) debt[c] = (int) didle[c], didle[c] = 0".
Debt(paid) == IF int(paid) < 0 THEN int(paid) ELSE 0
Idle(paid) == IF int(paid) < 0 THEN 0 ELSE paid

\* One turn of the sampling loop, after the sleep.
NextSample ==
    /\ pc = "sample"
    /\ IF Unusable THEN Fail
       ELSE LET t == 1 - tog
                new == cpu_stats_get_time
                diff == [l \in Table |->
                           Differences(new[l].t, cpuv[tog][l].t, debt[l])]
                clamped == [l \in Table |->
                              [diff[l] EXCEPT !.idle = Idle(diff[l].idle)]]
            IN /\ tog' = t
               /\ cpuv' = [cpuv EXCEPT ![t] = new]
               /\ debt' = [l \in Table |-> Debt(diff[l].idle)]
               /\ d' = [l \in Table |-> Shown(clamped[l])]
               /\ ratio' = [l \in Table |-> Ratio(clamped[l])]
               /\ accounted' = [l \in Table |->
                                  accounted[l] + clamped[l].idle]
               /\ forward' = [l \in Table |->
                     /\ cpuv[tog][l].cpuname => new[l].cpuname
                     /\ debt[l] = 0 /\ cpuv[tog][l].t.idle <= new[l].t.idle]
               /\ i' = i + 1
               /\ pc' = IF i + 1 < count THEN "sleep" ELSE "judge"
               /\ UNCHANGED <<options, idle0, verdict, kernel>>

\* get_status() of a share of a line.
PercentStatus(part, whole) == get_statusPercent(part, whole, options.my_threshold)

\* cpu_desc_read() for the model name, after the judging, and the return.
Answer == IF host.cpuinfo THEN status ELSE STATE_UNKNOWN

\* A mutant: the comparison with the status so far is the wrong way round.
JudgeBest ==
    /\ pc = "judge"
    /\ IF c < ncpus
       THEN /\ status' = LET s == PercentStatus(d[c][cpu_value], ratio[c])
                         IN IF c = 0 \/ s < status THEN s ELSE status
            /\ c' = c + 1 /\ UNCHANGED <<pc, exit>>
       ELSE /\ pc' = "exited" /\ exit' = Answer /\ UNCHANGED <<c, status>>
    /\ UNCHANGED <<options, samples, kernel>>

\* One turn of the loop over the lines, and the return after the last.
Judge ==
    /\ pc = "judge"
    /\ IF c < ncpus
       THEN /\ status' = Worse(status, PercentStatus(d[c][cpu_value], ratio[c]))
            /\ c' = c + 1 /\ UNCHANGED <<pc, exit>>
       ELSE /\ pc' = "exited" /\ exit' = Answer /\ UNCHANGED <<c, status>>
    /\ UNCHANGED <<options, samples, kernel>>

Next == ParseOptions \/ FirstSample \/ Sleep \/ NextSample \/ Judge

Spec == Init /\ [][Next]_vars

FairSpec == Spec /\ WF_vars(Next)

-----------------------------------------------------------------------------
TypeOK ==
    /\ pc \in {"options", "first", "sleep", "sample", "judge", "exited"}
    /\ i \in Nat /\ tog \in {0, 1}
    /\ cpuv \in [{0, 1} -> [Table -> [cpuname : BOOLEAN, t : Ticks]]]
    /\ d \in [Table -> Ticks]
    /\ ratio \in [Table -> 0 .. JiffMod - 1]
    /\ debt \in [Table -> -HalfInt .. 0]
    /\ c \in 0 .. ncpus /\ status \in Statuses
    /\ exit \in Statuses \cup {RUNNING}
    /\ idle0 \in [Table -> Int] /\ accounted \in [Table -> Int]
    /\ ticks \in [Lines -> Ticks] /\ listed \subseteq Lines \ {0}
    /\ hotplugs \in 0 .. MaxHotplugs

\* The plugin has differences between samples.
Sampled == pc \in {"sleep", "sample", "judge"}

\* Idle time is neither lost nor invented when the counter runs backwards: the
\* idle time reported so far and the debt are together what the counter says.
IdleAccounted ==
    Sampled => \A l \in Table :
        accounted[l] + debt[l] = cpuv[tog][l].t.idle - idle0[l]

\* The CPU of a line went between the last two samples: its counts are zeroes now.
Went(l) == cpuv[1 - tog][l].cpuname /\ ~cpuv[tog][l].cpuname

\* Whatever the idle counts do, and whichever CPUs come back, the shares of a line are
\* parts of one whole: no difference and no sum has wrapped around, none is above 100%.
\* A CPU that went in the last interval is excepted: its busy differences have wrapped.
SharesWithinWhole ==
    pc = "judge" => \A l \in Table : ~Went(l) =>
        /\ \A f \in Fields : d[l][f] <= ratio[l]
        /\ Sum(d[l]) = ratio[l]

\* The status the kernel's own counts deserve, for one line of the last two
\* samples (or of the first, since boot).
TrueStatus(l) ==
    LET old == IF count <= 1 THEN ZeroTicks ELSE cpuv[1 - tog][l].t
        new == cpuv[tog][l].t
        whole == Sum(new) - Sum(old)
    IN IF whole = 0 THEN PercentStatus(0, 1)
       ELSE PercentStatus(new[cpu_value] - old[cpu_value], whole)

\* The exit status is the worst of what the kernel's counts deserve, over all
\* the lines, when they ran forward: the toggle, the modular differences, the
\* rescaled percentages and the maximum compose.
VerdictIsTrue ==
    pc = "exited" /\ exit # STATE_UNKNOWN /\ (\A l \in Table : forward[l])
      => /\ \A l \in Table : TrueStatus(l) <= exit
         /\ \E l \in Table : TrueStatus(l) = exit

\* UNKNOWN is the exit status exactly when the command line asks for no verdict or
\* cannot be used, the host lacks sysfs, /proc/stat, its first line or /proc/cpuinfo,
\* or a CPU is listed that has no entry in the table (none is ever written past its end).
UnknownHasAReason ==
    pc = "exited" => (exit = STATE_UNKNOWN <=>
                           \/ BadOptions
                           \/ ~host.sysfs \/ ~host.stat \/ ~host.cpu \/ ~host.cpuinfo
                           \/ per_cpu /\ ~(listed \subseteq Table))

\* The types hold, and the plugin ends after count - 1 turns of its loop, with UNKNOWN
\* exactly for one of these reasons.
EndsForAReason == []TypeOK /\ <>(pc = "exited" /\ UnknownHasAReason)
=============================================================================
