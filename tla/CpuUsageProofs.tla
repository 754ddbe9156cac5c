--------------------------- MODULE CpuUsageProofs ---------------------------
(***************************************************************************)
(* Proofs about the sampling loop of check_cpu, for every width of jiff    *)
(* and int, number of CPUs and samples, and behaviour of the kernel.       *)
(***************************************************************************)
EXTENDS CpuUsage, CommonLemmas

\* The remainder of a number less than one modulus away from zero.
LEMMA ModNear ==
    ASSUME NEW m \in Nat \ {0}, NEW x \in -m .. m - 1
    PROVE  x % m = IF x < 0 THEN x + m ELSE x
<1>1. CASE x < 0
  BY <1>1, SMT
<1>2. CASE x >= 0
  BY <1>2, SMT
<1> QED BY <1>1, <1>2

\* The moduli are positive and int's divides jiff's.
LEMMA Moduli ==
    /\ IntMod \in Nat \ {0} /\ JiffMod \in Nat \ {0}
    /\ \E k \in Nat \ {0} : JiffMod = k * IntMod
<1>1. /\ IntMod \in Nat \ {0} /\ JiffMod \in Nat \ {0}
      /\ IntMod <= JiffMod /\ JiffMod % IntMod = 0
  BY CpuAssumption DEF IntMod
<1>2. /\ JiffMod \div IntMod \in Int
      /\ JiffMod = (JiffMod \div IntMod) * IntMod
  BY <1>1, DivMod
<1>3. JiffMod \div IntMod >= 1
  <2> DEFINE k == JiffMod \div IntMod
  <2>1. k \in Int /\ JiffMod = k * IntMod
    BY <1>2
  <2> HIDE DEF k
  <2>2. k <= 0 => k * IntMod <= 0
    BY <1>1, <2>1
  <2>3. k >= 1
    BY <1>1, <2>1, <2>2
  <2> QED BY <2>3 DEF k
<1> QED BY <1>1, <1>2, <1>3

\* Unsigned and signed results have the range of their type.
LEMMA CastTypes ==
    ASSUME NEW x \in Int
    PROVE  jiff(x) \in 0 .. JiffMod - 1 /\ int(x) \in -HalfInt .. HalfInt - 1
<1>1. x % JiffMod \in 0 .. JiffMod - 1 /\ x % IntMod \in 0 .. IntMod - 1
  BY Moduli, DivMod
<1> QED BY <1>1, CpuAssumption DEF jiff, int, IntMod

\* A number that fits in an int survives being stored in a jiff and cast back;
\* one that is not negative even needs no cast.
LEMMA CastBack ==
    ASSUME NEW x \in -HalfInt .. HalfInt - 1
    PROVE  /\ int(jiff(x)) = x
           /\ x >= 0 => jiff(x) = x
<1>0. x \in Int /\ HalfInt \in Nat \ {0} /\ IntMod = 2 * HalfInt
  BY CpuAssumption DEF IntMod
<1>1. PICK k \in Nat \ {0} : JiffMod = k * IntMod
  BY Moduli
<1>2. IntMod \in Nat \ {0} /\ JiffMod \in Nat \ {0} /\ IntMod <= JiffMod
  BY Moduli, CpuAssumption
<1>3. CASE x >= 0
  <2>1. x \in 0 .. JiffMod - 1 /\ x \in 0 .. IntMod - 1
    BY <1>0, <1>2, <1>3
  <2>4. x % JiffMod = x /\ x % IntMod = x
    BY <1>0, <1>2, <1>3, <2>1, ModNear
  <2> QED BY <1>0, <1>3, <2>4 DEF jiff, int
<1>4. CASE x < 0
  <2>1. x + JiffMod \in 0 .. JiffMod - 1 /\ x + IntMod \in 0 .. IntMod - 1
    BY <1>0, <1>2, <1>4
  <2>4. x % JiffMod = x + JiffMod
    BY <1>0, <1>2, <1>4, ModNear
  <2>5. ((k - 1) * IntMod + (x + IntMod)) % IntMod = x + IntMod
    <3>1. k - 1 \in Int
      BY <1>1
    <3> QED BY <1>2, <2>1, <3>1, UniqueMod
  <2>6. (k - 1) * IntMod + (x + IntMod) = x + JiffMod
    <3>1. (k - 1) * IntMod = k * IntMod - IntMod
      BY <1>1, <1>2
    <3> QED BY <1>0, <1>1, <1>2, <3>1
  <2>7. (x % JiffMod) % IntMod = x + IntMod
    BY <2>4, <2>5, <2>6
  <2> QED BY <1>0, <1>4, <2>7 DEF jiff, int
<1> QED BY <1>0, <1>3, <1>4

\* The heart of the loop: as long as the difference, and what is left of it
\* after the debt, fit in an int, the idle time reported and the new debt are
\* together the difference and the old debt.
LEMMA DebtConserved ==
    ASSUME NEW delta \in -HalfInt .. HalfInt - 1, NEW owed \in -HalfInt .. 0,
           delta + owed \in -HalfInt .. HalfInt - 1
    PROVE  LET paid == Paid(jiff(delta), owed)
           IN Idle(paid) + Debt(paid) = delta + owed
<1> DEFINE paid == Paid(jiff(delta), owed)
<1>0. HalfInt \in Nat \ {0}
  BY CpuAssumption
<1>1. paid = jiff(delta + owed)
  <2>1. CASE owed = 0
    BY <1>0, <2>1 DEF Paid
  <2>2. CASE owed # 0
    BY <2>2, CastBack DEF Paid
  <2> QED BY <2>1, <2>2
<1>2. /\ int(paid) = delta + owed
      /\ delta + owed >= 0 => paid = delta + owed
  BY <1>1, CastBack
<1> HIDE DEF paid
<1> QED BY <1>0, <1>2 DEF Idle, Debt, paid

-----------------------------------------------------------------------------
\* Every idle count read is within an int of the one before, and remains so
\* when the debt is added: less than 2^31 ticks pass between two samples.
IdleStepsFit ==
    pc = "sample" /\ ~Unusable => \A l \in Table :
        LET delta == cpu_stats_get_time[l].t.idle - cpuv[tog][l].t.idle
        IN /\ delta \in -HalfInt .. HalfInt - 1
           /\ delta + debt[l] \in -HalfInt .. HalfInt - 1

\* Before the first sample nothing is owed or accounted for.
Fresh ==
    pc \in {"options", "first"} =>
        tog = 0 /\ \A l \in Table : accounted[l] = 0 /\ debt[l] = 0

\* The inductive invariant.
IInv == TypeOK /\ per_cpu \in BOOLEAN /\ Fresh /\ IdleAccounted

\* The options that are numbers and flags, and what is judged.
LEMMA OptionFacts ==
    /\ \A line \in CommandLines : line.per_cpu \in BOOLEAN /\ line.count \in Int
    /\ cpu_value \in {"user", "iowait"}
    /\ UNCHANGED options => cpu_value' = cpu_value
BY CpuAssumption DEF IsCommandLine, cpu_value

USE DEF per_cpu, count

\* The table is a range of lines from 0, and is as large while the plugin runs.
LEMMA TableFacts ==
    ASSUME per_cpu \in BOOLEAN
    PROVE  /\ 0 \in Table /\ Table \subseteq Nat /\ ncpus \in Nat
           /\ UNCHANGED options => Table' = Table /\ ncpus' = ncpus
BY CpuAssumption DEF Table, ncpus, per_cpu

\* The tables read from /proc/stat are well typed.
LEMMA ReadType ==
    ASSUME TypeOK
    PROVE  cpu_stats_get_time \in [Table -> [cpuname : BOOLEAN, t : Ticks]]
<1>1. 0 \in Lines /\ \A l \in listed : l \in Lines
  BY CpuAssumption DEF TypeOK, Lines
<1>2. \A l \in Lines : ticks[l] \in Ticks
  BY DEF TypeOK
<1>3. NoEntry \in [cpuname : BOOLEAN, t : Ticks]
  <2>1. ZeroTicks \in Ticks
    BY Moduli DEF ZeroTicks, Ticks, TicksOf
  <2> QED BY <2>1 DEF NoEntry
<1>4. ASSUME NEW l \in Lines
      PROVE  [cpuname |-> TRUE, t |-> ticks[l]] \in [cpuname : BOOLEAN, t : Ticks]
  BY <1>2
<1> HIDE DEF NoEntry
<1>5. ASSUME NEW l \in Table
      PROVE  (IF l = 0 \/ l \in listed THEN [cpuname |-> TRUE, t |-> ticks[l]]
                                       ELSE NoEntry)
               \in [cpuname : BOOLEAN, t : Ticks]
  BY <1>1, <1>3, <1>4
<1> QED BY <1>5, Zenon DEF cpu_stats_get_time

\* The differences, the clamped idle time and what is shown are ticks.
LEMMA TicksTypes ==
    /\ \A new, old \in Ticks, owed \in Int : Differences(new, old, owed) \in Ticks
    /\ \A t \in Ticks : /\ [t EXCEPT !.idle = Idle(t.idle)] \in Ticks
                        /\ Shown(t) \in Ticks
                        /\ Ratio(t) \in 0 .. JiffMod - 1
<1>0. JiffMod \in Nat /\ JiffMod >= 2
  BY CpuAssumption DEF IntMod
<1>1. ASSUME NEW new \in Ticks, NEW old \in Ticks, NEW owed \in Int
      PROVE  Differences(new, old, owed) \in Ticks
  <2>1. \A x, y \in 0 .. JiffMod - 1 : jiff(x - y) \in 0 .. JiffMod - 1
    BY <1>0, CastTypes
  <2>2. \A x \in 0 .. JiffMod - 1 : Paid(x, owed) \in 0 .. JiffMod - 1
    BY <1>0, CastTypes, CpuAssumption DEF Paid
  <2> QED BY <2>1, <2>2 DEF Differences, Ticks, TicksOf
<1>2. ASSUME NEW t \in Ticks
      PROVE  [t EXCEPT !.idle = Idle(t.idle)] \in Ticks
  <2>1. Idle(t.idle) \in 0 .. JiffMod - 1
    BY <1>0 DEF Idle, Ticks, TicksOf
  <2> QED BY <2>1 DEF Ticks, TicksOf
<1>3. ASSUME NEW t \in Ticks
      PROVE  Shown(t) \in Ticks /\ Ratio(t) \in 0 .. JiffMod - 1
  <2>1. Sum(t) \in Int
    BY <1>0 DEF Sum, Ticks, TicksOf
  <2>2. jiff(Sum(t)) \in 0 .. JiffMod - 1
    BY <2>1, CastTypes
  <2>3. [t EXCEPT !.idle = 1] \in Ticks
    BY <1>0 DEF Ticks, TicksOf
  <2> QED BY <1>0, <2>2, <2>3 DEF Shown, Ratio
<1> QED BY <1>1, <1>2, <1>3

\* A percentage is judged OK, WARNING or CRITICAL.
LEMMA PercentStatusType ==
    ASSUME NEW part, NEW whole
    PROVE  PercentStatus(part, whole) \in Statuses
BY DEF PercentStatus, get_statusPercent, get_status, Statuses, STATE_OK, STATE_WARNING,
       STATE_CRITICAL, STATE_UNKNOWN

\* The inductive invariant holds initially.
LEMMA InitIInv == Init => IInv
<1> SUFFICES ASSUME Init PROVE IInv
  OBVIOUS
<1>1. per_cpu \in BOOLEAN /\ ncpus \in Nat
  BY OptionFacts, TableFacts DEF Init
<1>2. ZeroTicks \in Ticks /\ NoEntry \in [cpuname : BOOLEAN, t : Ticks]
  <2>1. ZeroTicks \in Ticks
    BY Moduli DEF ZeroTicks, Ticks, TicksOf
  <2> QED BY <2>1 DEF NoEntry
<1>3. ticks \in [Lines -> Ticks] /\ listed \subseteq Lines \ {0}
  BY CpuAssumption DEF Init, Online
<1>4. /\ cpuv \in [{0, 1} -> [Table -> [cpuname : BOOLEAN, t : Ticks]]]
      /\ d \in [Table -> Ticks]
  BY <1>2 DEF Init
<1>5. /\ ratio \in [Table -> 0 .. JiffMod - 1] /\ debt \in [Table -> -HalfInt .. 0]
      /\ idle0 \in [Table -> Int] /\ accounted \in [Table -> Int]
  BY Moduli, CpuAssumption DEF Init
<1>6. TypeOK
  BY <1>1, <1>3, <1>4, <1>5, CpuAssumption DEF Init, TypeOK, Statuses
<1> QED BY <1>1, <1>6 DEF Init, IInv, Fresh, IdleAccounted, Sampled

\* A failure keeps the invariant wherever it happens.
LEMMA FailKeeps ==
    ASSUME IInv, Fail
    PROVE  IInv'
<1>1. Table' = Table /\ ncpus' = ncpus
  BY TableFacts DEF IInv, Fail
<1> QED
  BY <1>1 DEF IInv, TypeOK, Fail, Fresh, IdleAccounted, Sampled, Statuses,
     samples, kernel

\* The first sample starts the accounts of idle time.
LEMMA FirstSampleKeeps ==
    ASSUME IInv, FirstSample
    PROVE  IInv'
<1>1. CASE Unusable
  BY <1>1, FailKeeps DEF FirstSample
<1>2. CASE ~Unusable
  <2> DEFINE new == cpu_stats_get_time
  <2>0. /\ pc = "first" /\ tog = 0 /\ tog' = 0
        /\ cpuv' = [cpuv EXCEPT ![0] = new]
        /\ d' = [l \in Table |-> Shown(new[l].t)]
        /\ ratio' = [l \in Table |-> Ratio(new[l].t)]
        /\ idle0' = [l \in Table |-> new[l].t.idle]
        /\ pc' \in {"sleep", "judge"}
        /\ UNCHANGED <<options, i, debt, accounted, c, status, exit, ticks, listed, hotplugs>>
    BY <1>2 DEF FirstSample, IInv, Fresh, verdict, kernel
  <2>1. Table' = Table /\ ncpus' = ncpus /\ per_cpu' = per_cpu
    BY <2>0, TableFacts DEF IInv
  <2>2. new \in [Table -> [cpuname : BOOLEAN, t : Ticks]]
    BY ReadType DEF IInv
  <2> HIDE DEF new
  <2>3. \A l \in Table : new[l].t \in Ticks
    BY <2>2
  <2>4. /\ cpuv' \in [{0, 1} -> [Table -> [cpuname : BOOLEAN, t : Ticks]]]
        /\ cpuv'[0] = new
    BY <2>0, <2>2 DEF IInv, TypeOK
  <2>5. d' \in [Table -> Ticks] /\ ratio' \in [Table -> 0 .. JiffMod - 1]
    BY <2>0, <2>3, TicksTypes
  <2>6. \A l \in Table : new[l].t.idle \in Int
    BY <2>3, Moduli DEF Ticks, TicksOf
  <2>7. idle0' \in [Table -> Int]
    BY <2>0, <2>6
  <2>8. TypeOK'
    BY <2>0, <2>1, <2>4, <2>5, <2>7 DEF IInv, TypeOK
  <2>9. IdleAccounted'
    BY <2>0, <2>1, <2>4, <2>6 DEF IInv, Fresh, IdleAccounted
  <2> QED BY <2>0, <2>1, <2>8, <2>9 DEF IInv, Fresh
<1> QED BY <1>1, <1>2

\* A later sample moves the accounts on by what the idle counts moved.
LEMMA NextSampleKeeps ==
    ASSUME IInv, IdleStepsFit, NextSample
    PROVE  IInv'
<1>1. CASE Unusable
  BY <1>1, FailKeeps DEF NextSample
<1>2. CASE ~Unusable
  <2> DEFINE new == cpu_stats_get_time
             diff == [l \in Table |->
                        Differences(new[l].t, cpuv[tog][l].t, debt[l])]
             clamped == [l \in Table |->
                           [diff[l] EXCEPT !.idle = Idle(diff[l].idle)]]
  <2>0. /\ pc = "sample" /\ tog' = 1 - tog
        /\ cpuv' = [cpuv EXCEPT ![1 - tog] = new]
        /\ debt' = [l \in Table |-> Debt(diff[l].idle)]
        /\ d' = [l \in Table |-> Shown(clamped[l])]
        /\ ratio' = [l \in Table |-> Ratio(clamped[l])]
        /\ accounted' = [l \in Table |-> accounted[l] + clamped[l].idle]
        /\ i' = i + 1
        /\ pc' \in {"sleep", "judge"}
        /\ UNCHANGED <<options, idle0, c, status, exit, ticks, listed, hotplugs>>
    BY <1>2 DEF NextSample, verdict, kernel
  <2>1. Table' = Table /\ ncpus' = ncpus /\ per_cpu' = per_cpu
    BY <2>0, TableFacts DEF IInv
  <2>2. new \in [Table -> [cpuname : BOOLEAN, t : Ticks]]
    BY ReadType DEF IInv
  <2>3. \A l \in Table :
           /\ new[l].t.idle - cpuv[tog][l].t.idle \in -HalfInt .. HalfInt - 1
           /\ new[l].t.idle - cpuv[tog][l].t.idle + debt[l]
                \in -HalfInt .. HalfInt - 1
    BY <1>2, <2>0 DEF IdleStepsFit
  <2> HIDE DEF new
  <2>4. ASSUME NEW l \in Table
        PROVE  new[l].t \in Ticks /\ cpuv[tog][l].t \in Ticks /\ debt[l] \in Int
    BY <2>2, CpuAssumption DEF IInv, TypeOK
  <2>5. ASSUME NEW l \in Table
        PROVE  diff[l] \in Ticks
    BY <2>4, TicksTypes
  <2>6. ASSUME NEW l \in Table
        PROVE  diff[l].idle = Paid(jiff(new[l].t.idle - cpuv[tog][l].t.idle),
                                   debt[l])
    BY DEF Differences
  <2> HIDE DEF diff
  <2>7. ASSUME NEW l \in Table
        PROVE  clamped[l] \in Ticks /\ clamped[l].idle = Idle(diff[l].idle)
    <3>1. clamped[l] \in Ticks
      BY <2>5, TicksTypes
    <3>2. clamped[l].idle = Idle(diff[l].idle)
      BY <2>5 DEF Ticks, TicksOf
    <3> QED BY <3>1, <3>2
  <2> HIDE DEF clamped
  <2>8. ASSUME NEW l \in Table
        PROVE  /\ clamped[l].idle + Debt(diff[l].idle)
                    = new[l].t.idle - cpuv[tog][l].t.idle + debt[l]
               /\ Debt(diff[l].idle) \in -HalfInt .. 0
               /\ clamped[l].idle \in Int
    <3>1. debt[l] \in -HalfInt .. 0
      BY DEF IInv, TypeOK
    <3>2. Idle(diff[l].idle) + Debt(diff[l].idle)
            = new[l].t.idle - cpuv[tog][l].t.idle + debt[l]
      BY <2>3, <2>6, <3>1, DebtConserved
    <3>3. diff[l].idle \in Int /\ clamped[l].idle \in Int
      BY <2>5, <2>7, Moduli DEF Ticks, TicksOf
    <3>4. Debt(diff[l].idle) \in -HalfInt .. 0
      BY <3>3, CastTypes, CpuAssumption DEF Debt
    <3> QED BY <2>7, <3>2, <3>3, <3>4
  <2>9. tog \in {0, 1} /\ tog' \in {0, 1}
    BY <2>0 DEF IInv, TypeOK
  <2>10. /\ cpuv' \in [{0, 1} -> [Table -> [cpuname : BOOLEAN, t : Ticks]]]
         /\ cpuv'[tog'] = new
    BY <2>0, <2>2, <2>9 DEF IInv, TypeOK
  <2>11. d' \in [Table -> Ticks] /\ ratio' \in [Table -> 0 .. JiffMod - 1]
    BY <2>0, <2>7, TicksTypes
  <2>12. debt' \in [Table -> -HalfInt .. 0] /\ accounted' \in [Table -> Int]
    BY <2>0, <2>8 DEF IInv, TypeOK
  <2>13. TypeOK'
    BY <2>0, <2>1, <2>9, <2>10, <2>11, <2>12 DEF IInv, TypeOK
  <2>14. ASSUME NEW l \in Table
         PROVE  accounted'[l] + debt'[l] = cpuv'[tog'][l].t.idle - idle0'[l]
    <3>1. accounted[l] + debt[l] = cpuv[tog][l].t.idle - idle0[l]
      BY <2>0 DEF IInv, IdleAccounted, Sampled
    <3>2. /\ accounted'[l] = accounted[l] + clamped[l].idle
          /\ debt'[l] = Debt(diff[l].idle)
          /\ cpuv'[tog'][l].t.idle = new[l].t.idle /\ idle0'[l] = idle0[l]
      BY <2>0, <2>10
    <3>3. /\ accounted[l] \in Int /\ debt[l] \in Int /\ idle0[l] \in Int
          /\ new[l].t.idle \in Int /\ cpuv[tog][l].t.idle \in Int
      BY <2>4, Moduli DEF IInv, TypeOK, Ticks, TicksOf
    <3>4. clamped[l].idle \in Int /\ Debt(diff[l].idle) \in Int
      BY <2>8, CpuAssumption
    <3> QED BY <2>8, <3>1, <3>2, <3>3, <3>4
  <2>15. IdleAccounted'
    BY <2>1, <2>14 DEF IdleAccounted
  <2> QED BY SMTT(30), <2>0, <2>1, <2>13, <2>15 DEF IInv, Fresh
<1> QED BY <1>1, <1>2

\* Every step keeps the inductive invariant while the idle steps fit.
LEMMA NextIInv == IInv /\ IdleStepsFit /\ [Next]_vars => IInv'
<1> SUFFICES ASSUME IInv, IdleStepsFit, [Next]_vars
             PROVE  IInv'
  OBVIOUS
<1>0. per_cpu \in BOOLEAN
  BY DEF IInv
<1>1. CASE ParseOptions
  <2>1. CASE BadOptions \/ ~host.sysfs
    BY <1>1, <2>1, FailKeeps DEF ParseOptions
  <2>2. CASE ~(BadOptions \/ ~host.sysfs)
    <3>1. /\ pc = "options" /\ pc' = "first"
          /\ UNCHANGED <<options, samples, kernel, verdict>>
      BY <1>1, <2>2 DEF ParseOptions
    <3>2. Table' = Table /\ ncpus' = ncpus
      BY <1>0, <3>1, TableFacts
    <3> QED
      BY <3>1, <3>2 DEF IInv, TypeOK, Fresh, IdleAccounted, Sampled,
         samples, kernel, verdict
  <2> QED BY <2>1, <2>2
<1>2. CASE FirstSample
  BY <1>2, FirstSampleKeeps
<1>3. CASE Sleep
  <2>1. /\ pc = "sleep" /\ pc' = "sample"
        /\ UNCHANGED <<options, samples, verdict>>
        /\ \A l \in Lines : ticks'[l] \in Ticks
        /\ hotplugs' \in 0 .. MaxHotplugs
        /\ \E delta \in Growths :
              ticks' = [l \in Lines |-> Moved(ticks[l], delta[l])]
        /\ listed' \subseteq Lines \ {0}
    BY <1>3, CpuAssumption DEF Sleep, IInv, TypeOK, Online
  <2>2. ticks' \in [Lines -> Ticks]
    BY <2>1
  <2>3. Table' = Table /\ ncpus' = ncpus
    BY <1>0, <2>1, TableFacts
  <2> QED
    BY <2>1, <2>2, <2>3 DEF IInv, TypeOK, Fresh, IdleAccounted, Sampled,
       samples, verdict
<1>4. CASE NextSample
  BY <1>4, NextSampleKeeps
<1>5. CASE Judge
  <2>1. /\ pc = "judge" /\ pc' \in {"judge", "exited"}
        /\ UNCHANGED <<options, samples, kernel>>
    BY <1>5 DEF Judge
  <2>2. Table' = Table /\ ncpus' = ncpus /\ ncpus \in Nat
    BY <1>0, <2>1, TableFacts
  <2>3. PercentStatus(d[c][cpu_value], ratio[c]) \in Statuses
    BY PercentStatusType
  <2>4. c' \in 0 .. ncpus /\ status' \in Statuses /\ exit' \in Statuses \cup {RUNNING}
    BY <1>5, <2>2, <2>3 DEF Judge, Answer, IInv, TypeOK, Worse, Statuses
  <2> QED
    BY <2>1, <2>2, <2>4 DEF IInv, TypeOK, Fresh, IdleAccounted, Sampled,
       samples, kernel
<1>6. CASE UNCHANGED vars
  <2>1. Table' = Table /\ ncpus' = ncpus
    BY <1>0, <1>6, TableFacts DEF vars
  <2> QED
    BY <1>6, <2>1 DEF vars, IInv, TypeOK, Fresh, IdleAccounted, Sampled,
       samples, kernel, verdict
<1> QED BY <1>1, <1>2, <1>3, <1>4, <1>5, <1>6 DEF Next

\* However often and far the idle count of a line runs backwards, as long as
\* the steps fit in an int: the idle time reported and the debt are together
\* what the counter says, and everything is well typed.
THEOREM IdleIsAccounted == Spec /\ []IdleStepsFit => []IdleAccounted
<1>1. IInv => IdleAccounted
  BY DEF IInv
<1> QED BY <1>1, InitIInv, NextIInv, PTL DEF Spec
-----------------------------------------------------------------------------
\* What is true of the kernel while it counts: the time of a line fits in a jiff, and
\* between two samples no count but idle goes backwards unless the CPU goes.
CountsAdvance ==
    pc \in {"first", "sample"} /\ ~Unusable => \A l \in Table :
        LET new == cpu_stats_get_time[l]
        IN /\ Sum(new.t) < JiffMod
           /\ pc = "sample" /\ (cpuv[tog][l].cpuname => new.cpuname)
                => \A f \in Fields \ {"idle"} : cpuv[tog][l].t[f] <= new.t[f]

\* The differences t of a line between the counts old and new: as the counts have it,
\* idle apart, and not above the counts themselves.
IsDifference(t, new, old) ==
    /\ t \in Ticks /\ new \in Ticks /\ old \in Ticks
    /\ t.user = new.user - old.user /\ t.system = new.system - old.system
    /\ t.iowait = new.iowait - old.iowait /\ t.steal = new.steal - old.steal
    /\ Sum(t) < JiffMod

\* Tick counts are natural numbers.
LEMMA TickNumbers ==
    ASSUME NEW t \in Ticks
    PROVE  /\ t.user \in Nat /\ t.system \in Nat /\ t.idle \in Nat
           /\ t.iowait \in Nat /\ t.steal \in Nat
           /\ t.user < JiffMod /\ t.system < JiffMod /\ t.idle < JiffMod
           /\ t.iowait < JiffMod /\ t.steal < JiffMod
           /\ Sum(t) \in Nat
<1>0. JiffMod \in Nat /\ JiffMod >= 2
  BY CpuAssumption DEF IntMod
<1>1. /\ t.user \in 0 .. JiffMod - 1 /\ t.system \in 0 .. JiffMod - 1
      /\ t.idle \in 0 .. JiffMod - 1
      /\ t.iowait \in 0 .. JiffMod - 1 /\ t.steal \in 0 .. JiffMod - 1
  BY DEF Ticks, TicksOf
<1> QED BY <1>0, <1>1 DEF Sum

\* The difference of two counts that advance does not wrap around.
LEMMA Advance ==
    ASSUME NEW new \in Nat, NEW old \in Nat, new < JiffMod, old <= new
    PROVE  jiff(new - old) = new - old
<1>0. JiffMod \in Nat \ {0}
  BY Moduli
<1>1. new - old \in -JiffMod .. JiffMod - 1 /\ ~(new - old < 0)
  BY <1>0
<1> QED BY <1>0, <1>1, ModNear DEF jiff

\* Once a negative idle difference is set to zero, the differences between two samples
\* are those of the counts, and idle's is too when it ran forward with no debt.
LEMMA ClampedDifference ==
    ASSUME NEW new \in Ticks, NEW old \in Ticks, NEW owed \in -HalfInt .. 0,
           Sum(new) < JiffMod,
           \A f \in Fields \ {"idle"} : old[f] <= new[f],
           new.idle - old.idle \in -HalfInt .. HalfInt - 1,
           new.idle - old.idle + owed \in -HalfInt .. HalfInt - 1,
           NEW t, t = [Differences(new, old, owed) EXCEPT
                         !.idle = Idle(Differences(new, old, owed).idle)]
    PROVE  /\ IsDifference(t, new, old)
           /\ owed = 0 /\ old.idle <= new.idle => t.idle = new.idle - old.idle
<1> DEFINE diff == Differences(new, old, owed)
           delta == new.idle - old.idle
<1>0. HalfInt \in Nat \ {0} /\ JiffMod \in Nat
  BY CpuAssumption
<1>1. diff \in Ticks /\ t \in Ticks
  <2>1. diff \in Ticks
    BY <1>0, TicksTypes
  <2>2. t = [diff EXCEPT !.idle = Idle(diff.idle)]
    OBVIOUS
  <2> HIDE DEF diff
  <2>3. [diff EXCEPT !.idle = Idle(diff.idle)] \in Ticks
    BY <2>1, TicksTypes
  <2> QED BY <2>1, <2>2, <2>3
<1>2. /\ old.user <= new.user /\ old.system <= new.system
      /\ old.iowait <= new.iowait /\ old.steal <= new.steal
  BY DEF Fields
<1>3. /\ diff.user = jiff(new.user - old.user) /\ diff.system = jiff(new.system - old.system)
      /\ diff.iowait = jiff(new.iowait - old.iowait)
      /\ diff.steal = jiff(new.steal - old.steal)
      /\ diff.idle = Paid(jiff(delta), owed)
  BY DEF Differences
<1>4. /\ t.user = diff.user /\ t.system = diff.system /\ t.iowait = diff.iowait
      /\ t.steal = diff.steal /\ t.idle = Idle(diff.idle)
  BY <1>1 DEF Ticks, TicksOf
<1>5. /\ t.user = new.user - old.user /\ t.system = new.system - old.system
      /\ t.iowait = new.iowait - old.iowait /\ t.steal = new.steal - old.steal
  <2>1. jiff(new.user - old.user) = new.user - old.user
    BY <1>2, TickNumbers, Advance
  <2>2. jiff(new.system - old.system) = new.system - old.system
    BY <1>2, TickNumbers, Advance
  <2>3. jiff(new.iowait - old.iowait) = new.iowait - old.iowait
    BY <1>2, TickNumbers, Advance
  <2>4. jiff(new.steal - old.steal) = new.steal - old.steal
    BY <1>2, TickNumbers, Advance
  <2> HIDE DEF diff
  <2> QED BY <1>3, <1>4, <2>1, <2>2, <2>3, <2>4
<1>6. delta \in Int /\ delta <= new.idle
  BY TickNumbers
<1>7. t.idle = IF delta + owed < 0 THEN 0 ELSE delta + owed
  <2> HIDE DEF delta
  <2>1. delta \in -HalfInt .. HalfInt - 1 /\ delta + owed \in -HalfInt .. HalfInt - 1
    BY DEF delta
  <2>2. Paid(jiff(delta), owed) = jiff(delta + owed)
    <3>1. CASE owed = 0
      BY <1>6, <3>1 DEF Paid
    <3>2. CASE owed # 0
      BY <2>1, <3>2, CastBack DEF Paid
    <3> QED BY <3>1, <3>2
  <2> HIDE DEF diff
  <2>3. t.idle = Idle(jiff(delta + owed))
    BY <1>3, <1>4, <2>2
  <2> QED BY <2>1, <2>3, CastBack DEF Idle
<1>8. t.idle <= new.idle
  <2> HIDE DEF delta
  <2>1. new.idle \in Nat
    BY TickNumbers
  <2> QED BY <1>0, <1>6, <1>7, <2>1
<1>9. Sum(t) < JiffMod
  <2>1. /\ new.user \in Nat /\ new.system \in Nat /\ new.idle \in Nat
        /\ new.iowait \in Nat /\ new.steal \in Nat
        /\ old.user \in Nat /\ old.system \in Nat
        /\ old.iowait \in Nat /\ old.steal \in Nat /\ t.idle \in Nat
    BY <1>1, TickNumbers
  <2> QED BY <1>0, <1>5, <1>8, <2>1 DEF Sum
<1>10. owed = 0 /\ old.idle <= new.idle => t.idle = delta
  <2>1. new.idle \in Nat /\ old.idle \in Nat
    BY TickNumbers
  <2> QED BY <1>7, <2>1
<1> QED BY <1>1, <1>5, <1>9, <1>10 DEF IsDifference

\* What is shown of the differences t, and the whole they are shares of.
LEMMA ShownWhole ==
    ASSUME NEW t \in Ticks, Sum(t) < JiffMod
    PROVE  /\ Sum(t) # 0 => Shown(t) = t /\ Ratio(t) = Sum(t)
           /\ Sum(t) = 0 => /\ Ratio(t) = 1
                            /\ Shown(t) = [user |-> 0, system |-> 0, idle |-> 1,
                                           iowait |-> 0, steal |-> 0]
<1>1. Sum(t) \in Nat /\ JiffMod \in Nat \ {0}
  BY TickNumbers, Moduli
<1>2. jiff(Sum(t)) = Sum(t)
  <2>1. Sum(t) \in -JiffMod .. JiffMod - 1 /\ ~(Sum(t) < 0)
    BY <1>1
  <2> QED BY <1>1, <2>1, ModNear DEF jiff
<1>3. CASE Sum(t) = 0
  <2>0. /\ t.user \in Nat /\ t.system \in Nat /\ t.idle \in Nat
        /\ t.iowait \in Nat /\ t.steal \in Nat
    BY TickNumbers
  <2>1. t.user = 0 /\ t.system = 0 /\ t.iowait = 0 /\ t.steal = 0
    <3> DEFINE u == t.user
               y == t.system
               n == t.idle
               w == t.iowait
               x == t.steal
    <3>1. u \in Nat /\ y \in Nat /\ n \in Nat /\ w \in Nat /\ x \in Nat
      BY <2>0
    <3>2. u + y + n + w + x = 0
      BY <1>3 DEF Sum
    <3> HIDE DEF u, y, n, w, x
    <3>3. u = 0 /\ y = 0 /\ w = 0 /\ x = 0
      BY <3>1, <3>2
    <3> QED BY <3>3 DEF u, y, w, x
  <2>2. [t EXCEPT !.idle = 1] = [user |-> 0, system |-> 0, idle |-> 1, iowait |-> 0,
                                 steal |-> 0]
    BY <2>1 DEF Ticks, TicksOf
  <2> QED BY <1>2, <1>3, <2>2 DEF Shown, Ratio
<1>4. CASE Sum(t) # 0
  BY <1>2, <1>4 DEF Shown, Ratio
<1> QED BY <1>3, <1>4

\* The parts shown are within the whole.
LEMMA ShownWithinWhole ==
    ASSUME NEW t \in Ticks, Sum(t) < JiffMod
    PROVE  /\ \A f \in Fields : Shown(t)[f] <= Ratio(t)
           /\ Sum(Shown(t)) = Ratio(t)
<1>1. CASE Sum(t) = 0
  BY <1>1, ShownWhole DEF Fields, Sum
<1>2. CASE Sum(t) # 0
  <2>1. Shown(t) = t /\ Ratio(t) = Sum(t)
    BY <1>2, ShownWhole
  <2>2. /\ t.user <= Sum(t) /\ t.system <= Sum(t) /\ t.idle <= Sum(t)
        /\ t.iowait <= Sum(t) /\ t.steal <= Sum(t)
    BY TickNumbers DEF Sum
  <2> QED BY <2>1, <2>2 DEF Fields
<1> QED BY <1>1, <1>2

\* The status of a share is the one the counts deserve.
LEMMA ShownStatus ==
    ASSUME NEW t, NEW new, NEW old, IsDifference(t, new, old),
           t.idle = new.idle - old.idle, cpu_value \in {"user", "iowait"}
    PROVE  PercentStatus(Shown(t)[cpu_value], Ratio(t))
             = LET whole == Sum(new) - Sum(old)
               IN IF whole = 0 THEN PercentStatus(0, 1)
                  ELSE PercentStatus(new[cpu_value] - old[cpu_value], whole)
<1>1. t \in Ticks /\ new \in Ticks /\ old \in Ticks /\ Sum(t) < JiffMod
  BY DEF IsDifference
<1>2. Sum(t) = Sum(new) - Sum(old)
  <2>1. /\ new.user \in Nat /\ new.system \in Nat /\ new.idle \in Nat
        /\ new.iowait \in Nat /\ new.steal \in Nat
        /\ old.user \in Nat /\ old.system \in Nat /\ old.idle \in Nat
        /\ old.iowait \in Nat /\ old.steal \in Nat
    BY <1>1, TickNumbers
  <2> QED BY <2>1 DEF IsDifference, Sum
<1>3. t[cpu_value] = new[cpu_value] - old[cpu_value]
  BY DEF IsDifference
<1>4. CASE Sum(t) = 0
  <2>1. Ratio(t) = 1 /\ Shown(t).user = 0 /\ Shown(t).iowait = 0
    BY <1>1, <1>4, ShownWhole
  <2>2. Shown(t)[cpu_value] = 0
    BY <2>1
  <2> QED BY <1>2, <1>4, <2>1, <2>2
<1>5. CASE Sum(t) # 0
  <2>1. Ratio(t) = Sum(t) /\ Shown(t) = t
    BY <1>1, <1>5, ShownWhole
  <2> QED BY <1>2, <1>3, <1>5, <2>1
<1> QED BY <1>4, <1>5
\* The share of a line as it is judged.
LineStatus(l) == PercentStatus(d[l][cpu_value], ratio[l])

\* The parts shown of a line are within the whole.
WithinWhole(l) == (\A f \in Fields : d[l][f] <= ratio[l]) /\ Sum(d[l]) = ratio[l]

\* What is judged: unless the CPU went, the parts of a line are within the whole, and
\* where the line ran forward the status is the one the counts deserve; the status so far
\* is the worst of the lines judged.
Judging ==
    /\ \A l \in Table : ~Went(l) => WithinWhole(l)
    /\ \A l \in Table : forward[l] => LineStatus(l) = TrueStatus(l)
    /\ \A l \in Table : l < c => LineStatus(l) <= status
    /\ status = STATE_OK \/ \E l \in Table : l < c /\ LineStatus(l) = status

\* The inductive invariant of the verdict.
VerdictInv ==
    /\ IInv
    /\ count \in Int
    /\ pc \in {"sleep", "sample"} => 1 < count
    /\ pc \in {"options", "first", "sleep", "sample"} => c = 0 /\ status = STATE_OK
    /\ pc \in {"options", "first"} => \A l \in Table : forward[l]
    /\ pc = "judge" => Judging
    /\ pc = "exited" => exit = STATE_UNKNOWN \/ (Judging /\ c = ncpus /\ exit = status)

\* The kernel behaves: the hypotheses of the theorems below.
Behaves == IdleStepsFit /\ CountsAdvance

\* Nothing has been judged yet, of a sample that is about to be.
LEMMA JudgingStarts ==
    ASSUME VerdictInv, c' = 0, status' = STATE_OK, Table' = Table,
           \A l \in Table : /\ ~Went(l)' => WithinWhole(l)'
                            /\ forward'[l] => LineStatus(l)' = TrueStatus(l)'
    PROVE  Judging'
<1>1. \A l \in Table : l >= 0
  BY TableFacts DEF VerdictInv, IInv
<1>2. \A l \in Table' : forward'[l] => LineStatus(l)' = TrueStatus(l)'
  OBVIOUS
<1>3. \A l \in Table' : ~Went(l)' => WithinWhole(l)'
  OBVIOUS
<1>4. \A l \in Table' : l < c' => LineStatus(l)' <= status'
  <2>1. \A l \in Table' : ~(l < c')
    BY <1>1, TableFacts DEF VerdictInv, IInv
  <2> QED BY <2>1
<1> QED BY <1>2, <1>3, <1>4, Zenon DEF Judging

\* The first sample is judged by the counts since boot.
LEMMA FirstSampleJudged ==
    ASSUME VerdictInv, IInv', CountsAdvance, FirstSample
    PROVE  VerdictInv'
<1>1. CASE Unusable
  BY <1>1 DEF FirstSample, Fail, VerdictInv
<1>2. CASE ~Unusable
  <2> DEFINE new == cpu_stats_get_time
  <2>0. /\ pc = "first" /\ tog = 0 /\ tog' = 0
        /\ cpuv' = [cpuv EXCEPT ![0] = new]
        /\ d' = [l \in Table |-> Shown(new[l].t)]
        /\ ratio' = [l \in Table |-> Ratio(new[l].t)]
        /\ pc' = IF 1 < count THEN "sleep" ELSE "judge"
        /\ UNCHANGED <<options, forward, c, status>>
    BY <1>2 DEF FirstSample, VerdictInv, IInv, Fresh, verdict
  <2>1. Table' = Table /\ ncpus' = ncpus /\ options' = options
    BY <2>0, TableFacts DEF VerdictInv, IInv
  <2>2. \A l \in Table : new[l].t \in Ticks /\ Sum(new[l].t) < JiffMod
    BY <1>2, <2>0, ReadType DEF VerdictInv, IInv, CountsAdvance
  <2> HIDE DEF new
  <2>3. cpuv'[0] = new
    BY <2>0 DEF VerdictInv, IInv, TypeOK
  <2>4. ASSUME count <= 1
        PROVE  Judging'
    <3>1. ASSUME NEW l \in Table
          PROVE  WithinWhole(l)' /\ LineStatus(l)' = TrueStatus(l)'
      <4> DEFINE t == new[l].t
      <4>1. t \in Ticks /\ Sum(t) < JiffMod
        BY <2>2
      <4>2. d'[l] = Shown(t) /\ ratio'[l] = Ratio(t) /\ cpuv'[tog'][l].t = t
        BY <2>0, <2>3
      <4> HIDE DEF t
      <4>3. ZeroTicks \in Ticks /\ Sum(ZeroTicks) = 0
        BY Moduli DEF ZeroTicks, Ticks, TicksOf, Sum
      <4>4. IsDifference(t, t, ZeroTicks) /\ t.idle = t.idle - ZeroTicks.idle
        BY <4>1, <4>3, TickNumbers DEF IsDifference, ZeroTicks
      <4>5. PercentStatus(Shown(t)[cpu_value], Ratio(t))
              = LET whole == Sum(t) - Sum(ZeroTicks)
                IN IF whole = 0 THEN PercentStatus(0, 1)
                   ELSE PercentStatus(t[cpu_value] - ZeroTicks[cpu_value], whole)
        BY <4>4, ShownStatus, OptionFacts
      <4>6. LineStatus(l)' = PercentStatus(Shown(t)[cpu_value], Ratio(t))
        BY <2>1, <4>2 DEF LineStatus, PercentStatus, cpu_value
      <4>7. TrueStatus(l)'
              = LET whole == Sum(t) - Sum(ZeroTicks)
                IN IF whole = 0 THEN PercentStatus(0, 1)
                   ELSE PercentStatus(t[cpu_value] - ZeroTicks[cpu_value], whole)
        BY <2>1, <2>4, <4>2 DEF TrueStatus, PercentStatus, cpu_value
      <4> QED BY <4>1, <4>2, <4>5, <4>6, <4>7, ShownWithinWhole DEF WithinWhole
    <3>2. c' = 0 /\ status' = STATE_OK
      BY <2>0 DEF VerdictInv
    <3> QED BY <2>1, <3>1, <3>2, JudgingStarts
  <2>5. count \in Int /\ (~(1 < count) => count <= 1)
    BY DEF VerdictInv
  <2>6. pc' \in {"sleep", "judge"}
    BY <2>0
  <2> QED BY <2>0, <2>1, <2>4, <2>5, <2>6 DEF VerdictInv
<1> QED BY <1>1, <1>2

\* A later sample is judged by the differences from the one before.
LEMMA NextSampleJudged ==
    ASSUME VerdictInv, IInv', Behaves, NextSample
    PROVE  VerdictInv'
<1>1. CASE Unusable
  BY <1>1 DEF NextSample, Fail, VerdictInv
<1>2. CASE ~Unusable
  <2> DEFINE new == cpu_stats_get_time
             diff == [l \in Table |->
                        Differences(new[l].t, cpuv[tog][l].t, debt[l])]
             clamped == [l \in Table |->
                           [diff[l] EXCEPT !.idle = Idle(diff[l].idle)]]
  <2>0. /\ pc = "sample" /\ tog' = 1 - tog
        /\ cpuv' = [cpuv EXCEPT ![1 - tog] = new]
        /\ d' = [l \in Table |-> Shown(clamped[l])]
        /\ ratio' = [l \in Table |-> Ratio(clamped[l])]
        /\ forward' = [l \in Table |->
                /\ cpuv[tog][l].cpuname => new[l].cpuname
                /\ debt[l] = 0 /\ cpuv[tog][l].t.idle <= new[l].t.idle]
        /\ pc' \in {"sleep", "judge"}
        /\ UNCHANGED <<options, c, status>>
    BY <1>2 DEF NextSample, verdict
  <2>1. Table' = Table /\ ncpus' = ncpus /\ options' = options
    BY <2>0, TableFacts DEF VerdictInv, IInv
  <2>2. ASSUME NEW l \in Table
        PROVE  /\ new[l].t \in Ticks /\ cpuv[tog][l].t \in Ticks
               /\ debt[l] \in -HalfInt .. 0
    BY ReadType DEF VerdictInv, IInv, TypeOK
  <2>3. ASSUME NEW l \in Table
        PROVE  /\ Sum(new[l].t) < JiffMod
               /\ (cpuv[tog][l].cpuname => new[l].cpuname)
                    => \A f \in Fields \ {"idle"} : cpuv[tog][l].t[f] <= new[l].t[f]
    BY <1>2, <2>0 DEF Behaves, CountsAdvance
  <2>4. ASSUME NEW l \in Table
        PROVE  /\ new[l].t.idle - cpuv[tog][l].t.idle \in -HalfInt .. HalfInt - 1
               /\ new[l].t.idle - cpuv[tog][l].t.idle + debt[l]
                    \in -HalfInt .. HalfInt - 1
    BY <1>2, <2>0 DEF Behaves, IdleStepsFit
  <2> HIDE DEF new
  <2>5. ASSUME NEW l \in Table, cpuv[tog][l].cpuname => new[l].cpuname
        PROVE  /\ IsDifference(clamped[l], new[l].t, cpuv[tog][l].t)
               /\ debt[l] = 0 /\ cpuv[tog][l].t.idle <= new[l].t.idle
                    => clamped[l].idle = new[l].t.idle - cpuv[tog][l].t.idle
    <3>1. clamped[l] = [Differences(new[l].t, cpuv[tog][l].t, debt[l]) EXCEPT
              !.idle = Idle(Differences(new[l].t, cpuv[tog][l].t, debt[l]).idle)]
      OBVIOUS
    <3> HIDE DEF clamped
    <3>2. PICK t, n, o, w : t = clamped[l] /\ n = new[l].t /\ o = cpuv[tog][l].t /\ w = debt[l]
      OBVIOUS
    <3>3. t = [Differences(n, o, w) EXCEPT !.idle = Idle(Differences(n, o, w).idle)]
      BY <3>1, <3>2
    <3>4. /\ n \in Ticks /\ o \in Ticks /\ w \in -HalfInt .. 0 /\ Sum(n) < JiffMod
          /\ \A f \in Fields \ {"idle"} : o[f] <= n[f]
          /\ n.idle - o.idle \in -HalfInt .. HalfInt - 1
          /\ n.idle - o.idle + w \in -HalfInt .. HalfInt - 1
      BY <2>2, <2>3, <2>4, <2>5, <3>2
    <3>5. IsDifference(t, n, o) /\ (w = 0 /\ o.idle <= n.idle => t.idle = n.idle - o.idle)
      BY <3>3, <3>4, ClampedDifference
    <3> QED BY <3>2, <3>5
  <2> HIDE DEF clamped
  <2>6. tog \in {0, 1} /\ tog' \in {0, 1} /\ 1 - tog' = tog /\ tog' # tog
    BY <2>0 DEF VerdictInv, IInv, TypeOK
  <2>7. cpuv'[tog'] = new /\ cpuv'[1 - tog'] = cpuv[tog]
    BY <2>0, <2>6 DEF VerdictInv, IInv, TypeOK
  <2>8. 1 < count /\ ~(count <= 1)
    BY <2>0 DEF VerdictInv
  <2>9. Judging'
    <3>1. ASSUME NEW l \in Table
          PROVE  /\ ~Went(l)' => WithinWhole(l)'
                 /\ forward'[l] => LineStatus(l)' = TrueStatus(l)'
      <4>0. (~Went(l)' \/ forward'[l]) => (cpuv[tog][l].cpuname => new[l].cpuname)
        BY <2>0, <2>7 DEF Went
      <4> SUFFICES ASSUME cpuv[tog][l].cpuname => new[l].cpuname
                   PROVE  /\ WithinWhole(l)'
                          /\ forward'[l] => LineStatus(l)' = TrueStatus(l)'
        BY <4>0
      <4>1. PICK t : t = clamped[l]
        OBVIOUS
      <4>2. PICK n : n = new[l].t
        OBVIOUS
      <4>3. PICK o : o = cpuv[tog][l].t
        OBVIOUS
      <4>4. /\ d'[l] = Shown(t) /\ ratio'[l] = Ratio(t)
            /\ cpuv'[tog'][l].t = n /\ cpuv'[1 - tog'][l].t = o
        BY <2>0, <2>7, <4>1, <4>2, <4>3
      <4>5. /\ IsDifference(t, n, o)
            /\ forward'[l] => t.idle = n.idle - o.idle
        BY <2>0, <2>5, <4>1, <4>2, <4>3
      <4>6. LineStatus(l)' = PercentStatus(Shown(t)[cpu_value], Ratio(t))
        BY <2>1, <4>4 DEF LineStatus, PercentStatus, cpu_value
      <4>7. TrueStatus(l)'
              = LET whole == Sum(n) - Sum(o)
                IN IF whole = 0 THEN PercentStatus(0, 1)
                   ELSE PercentStatus(n[cpu_value] - o[cpu_value], whole)
        BY <2>1, <2>8, <4>4 DEF TrueStatus, PercentStatus, cpu_value
      <4>8. forward'[l] => PercentStatus(Shown(t)[cpu_value], Ratio(t))
              = LET whole == Sum(n) - Sum(o)
                IN IF whole = 0 THEN PercentStatus(0, 1)
                   ELSE PercentStatus(n[cpu_value] - o[cpu_value], whole)
        BY <4>5, ShownStatus, OptionFacts
      <4>9. t \in Ticks /\ Sum(t) < JiffMod
        BY <4>5 DEF IsDifference
      <4> QED BY <4>4, <4>6, <4>7, <4>8, <4>9, ShownWithinWhole DEF WithinWhole
    <3>2. c' = 0 /\ status' = STATE_OK
      BY <2>0 DEF VerdictInv
    <3> QED BY <2>1, <3>1, <3>2, JudgingStarts
  <2> QED BY <2>0, <2>1, <2>9 DEF VerdictInv
<1> QED BY <1>1, <1>2

\* Each line judged makes the status the worse of the one so far and its own.
LEMMA JudgeJudged ==
    ASSUME VerdictInv, IInv', Judge
    PROVE  VerdictInv'
<1>1. /\ pc = "judge" /\ UNCHANGED <<options, samples, kernel>> /\ Judging
  BY DEF Judge, VerdictInv
<1>2. /\ Table' = Table /\ ncpus' = ncpus /\ ncpus \in Nat /\ Table \subseteq Nat
      /\ Table = 0 .. ncpus - 1
  BY <1>1, TableFacts DEF VerdictInv, IInv, Table
<1>3. \A l \in Table : LineStatus(l)' = LineStatus(l) /\ TrueStatus(l)' = TrueStatus(l)
  BY <1>1 DEF LineStatus, TrueStatus, PercentStatus, cpu_value, samples
<1>4. /\ \A l \in Table' : ~Went(l)' => WithinWhole(l)'
      /\ \A l \in Table' : forward'[l] => LineStatus(l)' = TrueStatus(l)'
  BY <1>1, <1>2, <1>3 DEF Judging, Went, WithinWhole, samples
<1>5. c \in Nat /\ status \in Int /\ \A l \in Table : LineStatus(l) \in Int
  <2>1. c \in Nat /\ status \in Statuses
    BY <1>2 DEF VerdictInv, IInv, TypeOK
  <2> QED BY <2>1, PercentStatusType
          DEF LineStatus, Statuses, STATE_OK, STATE_WARNING, STATE_CRITICAL, STATE_UNKNOWN
<1>6. CASE c < ncpus
  <2>1. /\ status' = Worse(status, LineStatus(c)) /\ c' = c + 1
        /\ pc' = pc /\ exit' = exit /\ c \in Table
    BY <1>2, <1>5, <1>6 DEF Judge, LineStatus
  <2>2. /\ status <= status' /\ LineStatus(c) <= status'
        /\ status' = status \/ status' = LineStatus(c)
    BY <1>5, <2>1 DEF Worse
  <2>3. \A l \in Table' : l < c' => LineStatus(l)' <= status'
    <3> SUFFICES ASSUME NEW l \in Table, l < c + 1
                 PROVE  LineStatus(l) <= status'
      BY <1>2, <1>3, <2>1
    <3>1. CASE l = c
      BY <2>2, <3>1
    <3>2. CASE l # c
      <4>1. l < c
        BY <1>2, <1>5, <3>2
      <4>2. LineStatus(l) <= status
        BY <1>1, <4>1 DEF Judging
      <4> QED BY <1>5, <2>1, <2>2, <4>2
    <3> QED BY <3>1, <3>2
  <2>4. status' = STATE_OK \/ \E l \in Table' : l < c' /\ LineStatus(l)' = status'
    <3>1. CASE status' = LineStatus(c)
      <4>1. PICK l : l = c
        OBVIOUS
      <4>2. l \in Table' /\ l < c' /\ LineStatus(l)' = status'
        BY <1>2, <1>3, <1>5, <2>1, <3>1, <4>1
      <4> QED BY <4>2
    <3>2. CASE status' = status
      <4>1. CASE status = STATE_OK
        BY <3>2, <4>1
      <4>2. CASE status # STATE_OK
        <5>1. PICK l \in Table : l < c /\ LineStatus(l) = status
          BY <1>1, <4>2 DEF Judging
        <5>2. l \in Table' /\ l < c' /\ LineStatus(l)' = status'
          BY <1>2, <1>3, <1>5, <2>1, <3>2, <5>1
        <5> QED BY <5>2
      <4> QED BY <4>1, <4>2
    <3> QED BY <2>2, <3>1, <3>2
  <2>5. Judging'
    BY <1>4, <2>3, <2>4, Zenon DEF Judging
  <2> QED BY <1>1, <2>1, <2>5 DEF VerdictInv
<1>7. CASE ~(c < ncpus)
  <2>1. pc' = "exited" /\ exit' = Answer /\ c' = c /\ status' = status
    BY <1>7 DEF Judge
  <2>2. c = ncpus
    BY <1>2, <1>7 DEF VerdictInv, IInv, TypeOK
  <2>3. \A l \in Table' : l < c' => LineStatus(l)' <= status'
    BY <1>1, <1>2, <1>3, <2>1 DEF Judging
  <2>4. status' = STATE_OK \/ \E l \in Table' : l < c' /\ LineStatus(l)' = status'
    BY <1>1, <1>2, <1>3, <2>1 DEF Judging
  <2>5. Judging'
    BY <1>4, <2>3, <2>4, Zenon DEF Judging
  <2> QED BY <1>1, <1>2, <2>1, <2>2, <2>5 DEF VerdictInv, Answer
<1> QED BY <1>6, <1>7

\* Every step keeps the invariant of the verdict while the kernel behaves.
LEMMA NextVerdictInv == VerdictInv /\ Behaves /\ [Next]_vars => VerdictInv'
<1> SUFFICES ASSUME VerdictInv, Behaves, [Next]_vars
             PROVE  VerdictInv'
  OBVIOUS
<1>0. IInv'
  BY NextIInv DEF VerdictInv, Behaves
<1>7. per_cpu \in BOOLEAN
  BY DEF VerdictInv, IInv
<1>1. CASE ParseOptions
  <2>1. CASE BadOptions \/ ~host.sysfs
    BY <1>0, <1>1, <2>1 DEF ParseOptions, Fail, VerdictInv
  <2>2. CASE ~(BadOptions \/ ~host.sysfs)
    <3>1. /\ pc = "options" /\ pc' = "first"
          /\ UNCHANGED <<options, samples, kernel, verdict>>
      BY <1>1, <2>2 DEF ParseOptions
    <3>2. Table' = Table /\ forward' = forward
      BY <1>7, <3>1, TableFacts DEF samples
    <3> QED BY <1>0, <3>1, <3>2 DEF VerdictInv, verdict
  <2> QED BY <2>1, <2>2
<1>2. CASE FirstSample
  BY <1>0, <1>2, FirstSampleJudged DEF Behaves
<1>3. CASE Sleep
  <2>1. /\ pc = "sleep" /\ pc' = "sample"
        /\ UNCHANGED <<options, samples, verdict>>
    BY <1>3 DEF Sleep
  <2> QED BY <1>0, <2>1 DEF VerdictInv, verdict
<1>4. CASE NextSample
  BY <1>0, <1>4, NextSampleJudged
<1>5. CASE Judge
  BY <1>0, <1>5, JudgeJudged
<1>6. CASE UNCHANGED vars
  <2>1. /\ Table' = Table /\ ncpus' = ncpus
        /\ UNCHANGED <<pc, exit, c, status, options, forward>>
    BY <1>7, <1>6, TableFacts DEF vars, samples, verdict
  <2>2. Judging => Judging'
    <3>1. \A l \in Table : LineStatus(l)' = LineStatus(l) /\ TrueStatus(l)' = TrueStatus(l)
      BY <1>6 DEF vars, samples, LineStatus, TrueStatus, PercentStatus, cpu_value
    <3> QED BY <1>6, <2>1, <3>1 DEF Judging, Went, WithinWhole, vars, samples
  <2> QED BY <1>0, <2>1, <2>2 DEF VerdictInv
<1> QED BY <1>1, <1>2, <1>3, <1>4, <1>5, <1>6 DEF Next

\* The invariant of the verdict holds initially.
LEMMA InitVerdictInv == Init => VerdictInv
<1> SUFFICES ASSUME Init PROVE VerdictInv
  OBVIOUS
<1>1. IInv /\ count \in Int
  BY InitIInv, OptionFacts DEF Init
<1> QED BY <1>1 DEF Init, VerdictInv

\* The verdict invariant holds in every behaviour in which the kernel behaves.
LEMMA VerdictInvariant == Spec /\ []IdleStepsFit /\ []CountsAdvance => []VerdictInv
<1>1. IdleStepsFit /\ CountsAdvance <=> Behaves
  BY DEF Behaves
<1> QED BY <1>1, InitVerdictInv, NextVerdictInv, PTL DEF Spec

\* However often the idle count of a line runs backwards, as long as the other counts
\* advance and fit: what is judged of a line are parts of one whole, unless its CPU
\* went offline in the last interval.
THEOREM SharesAreWithinWhole ==
    Spec /\ []IdleStepsFit /\ []CountsAdvance => []SharesWithinWhole
<1>1. VerdictInv => SharesWithinWhole
  BY DEF VerdictInv, Judging, WithinWhole, SharesWithinWhole
<1> QED BY <1>1, VerdictInvariant, PTL

\* For every number of CPUs, samples and thresholds: where the lines ran forward in
\* the last interval, the exit status is the worst that the kernel's own counts deserve.
THEOREM VerdictTrue ==
    Spec /\ []IdleStepsFit /\ []CountsAdvance => []VerdictIsTrue
<1>1. ASSUME VerdictInv
      PROVE  VerdictIsTrue
  <2> SUFFICES ASSUME pc = "exited", exit # STATE_UNKNOWN, \A l \in Table : forward[l]
               PROVE  /\ \A l \in Table : TrueStatus(l) <= exit
                      /\ \E l \in Table : TrueStatus(l) = exit
    BY DEF VerdictIsTrue
  <2>1. Judging /\ c = ncpus /\ exit = status
    BY <1>1 DEF VerdictInv
  <2>2. 0 \in Table /\ Table \subseteq Nat /\ ncpus \in Nat /\ \A l \in Table : l < c
    BY <1>1, <2>1, TableFacts DEF VerdictInv, IInv, Table
  <2>3. \A l \in Table : LineStatus(l) = TrueStatus(l) /\ LineStatus(l) <= exit
    BY <2>1, <2>2 DEF Judging
  <2>4. \E l \in Table : LineStatus(l) = exit
    <3>1. CASE status = STATE_OK
      <4>1. LineStatus(0) \in Statuses /\ LineStatus(0) <= STATE_OK
        BY <2>1, <2>2, <2>3, <3>1, PercentStatusType DEF LineStatus
      <4>2. LineStatus(0) = STATE_OK
        BY <4>1 DEF Statuses, STATE_OK, STATE_WARNING, STATE_CRITICAL, STATE_UNKNOWN
      <4> QED BY <2>1, <2>2, <3>1, <4>2
    <3>2. CASE status # STATE_OK
      BY <2>1, <3>2 DEF Judging
    <3> QED BY <3>1, <3>2
  <2> QED BY <2>3, <2>4
<1> QED BY <1>1, VerdictInvariant, PTL

-----------------------------------------------------------------------------
(* UNKNOWN for a reason *)

\* What has been found at each place, however the kernel counts.
ReasonInv ==
    /\ per_cpu \in BOOLEAN /\ listed \subseteq Lines \ {0}
    /\ status \in {STATE_OK, STATE_WARNING, STATE_CRITICAL}
    /\ pc \in {"first", "sleep", "sample", "judge"} => ~BadOptions /\ host.sysfs
    /\ pc \in {"sleep", "sample", "judge"} => host.stat /\ host.cpu
    /\ pc = "judge" => ~BeyondTable
    /\ UnknownHasAReason

\* A CPU has no entry exactly if the table is of CPUs and the number is beyond it.
LEMMA BeyondMeans ==
    ASSUME per_cpu \in BOOLEAN, listed \subseteq Lines \ {0}
    PROVE  BeyondTable <=> per_cpu /\ ~(listed \subseteq Table)
<1>1. \A l \in listed : l \in Nat
  BY CpuAssumption DEF Lines
<1>2. ncpus \in Nat /\ (ncpus > 1 <=> per_cpu)
  BY CpuAssumption DEF ncpus
<1>3. \A l \in listed : l \in Table <=> ~(ncpus <= l)
  BY <1>1, <1>2 DEF Table
<1> QED BY <1>2, <1>3 DEF BeyondTable

\* Giving up where one of the reasons is found.
LEMMA FailHasReason ==
    ASSUME ReasonInv, Fail, BadOptions \/ ~host.sysfs \/ Unusable
    PROVE  ReasonInv'
<1>1. UNCHANGED <<options, kernel, status>> /\ pc' = "exited" /\ exit' = STATE_UNKNOWN
  BY DEF Fail
<1>2. BadOptions' = BadOptions /\ Table' = Table /\ per_cpu' = per_cpu
  BY <1>1 DEF BadOptions, BadNumbers, Table, ncpus, per_cpu
<1>3. \/ BadOptions
      \/ ~host.sysfs \/ ~host.stat \/ ~host.cpu \/ ~host.cpuinfo
      \/ per_cpu /\ ~(listed \subseteq Table)
  BY BeyondMeans DEF ReasonInv, Unusable
<1> QED BY <1>1, <1>2, <1>3 DEF ReasonInv, UnknownHasAReason, kernel

\* Every step keeps it.
LEMMA NextReason == ReasonInv /\ [Next]_vars => ReasonInv'
<1> SUFFICES ASSUME ReasonInv, [Next]_vars PROVE ReasonInv'
  OBVIOUS
<1> USE DEF samples, kernel, verdict
<1>0. /\ UNCHANGED options => /\ BadOptions' = BadOptions /\ Table' = Table
                              /\ ncpus' = ncpus /\ per_cpu' = per_cpu
      /\ UNCHANGED options /\ listed' = listed => BeyondTable' = BeyondTable
  BY DEF BadOptions, BadNumbers, Table, ncpus, BeyondTable, per_cpu
<1>1. CASE ParseOptions
  <2>1. CASE BadOptions \/ ~host.sysfs
    BY <1>1, <2>1, FailHasReason DEF ParseOptions
  <2>2. CASE ~(BadOptions \/ ~host.sysfs)
    BY <1>0, <1>1, <2>2 DEF ParseOptions, ReasonInv, UnknownHasAReason
  <2> QED BY <2>1, <2>2
<1>2. CASE FirstSample
  <2>1. CASE Unusable
    BY <1>2, <2>1, FailHasReason DEF FirstSample
  <2>2. CASE ~Unusable
    <3>1. /\ pc = "first" /\ pc' \in {"sleep", "judge"}
          /\ UNCHANGED <<options, verdict, kernel>>
      BY <1>2, <2>2 DEF FirstSample
    <3> QED BY <1>0, <2>2, <3>1 DEF ReasonInv, Unusable, UnknownHasAReason
  <2> QED BY <2>1, <2>2
<1>3. CASE Sleep
  <2>1. /\ pc = "sleep" /\ pc' = "sample" /\ UNCHANGED <<options, verdict, host>>
        /\ listed' \subseteq Lines \ {0}
    BY <1>3 DEF Sleep, ReasonInv, Online
  <2> QED BY <1>0, <2>1 DEF ReasonInv, UnknownHasAReason
<1>4. CASE NextSample
  <2>1. CASE Unusable
    BY <1>4, <2>1, FailHasReason DEF NextSample
  <2>2. CASE ~Unusable
    <3>1. /\ pc = "sample" /\ pc' \in {"sleep", "judge"}
          /\ UNCHANGED <<options, verdict, kernel>>
      BY <1>4, <2>2 DEF NextSample
    <3> QED BY <1>0, <2>2, <3>1 DEF ReasonInv, Unusable, UnknownHasAReason
  <2> QED BY <2>1, <2>2
<1>5. CASE Judge
  <2>1. pc = "judge" /\ UNCHANGED <<options, kernel>>
    BY <1>5 DEF Judge
  <2>2. CASE c < ncpus
    <3>1. status' = Worse(status, PercentStatus(d[c][cpu_value], ratio[c])) /\ UNCHANGED <<pc, exit>>
      BY <1>5, <2>2 DEF Judge
    <3>2. PercentStatus(d[c][cpu_value], ratio[c]) \in {STATE_OK, STATE_WARNING, STATE_CRITICAL}
      BY DEF PercentStatus, get_statusPercent, get_status
    <3>3. status' \in {STATE_OK, STATE_WARNING, STATE_CRITICAL}
      BY <3>1, <3>2 DEF Worse, ReasonInv
    <3> QED BY <1>0, <2>1, <3>1, <3>3 DEF ReasonInv, UnknownHasAReason
  <2>3. CASE ~(c < ncpus)
    <3>1. pc' = "exited" /\ exit' = Answer /\ UNCHANGED status
      BY <1>5, <2>3 DEF Judge
    <3>2. Answer = STATE_UNKNOWN <=> ~host.cpuinfo
      BY DEF ReasonInv, Answer, STATE_OK, STATE_WARNING, STATE_CRITICAL, STATE_UNKNOWN
    <3>3. /\ ~BadOptions /\ host.sysfs /\ host.stat /\ host.cpu
          /\ ~(per_cpu /\ ~(listed \subseteq Table))
      BY <2>1, BeyondMeans DEF ReasonInv
    <3> QED BY <1>0, <2>1, <3>1, <3>2, <3>3 DEF ReasonInv, UnknownHasAReason
  <2> QED BY <2>2, <2>3
<1>6. CASE UNCHANGED vars
  BY <1>0, <1>6 DEF vars, ReasonInv, UnknownHasAReason
<1> QED BY <1>1, <1>2, <1>3, <1>4, <1>5, <1>6 DEF Next

\* check_cpu and check_iowait say UNKNOWN exactly when the command line gets no verdict,
\* the host lacks something they read, or a CPU has no entry in the table, whatever the
\* kernel counts and however CPUs go and come.
THEOREM GivesUpForAReason == Spec => []UnknownHasAReason
<1>1. Init => ReasonInv
  <2> SUFFICES ASSUME Init PROVE ReasonInv
    OBVIOUS
  <2> QED BY OptionFacts DEF Init, Online, ReasonInv, UnknownHasAReason
<1>2. ReasonInv => UnknownHasAReason
  BY DEF ReasonInv
<1> QED BY <1>1, <1>2, NextReason, PTL DEF Spec
=============================================================================
