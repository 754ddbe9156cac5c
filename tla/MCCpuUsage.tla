----------------------------- MODULE MCCpuUsage -----------------------------
(***************************************************************************)
(* Small instances of CpuUsage.  The moduli are small enough for a wrong   *)
(* sign to wrap, large enough for every true count.  Three sleeps let idle *)
(* run backwards twice and recover, and a CPU go and come back; the third  *)
(* CPU has no entry in a table for two.                                    *)
(***************************************************************************)
EXTENDS CpuUsage

Tick(u, s, id, w, st) ==
    [user |-> u, system |-> s, idle |-> id, iowait |-> w, steal |-> st]

MCBoot == {Tick(1, 1, 3, 0, 1)}

\* The movements of a line: none, a busy second, waiting and idle, idle backwards
\* (alone and while busy).
Still == Tick(0, 0, 0, 0, 0)
Busy == Tick(2, 1, 0, 0, 0)
Waiting == Tick(0, 0, 3, 1, 0)
Back == Tick(0, 0, -1, 0, 0)
BusyBack == Tick(1, 0, -2, 0, 1)

\* One movement for the line "cpu ", one for the CPU with the table's last entry, one for
\* the others.
MCGrowths ==
    {[l \in Lines |-> IF l = 0 THEN pair[1] ELSE IF l = NConf THEN pair[2] ELSE Busy] :
        pair \in {<<Busy, Still>>, <<Waiting, Busy>>, <<Back, Waiting>>,
                  <<BusyBack, Back>>, <<Waiting, BusyBack>>}}

UpTo(n) == [DefaultRange EXCEPT !.end = n, !.end_infinity = FALSE]
TwentySixty == [warning |-> UpTo(20), critical |-> UpTo(60)]
NoneAtAll == [warning |-> UpTo(0), critical |-> NULL]

Line == [name |-> "cpu", known |-> TRUE, summary |-> FALSE, percentages |-> TRUE,
         ranges_ok |-> TRUE, numbers |-> TRUE, delay |-> 1, count |-> 2,
         per_cpu |-> FALSE, my_threshold |-> TwentySixty]

\* Each refusal in turn, the boundaries of delay and count, and the lines measured.
MCCommandLines ==
    {[Line EXCEPT !.name = "other"], [Line EXCEPT !.known = FALSE],
     [Line EXCEPT !.summary = TRUE], [Line EXCEPT !.percentages = FALSE],
     [Line EXCEPT !.ranges_ok = FALSE], [Line EXCEPT !.numbers = FALSE]}
    \cup {[Line EXCEPT !.delay = n] : n \in {0, 60, 61}}
    \cup {[Line EXCEPT !.count = n, !.name = "iowait", !.my_threshold = NoneAtAll] :
            n \in {-1, 0, 1, 3, 101}}
    \cup {[Line EXCEPT !.count = n, !.per_cpu = TRUE] : n \in {1, 2, 4}}
    \cup {[Line EXCEPT !.name = "iowait", !.count = 3, !.per_cpu = TRUE,
                       !.my_threshold = NoneAtAll]}

\* A host with everything, and each thing missing.
Whole == [sysfs |-> TRUE, stat |-> TRUE, cpu |-> TRUE, cpuinfo |-> TRUE]
MCCpuHosts == {Whole} \cup {[Whole EXCEPT ![part] = FALSE] : part \in DOMAIN Whole}
=============================================================================
