------------------------------- MODULE Netinfo -------------------------------
(***************************************************************************)
(* check_network (plugins/check_network.c over lib/netinfo.c and           *)
(* lib/netinfo-private.c): the plugin dumps the links of the kernel over   *)
(* netlink, sleeps, dumps them again, pairs the two lists by position,     *)
(* turns the counters of the first into rates, and judges every link.      *)
(*                                                                         *)
(* A dump comes in batches, and each message of a batch is completed by    *)
(* ioctls on the name of its link, so links come, go, change flags and     *)
(* carry traffic between any two steps.  tx and rx stand for the counters  *)
(* the program is named after (for collisions and multicast, tx is the one *)
(* counter).  unsigned int is modulo UintMod (2^32 in the code).           *)
(***************************************************************************)
EXTENDS Thresholds, Sequences, Functions

CONSTANTS
    UintMod,            \* the modulus of unsigned int
    Mega,               \* bits per second in a Mbit/s (1000 * 1000)
    LastIndex,          \* the highest ifindex the kernel may ever give
    NameOf, LinkOf,     \* the name of a link, and the link when it appears
    AtBoot,             \* the links there before the plugin starts
    Matches,            \* the names the regular expression matches
    Deltas,             \* the traffic a link may see at a time
    MaxEvents,          \* how often the kernel changes anything
    OptionSets,         \* the command lines
    DELAY_DEFAULT, DELAY_MAX

Index == 1 .. LastIndex
Metrics == {"bytes", "collisions", "drops", "errors", "multicast", "packets"}
Flags == {"UP", "RUNNING", "LOOPBACK"}
Uint == 0 .. UintMod - 1

DUPLEX_HALF == 0
DUPLEX_FULL == 1
DUPLEX_UNKNOWN == 255
SPEED_UNKNOWN == -1

Counts(S) == [tx : S, rx : S]
Link == [flags : SUBSET Flags, wireless : BOOLEAN, speed : Uint \cup {SPEED_UNKNOWN},
         duplex : {DUPLEX_HALF, DUPLEX_FULL, DUPLEX_UNKNOWN}, stats : Counts(Nat)]

\* The command line: "omit" are the --no-<metric> options, "delay" is NULL when
\* not given, "regex_ok" and "ranges_ok" whether the strings given parse.
CommandLine ==
    [check : {"bytes", "collisions", "drops", "errors", "multicast"},
     omit : SUBSET Metrics, check_link : BOOLEAN, no_loopback : BOOLEAN,
     no_wireless : BOOLEAN, ifname_debug : BOOLEAN, perc : BOOLEAN,
     tx_only : BOOLEAN, rx_only : BOOLEAN, delay : Int \cup {NULL},
     regex_ok : BOOLEAN, ranges_ok : BOOLEAN,
     my_threshold : [warning : RangeStruct \cup {NULL},
                     critical : RangeStruct \cup {NULL}]]

ASSUME NetAssumption ==
    /\ UintMod \in Nat \ {0} /\ Mega \in Nat \ {0} /\ Mega % 16 = 0
    /\ LastIndex \in Nat /\ AtBoot \subseteq Index
    /\ \A m, n \in AtBoot : NameOf[m] = NameOf[n] => m = n
    /\ LinkOf \in [Index -> Link] /\ NULL \notin Link
    /\ Deltas \subseteq Counts(Nat) /\ MaxEvents \in Nat
    /\ DELAY_DEFAULT \in Nat \ {0} /\ DELAY_MAX \in Nat
    /\ OptionSets \subseteq CommandLine

VARIABLES
    pc, opt,            \* main(), its options
    snap, reply, list,  \* the dump taken, messages not handled yet, both lists
    pos, ninterfaces,   \* the position in the lists, the pairs counted
    status, exit,       \* the verdict
    netlink, cursor,    \* the kernel: its answers, the dump's next index,
    life, link, events  \* the links

dump    == <<snap, reply, list, cursor>>
verdict == <<status, exit>>
links   == <<life, link, events>>
vars == <<pc, opt, dump, pos, ninterfaces, verdict, netlink, links>>

uint(x) == x % UintMod
Present == {n \in Index : life[n] = "present"}

Init ==
    /\ pc = "options" /\ opt \in OptionSets
    /\ snap = 1 /\ reply = {} /\ list = [k \in {1, 2} |-> <<>>]
    /\ pos = 1 /\ ninterfaces = 0
    /\ status = STATE_OK /\ exit = RUNNING
    /\ netlink \in {"answers", "refuses", "fails"} /\ cursor = 1
    /\ life = [n \in Index |-> IF n \in AtBoot THEN "present" ELSE "unborn"]
    /\ link = LinkOf /\ events = 0

-----------------------------------------------------------------------------
(* The kernel *)

Event == pc \in {"recv", "sleep"} /\ events < MaxEvents /\ events' = events + 1

Traffic ==
    /\ Event
    /\ \E n \in Present, delta \in Deltas :
         link' = [link EXCEPT ![n].stats =
                    [tx |-> @.tx + delta.tx, rx |-> @.rx + delta.rx]]
    /\ UNCHANGED <<pc, opt, dump, pos, ninterfaces, verdict, netlink, life>>

Carrier ==
    /\ Event
    /\ \E n \in Present :
         link' = [link EXCEPT ![n].flags =
                    IF "RUNNING" \in @ THEN @ \ {"RUNNING"} ELSE @ \cup {"RUNNING"}]
    /\ UNCHANGED <<pc, opt, dump, pos, ninterfaces, verdict, netlink, life>>

\* Indices grow; a name is that of one link at a time.
Appear ==
    /\ Event
    /\ \E n \in Index :
         /\ \A m \in Index : life[m] = "unborn" => n <= m
         /\ life[n] = "unborn" /\ \A m \in Present : NameOf[m] # NameOf[n]
         /\ life' = [life EXCEPT ![n] = "present"]
    /\ UNCHANGED <<pc, opt, dump, pos, ninterfaces, verdict, netlink, link>>

Vanish ==
    /\ Event
    /\ \E n \in Present : life' = [life EXCEPT ![n] = "gone"]
    /\ UNCHANGED <<pc, opt, dump, pos, ninterfaces, verdict, netlink, link>>

-----------------------------------------------------------------------------
(* The options *)

\* plugin_error and usage (stderr).
Fail(s) ==
    /\ pc' = "exited" /\ exit' = s
    /\ UNCHANGED <<opt, dump, pos, ninterfaces, status, netlink, links>>

\* delay is an unsigned long: a negative argument is a huge one.
delay == IF opt.delay # NULL THEN opt.delay
         ELSE IF opt.ifname_debug THEN 0 ELSE DELAY_DEFAULT

BadOptions ==
    \/ opt.delay # NULL /\ (opt.ifname_debug \/ delay < 1 \/ DELAY_MAX < delay)
    \/ opt.tx_only /\ opt.rx_only
    \/ opt.check # "bytes" /\ opt.check \in opt.omit
    \/ ~opt.regex_ok

\* main() up to netinfo(), and regcomp().
ParseOptions ==
    /\ pc = "options"
    /\ IF BadOptions THEN Fail(STATE_UNKNOWN)
       ELSE /\ pc' = "dump"
            /\ UNCHANGED <<opt, dump, pos, ninterfaces, verdict, netlink, links>>

-----------------------------------------------------------------------------
(* get_netinfo_snapshot *)

\* get_rtnl_fd(), sendmsg_rtnl_links_dump().
Request ==
    /\ pc = "dump"
    /\ IF netlink = "fails" THEN Fail(STATE_UNKNOWN)
       ELSE /\ pc' = "recv" /\ cursor' = 1
            /\ UNCHANGED <<opt, snap, reply, list, pos, ninterfaces, verdict,
                           netlink, links>>

\* A NLMSG_ERROR is skipped; recvmsg() then fails, and is retried, forever.
ErrorIgnored ==
    /\ pc = "recv" /\ netlink = "refuses" /\ netlink' = "silent"
    /\ UNCHANGED <<pc, opt, dump, pos, ninterfaces, verdict, links>>

\* recvmsg() returns a batch: the links present from the cursor to some index, in the
\* order of their indices.
Recv ==
    /\ pc = "recv" /\ netlink = "answers" /\ reply = {}
    /\ \E last \in cursor .. LastIndex :
         /\ Present \cap cursor .. last # {}
         /\ reply' = {[ix |-> n, flags |-> link[n].flags, stats |-> link[n].stats] :
                        n \in Present \cap cursor .. last}
         /\ cursor' = last + 1
    /\ UNCHANGED <<pc, opt, snap, list, pos, ninterfaces, verdict, netlink, links>>

\* The ioctls on a name: NULL when no link has it any more.
Ioctl(name) ==
    IF \E n \in Present : NameOf[n] = name
    THEN link[CHOOSE n \in Present : NameOf[n] = name] ELSE NULL

link_wireless(name) == Ioctl(name) # NULL /\ Ioctl(name).wireless

\* check_link_speed(): no answer and an unknown speed are both speed 0.
speed_of(name) == IF Ioctl(name) = NULL THEN 0
                  ELSE IF Ioctl(name).speed = SPEED_UNKNOWN THEN 0
                  ELSE Ioctl(name).speed
duplex_of(name) == IF Ioctl(name) = NULL THEN DUPLEX_UNKNOWN
                   ELSE Ioctl(name).duplex

\* A mutant: --no-loopback is forgotten.
SkipNotLoopback(msg) ==
    \/ link_wireless(NameOf[msg.ix]) /\ opt.no_wireless
    \/ NameOf[msg.ix] \notin Matches

Skip(msg) ==
    \/ "LOOPBACK" \in msg.flags /\ opt.no_loopback
    \/ link_wireless(NameOf[msg.ix]) /\ opt.no_wireless
    \/ NameOf[msg.ix] \notin Matches

\* The entry made of a message, which names every link and counts for it.  total is a
\* ghost: the untruncated counts.
EntryOf(msg) ==
    [ix |-> msg.ix, flags |-> msg.flags,
     speed |-> speed_of(NameOf[msg.ix]), duplex |-> duplex_of(NameOf[msg.ix]),
     stats |-> [tx |-> uint(msg.stats.tx), rx |-> uint(msg.stats.rx)],
     total |-> msg.stats]

\* A RTM_NEWLINK message: a new entry at the end of the list.
NewLink ==
    /\ pc = "recv"
    /\ \E msg \in reply :
         /\ \A m \in reply : msg.ix <= m.ix
         /\ reply' = reply \ {msg}
         /\ list' = IF Skip(msg) THEN list
                    ELSE [list EXCEPT ![snap] = Append(@, EntryOf(msg))]
    /\ UNCHANGED <<pc, opt, snap, cursor, pos, ninterfaces, verdict, netlink, links>>

\* link_wireless() or check_link_speed() gets no socket for its ioctl.
NoSocket ==
    /\ pc = "recv" /\ reply # {} /\ netlink' = "no_socket"
    /\ pc' = "exited" /\ exit' = STATE_UNKNOWN
    /\ UNCHANGED <<opt, dump, pos, ninterfaces, status, links>>

\* NLMSG_DONE: the plugin sleeps after its first dump, or prints the names and
\* exits if there is no delay; it pairs the lists after its second.
Done ==
    /\ pc = "recv" /\ netlink = "answers" /\ reply = {}
    /\ \A n \in Present : n < cursor
    /\ IF snap = 1 /\ delay = 0
       THEN pc' = "exited" /\ exit' = STATE_UNKNOWN /\ UNCHANGED status
       ELSE /\ pc' = IF snap = 1 THEN "sleep" ELSE "pair"
            /\ UNCHANGED verdict
    /\ UNCHANGED <<opt, dump, pos, ninterfaces, netlink, links>>

\* The end of "sleep (seconds)".
Wake ==
    /\ pc = "sleep" /\ pc' = "dump" /\ snap' = 2
    /\ UNCHANGED <<opt, reply, list, cursor, pos, ninterfaces, verdict, netlink,
                   links>>

-----------------------------------------------------------------------------
(* netinfo *)

\* A mutant: a counter that ran backwards is one that was reset.
DIVReset(a, b) == (IF b < a THEN b + delay - 1 ELSE b - a + delay - 1) \div delay

\* DIV: ceil of an unsigned difference over the seconds.
DIV(a, b) == (uint(b - a) + delay - 1) \div delay

Paired == pos <= Len(list[1]) /\ pos <= Len(list[2])

\* One turn of the loop over both lists: the entries at pos must be of one name.
Pair ==
    /\ pc = "pair" /\ Paired
    /\ LET ifl == list[1][pos]
           ifl2 == list[2][pos]
       IN IF NameOf[ifl.ix] # NameOf[ifl2.ix] THEN Fail(STATE_UNKNOWN)
          ELSE IF opt.check_link /\ ~({"UP", "RUNNING"} \subseteq ifl.flags)
          THEN Fail(STATE_CRITICAL)
          ELSE /\ list' = [list EXCEPT ![1][pos].stats =
                             [tx |-> DIV(ifl.stats.tx, ifl2.stats.tx),
                              rx |-> DIV(ifl.stats.rx, ifl2.stats.rx)]]
               /\ pos' = pos + 1 /\ ninterfaces' = ninterfaces + 1
               /\ UNCHANGED <<pc, opt, snap, reply, cursor, verdict, netlink, links>>

\* The end of either list, and set_thresholds() in main().
PairsDone ==
    /\ pc = "pair" /\ ~Paired
    /\ IF ~opt.ranges_ok THEN Fail(STATE_UNKNOWN)
       ELSE /\ pc' = "judge" /\ pos' = 1
            /\ UNCHANGED <<opt, dump, ninterfaces, verdict, netlink, links>>

-----------------------------------------------------------------------------
(* main, from the thresholds to the end *)

get_threshold_metric(tx, rx) ==
    uint((IF opt.tx_only THEN 0 ELSE rx) + (IF opt.rx_only THEN 0 ELSE tx))

counter(e) == IF opt.check \in {"collisions", "multicast"} THEN e.stats.tx
              ELSE get_threshold_metric(e.stats.tx, e.stats.rx)

\* "iflist_get_speed (ifl) * 1000*1000/8", bytes per second in 32 bits.
SpeedBytes(e) == uint(e.speed * Mega) \div 8
Speed(e) == IF e.duplex = DUPLEX_HALF THEN SpeedBytes(e) \div 2 ELSE SpeedBytes(e)

Percent(e) == opt.check = "bytes" /\ opt.perc /\ Speed(e) > 0

iface_status(e) ==
    IF Percent(e) THEN get_statusPercent(counter(e), Speed(e), opt.my_threshold)
                  ELSE get_status(counter(e), opt.my_threshold)

Thresholded == opt.my_threshold.warning # NULL \/ opt.my_threshold.critical # NULL

\* A mutant: the last link decides.
JudgeLast ==
    /\ pc = "judge" /\ pos <= Len(list[1])
    /\ LET ifl == list[1][pos]
       IN IF opt.perc /\ Thresholded /\ SpeedBytes(ifl) = 0 THEN Fail(STATE_UNKNOWN)
          ELSE /\ status' = iface_status(ifl)
               /\ pos' = pos + 1
               /\ UNCHANGED <<pc, opt, dump, ninterfaces, exit, netlink, links>>

\* One turn of the loop over the first list: all of it, paired or not.
Judge ==
    /\ pc = "judge" /\ pos <= Len(list[1])
    /\ LET ifl == list[1][pos]
       IN IF opt.perc /\ Thresholded /\ SpeedBytes(ifl) = 0 THEN Fail(STATE_UNKNOWN)
          ELSE /\ status' = Worse(status, iface_status(ifl))
               /\ pos' = pos + 1
               /\ UNCHANGED <<pc, opt, dump, ninterfaces, exit, netlink, links>>

\* A mutant: no link found is fine.
ReturnAnyway ==
    /\ pc = "judge" /\ pos > Len(list[1])
    /\ pc' = "exited" /\ exit' = status
    /\ UNCHANGED <<opt, dump, pos, ninterfaces, status, netlink, links>>

Return ==
    /\ pc = "judge" /\ pos > Len(list[1])
    /\ pc' = "exited" /\ exit' = IF ninterfaces < 1 THEN STATE_UNKNOWN ELSE status
    /\ UNCHANGED <<opt, dump, pos, ninterfaces, status, netlink, links>>

Kernel == Traffic \/ Carrier \/ Appear \/ Vanish
Plugin == \/ ParseOptions \/ Request \/ ErrorIgnored \/ Recv \/ NewLink
          \/ NoSocket \/ Done \/ Wake \/ Pair \/ PairsDone \/ Judge \/ Return

Next == Kernel \/ Plugin

Spec == Init /\ [][Next]_vars

FairSpec == Spec /\ WF_vars(Plugin)

-----------------------------------------------------------------------------
Entry == [ix : Index, flags : SUBSET Flags, speed : Uint,
          duplex : {DUPLEX_HALF, DUPLEX_FULL, DUPLEX_UNKNOWN},
          stats : Counts(Uint), total : Counts(Nat)]

TypeOK ==
    /\ pc \in {"options", "dump", "recv", "sleep", "pair", "judge", "exited"}
    /\ snap \in {1, 2} /\ cursor \in 1 .. LastIndex + 1
    /\ reply \subseteq [ix : Index, flags : SUBSET Flags, stats : Counts(Nat)]
    /\ list \in [{1, 2} -> Seq(Entry)]
    /\ pos \in Nat \ {0} /\ ninterfaces \in Nat
    /\ status \in Statuses /\ exit \in Statuses \cup {RUNNING}
    /\ events \in 0 .. MaxEvents
    /\ netlink \in {"answers", "refuses", "silent", "fails", "no_socket"}
    /\ life \in [Index -> {"unborn", "present", "gone"}] /\ link \in [Index -> Link]

IndicesOf(l) == [k \in DOMAIN l |-> l[k].ix]
Ascending(l) == \A j, k \in DOMAIN l : j < k => l[j] < l[k]
Sampled == pc \in {"pair", "judge"} \/ (pc = "exited" /\ ninterfaces > 0)

\* No link has come or gone.
Quiet == \A n \in Index : life[n] = IF n \in AtBoot THEN "present" ELSE "unborn"

\* The links there from the start that the command line asks for.
Wanted ==
    {n \in AtBoot : /\ NameOf[n] \in Matches
                    /\ ~("LOOPBACK" \in LinkOf[n].flags /\ opt.no_loopback)
                    /\ ~(LinkOf[n].wireless /\ opt.no_wireless)}

\* However a dump is cut into batches, and whatever else changes meanwhile, when
\* no link comes or goes both lists hold exactly the links asked for, in the
\* order of their indices: the lists pair up.
SnapshotsAgree ==
    Sampled /\ Quiet => /\ IndicesOf(list[1]) = IndicesOf(list[2])
                        /\ Ascending(IndicesOf(list[1]))
                        /\ Range(IndicesOf(list[1])) = Wanted

\* r is n / delay, rounded up.
RoundedUp(r, n) == n <= r * delay /\ r * delay < n + delay

\* The traffic of the link at position p between the two samples.
Grown(p, f) == list[2][p].total[f] - list[1][p].total[f]

\* The rate of every link sampled twice is that of its own counters, even when
\* they wrapped around (once) or other links came and went meanwhile.
RatesExact ==
    pc = "judge" => \A p \in 1 .. ninterfaces, f \in {"tx", "rx"} :
        list[1][p].ix = list[2][p].ix /\ Grown(p, f) < UintMod
          => RoundedUp(list[1][p].stats[f], Grown(p, f))

\* The kernel's counts of the link at position p fit the arithmetic of the code:
\* both together in an unsigned int, the speed in bits as well.
Fits(p) ==
    /\ list[1][p].ix = list[2][p].ix
    /\ Grown(p, "tx") + Grown(p, "rx") < UintMod
    /\ list[1][p].speed * Mega < UintMod

\* The status the link at position p deserves, by the untruncated counts.
TrueStatus(p) ==
    LET e == list[1][p]
        PerSecond(f) == (Grown(p, f) + delay - 1) \div delay
        both == (IF opt.rx_only THEN 0 ELSE PerSecond("tx"))
                + (IF opt.tx_only THEN 0 ELSE PerSecond("rx"))
        n == IF opt.check \in {"collisions", "multicast"} THEN PerSecond("tx") ELSE both
        bits == IF e.duplex = DUPLEX_HALF THEN 16 * n ELSE 8 * n
    IN IF opt.check_link /\ ~({"UP", "RUNNING"} \subseteq e.flags) THEN STATE_CRITICAL
       ELSE IF opt.perc /\ opt.check = "bytes" /\ e.speed > 0
       THEN get_statusPercent(bits, e.speed * Mega, opt.my_threshold)
       ELSE get_status(n, opt.my_threshold)

\* When the two samples hold the same links, the exit status is the worst any of
\* them deserves: a busy link, or one that is down, is never hidden by another,
\* and no percentage is compared with an absolute threshold.
VerdictIsTrue ==
    (/\ pc = "exited" /\ exit # STATE_UNKNOWN
     /\ Len(list[1]) = Len(list[2]) /\ \A p \in 1 .. Len(list[1]) : Fits(p))
      => /\ \A p \in 1 .. Len(list[1]) : TrueStatus(p) <= exit
         /\ \E p \in 1 .. Len(list[1]) : TrueStatus(p) = exit

\* UNKNOWN has one of its reasons, and no status better than CRITICAL hides one:
\* bad options or ranges, no netlink or socket, a list of keys, lists that do not pair up,
\* no link in both, a percentage of an unknown speed.
Reasons ==
    \/ BadOptions \/ netlink \in {"fails", "no_socket"} \/ opt.ifname_debug \/ ~opt.ranges_ok
    \/ list[1] = <<>> \/ list[2] = <<>>
    \/ \E p \in 1 .. Len(list[1]) :
         \/ p <= Len(list[2]) /\ NameOf[list[1][p].ix] # NameOf[list[2][p].ix]
         \/ opt.perc /\ Thresholded /\ SpeedBytes(list[1][p]) = 0
UnknownHasAReason ==
    pc = "exited" => /\ exit = STATE_UNKNOWN => Reasons
                     /\ exit \in {STATE_OK, STATE_WARNING} => ~Reasons

\* The claim of "delay between the two network snapshots" and of the labels
\* "..._txbyte/s": a link that is judged was in both.
JudgedWasSampledTwice ==
    pc = "judge" => Len(list[1]) <= ninterfaces

\* The types hold, and the plugin ends, unless the kernel refuses the dump (and says so
\* only once): with UNKNOWN for one of its reasons, and with no better status over one.
EndsForAReason ==
    []TypeOK /\ <>(netlink = "silent" \/ (pc = "exited" /\ UnknownHasAReason))
=============================================================================
