----------------------------- MODULE MCNetinfo -----------------------------
(***************************************************************************)
(* Small instances of Netinfo: the loopback and eth0 are there at boot,    *)
(* eth1 may come after them, and a new eth0 once the first has gone.  The  *)
(* counters of eth0 start just below the modulus.                          *)
(***************************************************************************)
EXTENDS Netinfo

MCNameOf == <<"lo", "eth0", "eth1", "eth0">>
MCMatches == {"lo", "eth0", "eth1"}

LinkWith(flags, speed, duplex, n) ==
    [flags |-> flags, wireless |-> FALSE, speed |-> speed, duplex |-> duplex,
     stats |-> [tx |-> n, rx |-> n]]

UpRunning == {"UP", "RUNNING"}

MCLinkOf == <<LinkWith({"UP", "RUNNING", "LOOPBACK"}, SPEED_UNKNOWN, DUPLEX_UNKNOWN, 5),
              LinkWith(UpRunning, 2, DUPLEX_HALF, 62),
              [LinkWith({"UP"}, 3, DUPLEX_FULL, 0) EXCEPT !.wireless = TRUE],
              LinkWith(UpRunning, 2, DUPLEX_FULL, 0)>>

MCDeltas == {[tx |-> 3, rx |-> 0], [tx |-> 1, rx |-> 8]}

UpTo(n) == [DefaultRange EXCEPT !.end = n, !.end_infinity = FALSE]

Plain == [check |-> "bytes", omit |-> {}, check_link |-> FALSE, no_loopback |-> FALSE,
          no_wireless |-> FALSE, ifname_debug |-> FALSE, perc |-> FALSE,
          tx_only |-> FALSE, rx_only |-> FALSE, delay |-> 2, regex_ok |-> TRUE,
          ranges_ok |-> TRUE,
          my_threshold |-> [warning |-> UpTo(1), critical |-> UpTo(4)]]

Percents == [Plain EXCEPT !.no_loopback = TRUE, !.perc = TRUE,
                          !.my_threshold.warning = UpTo(20),
                          !.my_threshold.critical = UpTo(60)]

Debug == [Plain EXCEPT !.ifname_debug = TRUE, !.delay = NULL]

MCOptionSets ==
    {Plain, Percents, Debug,
     [Plain EXCEPT !.check_link = TRUE, !.tx_only = TRUE, !.no_wireless = TRUE],
     [Plain EXCEPT !.check = "drops", !.perc = TRUE, !.no_loopback = TRUE,
                   !.rx_only = TRUE, !.delay = NULL],
     [Plain EXCEPT !.check = "multicast", !.my_threshold.critical = NULL],
     [Plain EXCEPT !.ranges_ok = FALSE], [Plain EXCEPT !.delay = 0],
     [Plain EXCEPT !.regex_ok = FALSE],
     [Plain EXCEPT !.tx_only = TRUE, !.rx_only = TRUE],
     [Plain EXCEPT !.check = "errors", !.omit = {"errors"}]}
=============================================================================
