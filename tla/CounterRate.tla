---------------------------- MODULE CounterRate ----------------------------
(***************************************************************************)
(* What a plugin that watches a counter promises: it reads the counter     *)
(* while it grows, and judges the growth per second between the last two   *)
(* readings, or the count itself when it read it only once.                *)
(***************************************************************************)
EXTENDS Thresholds

VARIABLES
    counter,        \* the counter
    last, prev,     \* the last reading and the one before it
    delay,          \* the seconds between two readings
    ranges,         \* the thresholds
    verdict         \* RUNNING until the plugin leaves

vars == <<counter, last, prev, delay, ranges, verdict>>

Init == /\ counter \in Nat /\ last = NULL /\ prev = NULL
        /\ verdict = RUNNING

Grow == /\ counter' \in Nat /\ counter <= counter'
        /\ UNCHANGED <<last, prev, delay, ranges, verdict>>

Read == /\ verdict = RUNNING
        /\ prev' = last /\ last' = counter
        /\ UNCHANGED <<counter, delay, ranges, verdict>>

Rate == IF prev = NULL THEN last ELSE (last - prev) \div delay

Judge == /\ verdict = RUNNING /\ last # NULL
         /\ verdict' = get_status(Rate, ranges)
         /\ UNCHANGED <<counter, last, prev, delay, ranges>>

GiveUp == /\ verdict = RUNNING /\ verdict' = STATE_UNKNOWN
          /\ UNCHANGED <<counter, last, prev, delay, ranges>>

Next == Grow \/ Read \/ Judge \/ GiveUp

Spec == Init /\ [][Next]_vars
=============================================================================
