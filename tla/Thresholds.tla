----------------------------- MODULE Thresholds -----------------------------
(***************************************************************************)
(* The warning and critical thresholds every plugin is given on its        *)
(* command line (lib/thresholds.c) and the limits it prints from them      *)
(* (lib/perfdata.c).  Pure operators: no state.                            *)
(*                                                                         *)
(* Doubles are integers here: the code only compares them, and scales them *)
(* by an integer base.  The text of a threshold is cut at the points where *)
(* the parser looks: [@] left [: right], each side being empty, starting   *)
(* with '~', a number, or text strtod() cannot read; the '%' a string may  *)
(* carry is a flag of its own.                                             *)
(***************************************************************************)
EXTENDS NagStatus

(***************************************************************************)
(* Threshold strings                                                       *)
(***************************************************************************)
Text == [kind : {"empty", "tilde", "junk", "num"}, val : Int]

RangeString == [at : BOOLEAN, left : Text, colon : BOOLEAN, right : Text,
                percent : BOOLEAN]

\* strtod() of a text: 0 when no conversion is possible.
strtod(text) == IF text.kind = "num" THEN text.val ELSE 0

(***************************************************************************)
(* struct range_struct                                                     *)
(***************************************************************************)
NP_RANGE_OUTSIDE == 0
NP_RANGE_INSIDE  == 1

RangeStruct == [start : Int, end : Int, start_infinity : BOOLEAN,
                end_infinity : BOOLEAN,
                alert_on : {NP_RANGE_OUTSIDE, NP_RANGE_INSIDE}]

ASSUME NullAssumption == NULL \notin RangeStruct /\ NULL \notin RangeString

(***************************************************************************)
(* parse_range_string                                                      *)
(***************************************************************************)
DefaultRange == [start |-> 0, end |-> 0, start_infinity |-> FALSE,
                 end_infinity |-> TRUE, alert_on |-> NP_RANGE_OUTSIDE]

set_range_start(r, value) ==
    [r EXCEPT !.start = value, !.start_infinity = FALSE]

set_range_end(r, value) ==
    [r EXCEPT !.end = value, !.end_infinity = FALSE]

\* Without a ':' the text from the start of the string is the end.
EndText(str) == IF str.colon THEN str.right ELSE str.left

parse_range_string(str) ==
    LET r0 == IF str.at
              THEN [DefaultRange EXCEPT !.alert_on = NP_RANGE_INSIDE]
              ELSE DefaultRange
        r1 == IF ~str.colon
              THEN r0
              ELSE IF str.left.kind = "tilde"
                   THEN [r0 EXCEPT !.start_infinity = TRUE]
                   ELSE set_range_start(r0, strtod(str.left))
        r2 == IF EndText(str).kind = "empty"
              THEN r1
              ELSE set_range_end(r1, strtod(EndText(str)))
    IN IF r2.start_infinity \/ r2.end_infinity \/ r2.start <= r2.end
       THEN r2
       ELSE NULL

(***************************************************************************)
(* check_range and get_status                                              *)
(***************************************************************************)
check_range(value, r) ==
    LET no == r.alert_on = NP_RANGE_INSIDE
        yes == ~no
    IN CASE ~r.end_infinity /\ ~r.start_infinity ->
              (IF r.start <= value /\ value <= r.end THEN no ELSE yes)
         [] ~r.start_infinity /\ r.end_infinity ->
              (IF r.start <= value THEN no ELSE yes)
         [] r.start_infinity /\ ~r.end_infinity ->
              (IF value <= r.end THEN no ELSE yes)
         [] OTHER -> no

\* A mutant: the warning range is consulted first.
get_statusWarningFirst(value, t) ==
    CASE t.warning # NULL /\ check_range(value, t.warning) -> STATE_WARNING
      [] OTHER -> IF t.critical # NULL /\ check_range(value, t.critical)
                  THEN STATE_CRITICAL ELSE STATE_OK

get_status(value, t) ==
    IF t.critical # NULL /\ check_range(value, t.critical)
    THEN STATE_CRITICAL
    ELSE IF t.warning # NULL /\ check_range(value, t.warning)
         THEN STATE_WARNING
         ELSE STATE_OK

\* get_status() of the percentage 100 * part / whole, a rational: the ranges are
\* scaled instead.
Scaled(r, k) ==
    IF r = NULL THEN NULL ELSE [r EXCEPT !.start = @ * k, !.end = @ * k]
get_statusPercent(part, whole, t) ==
    get_status(100 * part, [warning |-> Scaled(t.warning, whole),
                            critical |-> Scaled(t.critical, whole)])

\* Each threshold given, and only those, must carry a '%'.
thresholds_expressed_as_percentages(warn_string, critical_string) ==
    /\ warn_string # NULL => warn_string.percent
    /\ critical_string # NULL => critical_string.percent

(***************************************************************************)
(* get_perfdata_limit: NULL stands for the return value -1.  The cast of a *)
(* negative product to unsigned long long is undefined: callers are        *)
(* modelled with non-negative bounds only.                                 *)
(***************************************************************************)
\* A mutant: the lower bound is printed even when there is an upper one.
get_perfdata_limitStart(r, base, percent) ==
    IF r = NULL THEN NULL
    ELSE IF r.alert_on = NP_RANGE_INSIDE \/ r.start_infinity THEN NULL
    ELSE IF percent THEN (base * r.start) \div 100 ELSE base * r.start

get_perfdata_limit(r, base, percent) ==
    IF r = NULL THEN NULL
    ELSE IF r.alert_on = NP_RANGE_INSIDE \/ r.start_infinity THEN NULL
    ELSE LET threshold_limit == IF r.end_infinity THEN r.start ELSE r.end
             limit == base * threshold_limit
         IN IF percent THEN limit \div 100 ELSE limit

(***************************************************************************)
(* What a threshold string means, stated without the parser: the values    *)
(* from a lower to an upper bound, either of which may be missing, and an  *)
(* alert outside them (inside them after '@').  lib/perfdata.c:41-63 gives *)
(* the meaning by examples: "@10:20  >= 10 and <= 20", "~:10  > 10",       *)
(* "10:  < 10", "10  < 0 or > 10".                                         *)
(***************************************************************************)
NoLowerBound(str) == str.colon /\ str.left.kind = "tilde"

LowerBound(str) == IF str.colon /\ str.left.kind = "num"
                   THEN str.left.val ELSE 0

NoUpperBound(str) == IF str.colon THEN str.right.kind = "empty"
                                  ELSE str.left.kind = "empty"

UpperBound(str) == LET t == IF str.colon THEN str.right ELSE str.left
                   IN IF t.kind = "num" THEN t.val ELSE 0

WellFormed(str) ==
    NoLowerBound(str) \/ NoUpperBound(str) \/ LowerBound(str) <= UpperBound(str)

Alerts(str, value) ==
    LET in == /\ NoLowerBound(str) \/ LowerBound(str) <= value
              /\ NoUpperBound(str) \/ value <= UpperBound(str)
    IN IF str.at THEN in ELSE ~in
=============================================================================
