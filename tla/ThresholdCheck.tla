--------------------------- MODULE ThresholdCheck ---------------------------
(***************************************************************************)
(* The life of the thresholds in a plugin that judges several items (the   *)
(* CPUs of check_cpu, the interfaces of check_network): the options are    *)
(* checked, set_thresholds() parses the warning and then the critical      *)
(* string, every item's value is judged, and the worst status becomes the   *)
(* exit status.                                                            *)
(***************************************************************************)
EXTENDS Plugin

CONSTANTS Strings,      \* the option strings a user may give
          Values,       \* the values that may be measured
          Items,        \* how many items are judged
          Percentages   \* the plugin insists on '%' (check_cpu, check_swap...)

ASSUME ConstantsAssumption ==
    /\ Strings \subseteq RangeString
    /\ Values \subseteq Int
    /\ Items \in Nat
    /\ Percentages \in BOOLEAN

VARIABLES
    temp_thresholds,        \* set_thresholds(): the struct being filled
    my_threshold,           \* main(): what set_thresholds() handed over
    items, status,          \* the loop over the items: how many, the status so far
    measured                \* ghost: the values judged so far

thresholds == <<temp_thresholds, my_threshold, items, status, measured>>
thresholdsVars == <<main, thresholds>>

NoThresholds == [warning |-> NULL, critical |-> NULL]

\* main(): the option strings.
Options == [warning : Strings \cup {NULL}, critical : Strings \cup {NULL}]

ThresholdsTypeOK ==
    /\ pc \in {"options", "warning", "critical", "loop", "exited"}
    /\ opt \in Options
    /\ temp_thresholds \in Limits
    /\ my_threshold \in Limits \cup {NULL}
    /\ items \in 0 .. Items
    /\ status \in Statuses
    /\ exit \in Statuses \cup {RUNNING}
    /\ measured \subseteq Values

ThresholdsInit ==
    /\ PluginInit
    /\ opt \in Options
    /\ temp_thresholds = NoThresholds
    /\ my_threshold = NULL
    /\ items = 0 /\ status = STATE_OK
    /\ measured = {}

\* Without the percent signs the plugin insists on, main() calls usage (stderr).
CheckOptions ==
    /\ pc = "options"
    /\ IF Percentages /\ ~thresholds_expressed_as_percentages(opt.warning, opt.critical)
       THEN GiveUp
       ELSE Goto("warning")
    /\ UNCHANGED thresholds

\* The pointer set_thresholds() stores for an option string.
Parsed(str) == IF str = NULL THEN NULL ELSE parse_range_string(str)
Unparseable(str) == str # NULL /\ parse_range_string(str) = NULL

\* set_thresholds(), first half.
ParseWarning ==
    /\ pc = "warning"
    /\ \/ Unparseable(opt.warning) /\ GiveUp /\ UNCHANGED temp_thresholds
       \/ /\ ~Unparseable(opt.warning) /\ Goto("critical")
          /\ temp_thresholds' = [temp_thresholds EXCEPT !.warning = Parsed(opt.warning)]
    /\ UNCHANGED <<my_threshold, items, status, measured>>

\* A mutant: an unparseable critical string is taken as "no threshold".
ParseCriticalLenient ==
    /\ pc = "critical" /\ Goto("loop")
    /\ my_threshold' = [temp_thresholds EXCEPT !.critical = Parsed(opt.critical)]
    /\ UNCHANGED <<temp_thresholds, items, status, measured>>

\* set_thresholds(), second half: the caller's pointer is set only now.
ParseCritical ==
    /\ pc = "critical"
    /\ \/ /\ Unparseable(opt.critical) /\ GiveUp
          /\ UNCHANGED <<temp_thresholds, my_threshold>>
       \/ /\ ~Unparseable(opt.critical) /\ Goto("loop")
          /\ temp_thresholds' = [temp_thresholds EXCEPT !.critical = Parsed(opt.critical)]
          /\ my_threshold' = temp_thresholds'
    /\ UNCHANGED <<items, status, measured>>

\* One turn of the loop over the items.
Judge(value) ==
    /\ pc = "loop" /\ items < Items
    /\ status' = Worse(status, get_status(value, my_threshold))
    /\ items' = items + 1 /\ measured' = measured \cup {value}
    /\ UNCHANGED <<main, temp_thresholds, my_threshold>>

\* "return status".
Return == pc = "loop" /\ items = Items /\ Exit(status) /\ UNCHANGED thresholds

ThresholdsNext == \/ CheckOptions \/ ParseWarning \/ ParseCritical
        \/ \E value \in Values : Judge(value)
        \/ Return

ThresholdsSpec == ThresholdsInit /\ [][ThresholdsNext]_thresholdsVars

-----------------------------------------------------------------------------
\* The strings the plugin is entitled to refuse.
Refusable ==
    \/ Percentages /\ ~thresholds_expressed_as_percentages(opt.warning, opt.critical)
    \/ opt.warning # NULL /\ ~WellFormed(opt.warning)
    \/ opt.critical # NULL /\ ~WellFormed(opt.critical)

\* The status the guidelines ask for: critical when some value measured is in
\* the critical zone, else warning when some value is in the warning zone.
Deserved ==
    IF opt.critical # NULL /\ \E v \in measured : Alerts(opt.critical, v)
    THEN STATE_CRITICAL
    ELSE IF opt.warning # NULL /\ \E v \in measured : Alerts(opt.warning, v)
         THEN STATE_WARNING
         ELSE STATE_OK

\* The status the plugin has when it judges, and exits with, is the one the
\* threshold strings (read without the parser) give the values measured:
\* parsing, check_range, get_status and the maximum over the items compose.
StatusIsDeserved ==
    /\ pc = "loop" => status = Deserved
    /\ pc = "exited" /\ exit # STATE_UNKNOWN => exit = Deserved

\* UNKNOWN is the exit status exactly when the options deserve it, and then
\* no value was judged and no half-filled thresholds were handed over.
RefusedIffIllFormed ==
    pc = "exited" =>
        /\ exit = STATE_UNKNOWN <=> Refusable
        /\ Refusable => my_threshold = NULL /\ measured = {}

\* A limit printed for a threshold (base 1, no percentage) is the last value
\* without an alert: the next one on the open side raises it, so what the
\* performance data shows is where the status changes.
PerfdataLimitIsBoundary ==
    \A str \in {opt.warning, opt.critical} \ {NULL} :
        LET limit == get_perfdata_limit(parse_range_string(str), 1, FALSE)
        IN limit # NULL =>
             /\ ~Alerts(str, limit)
             /\ Alerts(str, IF NoUpperBound(str) THEN limit - 1 ELSE limit + 1)
=============================================================================
