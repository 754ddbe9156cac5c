---------------------------- MODULE SamplesProofs ---------------------------
(***************************************************************************)
(* Proofs about the plugins that judge what they sample, for every command *)
(* line, every host and whatever changes meanwhile: the thresholds, the    *)
(* memory, the ports of Fibre Channel, the sensors, and the counters whose *)
(* rate is judged.                                                         *)
(***************************************************************************)
EXTENDS ThresholdCheck, Memory, Ports, Sensors, Rates, CommonLemmas

-----------------------------------------------------------------------------
(***************************************************************************)
(* The thresholds: for every string, value and number of items, what is    *)
(* parsed, judged and printed is what the strings mean.                    *)
(***************************************************************************)

\* The struct range a string stands for, in closed form.
Meaning(str) ==
    [start |-> LowerBound(str), end |-> UpperBound(str),
     start_infinity |-> NoLowerBound(str), end_infinity |-> NoUpperBound(str),
     alert_on |-> IF str.at THEN NP_RANGE_INSIDE ELSE NP_RANGE_OUTSIDE]

\* The meaning of a string is a well-typed struct range.
LEMMA MeaningType ==
    ASSUME NEW str \in RangeString
    PROVE  Meaning(str) \in RangeStruct
<1>1. LowerBound(str) \in Int /\ UpperBound(str) \in Int
  BY DEF RangeString, Text, LowerBound, UpperBound
<1>2. NoLowerBound(str) \in BOOLEAN /\ NoUpperBound(str) \in BOOLEAN
  BY Zenon DEF RangeString, NoLowerBound, NoUpperBound
<1> QED
  BY <1>1, <1>2 DEF Meaning, RangeStruct, NP_RANGE_INSIDE, NP_RANGE_OUTSIDE

\* parse_range_string() refuses exactly the strings whose range is empty, and
\* turns every other into its meaning.
LEMMA ParseRangeString ==
    ASSUME NEW str \in RangeString
    PROVE  parse_range_string(str) = IF WellFormed(str) THEN Meaning(str)
                                                        ELSE NULL
<1> DEFINE r0 == IF str.at
                 THEN [DefaultRange EXCEPT !.alert_on = NP_RANGE_INSIDE]
                 ELSE DefaultRange
           r1 == IF ~str.colon
                 THEN r0
                 ELSE IF str.left.kind = "tilde"
                      THEN [r0 EXCEPT !.start_infinity = TRUE]
                      ELSE set_range_start(r0, strtod(str.left))
           r2 == IF EndText(str).kind = "empty"
                 THEN r1
                 ELSE set_range_end(r1, strtod(EndText(str)))
           alert == IF str.at THEN NP_RANGE_INSIDE ELSE NP_RANGE_OUTSIDE
<1>0. /\ str.at \in BOOLEAN /\ str.colon \in BOOLEAN
      /\ str.left \in Text /\ str.right \in Text
  BY DEF RangeString
<1>1. r0 = [start |-> 0, end |-> 0, start_infinity |-> FALSE,
            end_infinity |-> TRUE, alert_on |-> alert]
  BY DEF DefaultRange
<1>2. r1 = [start |-> LowerBound(str), end |-> 0,
            start_infinity |-> NoLowerBound(str), end_infinity |-> TRUE,
            alert_on |-> alert]
  <2> HIDE DEF r0, alert
  <2>1. CASE ~str.colon
    <3>1. LowerBound(str) = 0 /\ NoLowerBound(str) = FALSE
      BY <2>1, Zenon DEF LowerBound, NoLowerBound
    <3> QED BY <2>1, <1>1, <3>1
  <2>2. CASE str.colon /\ str.left.kind = "tilde"
    <3>1. LowerBound(str) = 0 /\ NoLowerBound(str) = TRUE
      BY <2>2, Zenon DEF LowerBound, NoLowerBound
    <3> QED BY <2>2, <1>1, <3>1
  <2>3. CASE str.colon /\ str.left.kind # "tilde"
    <3>1. LowerBound(str) = strtod(str.left)
      BY <2>3 DEF LowerBound, strtod
    <3>2. NoLowerBound(str) = FALSE
      BY <2>3, Zenon DEF NoLowerBound
    <3> QED BY <2>3, <1>1, <3>1, <3>2 DEF set_range_start
  <2> QED BY <2>1, <2>2, <2>3
<1>3. r2 = Meaning(str)
  <2> HIDE DEF r1
  <2>1. strtod(EndText(str)) = UpperBound(str)
    BY DEF strtod, EndText, UpperBound
  <2>2. CASE EndText(str).kind = "empty"
    <3>1. NoUpperBound(str) = TRUE
      BY <2>2, <1>0, Zenon DEF NoUpperBound, EndText
    <3>2. UpperBound(str) = 0
      BY <2>2 DEF UpperBound, EndText
    <3> QED BY <2>2, <1>2, <3>1, <3>2 DEF Meaning
  <2>3. CASE EndText(str).kind # "empty"
    <3>1. NoUpperBound(str) = FALSE
      BY <2>3, <1>0, Zenon DEF NoUpperBound, EndText
    <3> QED BY <2>1, <2>3, <1>2, <3>1 DEF Meaning, set_range_end
  <2> QED BY <2>2, <2>3
<1>4. parse_range_string(str) =
        IF r2.start_infinity \/ r2.end_infinity \/ r2.start <= r2.end
        THEN r2 ELSE NULL
  BY Zenon DEF parse_range_string
<1>5. WellFormed(str) <=>
        r2.start_infinity \/ r2.end_infinity \/ r2.start <= r2.end
  <2> HIDE DEF r2
  <2> QED BY <1>3 DEF WellFormed, Meaning
<1> HIDE DEF r2
<1> QED BY <1>3, <1>4, <1>5

\* check_range() on the parsed range raises an alert for exactly the values
\* the string describes, whichever of the code's four branches is taken.
LEMMA CheckRange ==
    ASSUME NEW str \in RangeString, NEW value \in Int
    PROVE  check_range(value, Meaning(str)) <=> Alerts(str, value)
<1> DEFINE r == Meaning(str)
           in == /\ NoLowerBound(str) \/ LowerBound(str) <= value
                 /\ NoUpperBound(str) \/ value <= UpperBound(str)
<1>1. /\ r.start = LowerBound(str) /\ r.end = UpperBound(str)
      /\ r.start_infinity = NoLowerBound(str)
      /\ r.end_infinity = NoUpperBound(str)
      /\ (r.alert_on = NP_RANGE_INSIDE) <=> str.at
  BY DEF Meaning, NP_RANGE_INSIDE, NP_RANGE_OUTSIDE, RangeString
<1> HIDE DEF r
<1>2. check_range(value, r) <=> (in <=> str.at)
  BY <1>1 DEF check_range
<1>3. Alerts(str, value) <=> (in <=> str.at)
  BY DEF Alerts
<1> QED BY <1>2, <1>3 DEF r

-----------------------------------------------------------------------------
\* What set_thresholds() stores for an option string that is accepted.
Stored(str) == IF str = NULL THEN NULL ELSE Meaning(str)

\* The status a value deserves, from the option strings alone.
ValueStatus(value) ==
    IF opt.critical # NULL /\ Alerts(opt.critical, value)
    THEN STATE_CRITICAL
    ELSE IF opt.warning # NULL /\ Alerts(opt.warning, value)
         THEN STATE_WARNING
         ELSE STATE_OK

\* Nothing has been judged or handed over yet.
Fresh == my_threshold = NULL /\ measured = {} /\ status = STATE_OK

\* The options are in order and main() holds the thresholds they stand for.
Accepted ==
    /\ ~Refusable
    /\ my_threshold = [warning |-> Stored(opt.warning), critical |-> Stored(opt.critical)]
    /\ status = Deserved

\* The inductive invariant: what has been established at each place.
ThresholdsInv ==
    /\ ThresholdsTypeOK
    /\ pc = "options" => Fresh
    /\ pc = "warning" =>
          /\ Fresh
          /\ ~(Percentages
               /\ ~thresholds_expressed_as_percentages(opt.warning, opt.critical))
    /\ pc = "critical" =>
          /\ Fresh
          /\ ~(Percentages
               /\ ~thresholds_expressed_as_percentages(opt.warning, opt.critical))
          /\ opt.warning # NULL => WellFormed(opt.warning)
          /\ temp_thresholds.warning = Stored(opt.warning)
    /\ pc = "loop" => Accepted
    /\ pc = "exited" =>
          \/ exit = STATE_UNKNOWN /\ Refusable /\ Fresh
          \/ exit = status /\ Accepted

\* get_status() on the thresholds of accepted options gives the status the
\* option strings describe.
LEMMA GetStatus ==
    ASSUME ThresholdsTypeOK, NEW value \in Int,
           my_threshold = [warning |-> Stored(opt.warning),
                           critical |-> Stored(opt.critical)]
    PROVE  get_status(value, my_threshold) = ValueStatus(value)
<1>1. /\ my_threshold.critical = Stored(opt.critical)
      /\ my_threshold.warning = Stored(opt.warning)
  OBVIOUS
<1>2. ASSUME NEW str \in RangeString
      PROVE  /\ Stored(str) = Meaning(str) /\ Stored(str) # NULL
             /\ check_range(value, Stored(str)) <=> Alerts(str, value)
  <2>1. str # NULL /\ Meaning(str) # NULL
    BY MeaningType, NullAssumption
  <2> QED BY <2>1, CheckRange DEF Stored
<1>3. Stored(NULL) = NULL
  BY DEF Stored
<1>4. /\ opt.critical \in RangeString \cup {NULL}
      /\ opt.warning \in RangeString \cup {NULL}
  BY ConstantsAssumption DEF ThresholdsTypeOK, Options
<1>5. (opt.critical # NULL /\ Alerts(opt.critical, value)) <=>
      (my_threshold.critical # NULL
         /\ check_range(value, my_threshold.critical))
  BY <1>1, <1>2, <1>3, <1>4
<1>6. (opt.warning # NULL /\ Alerts(opt.warning, value)) <=>
      (my_threshold.warning # NULL
         /\ check_range(value, my_threshold.warning))
  BY <1>1, <1>2, <1>3, <1>4
<1> QED BY <1>5, <1>6 DEF get_status, ValueStatus

\* Judging one more value makes the deserved status the worse of the one so
\* far and the value's own.
LEMMA DeservedGrows ==
    ASSUME NEW value \in Values, measured' = measured \cup {value},
           UNCHANGED opt
    PROVE  Deserved' = Worse(Deserved, ValueStatus(value))
<1> DEFINE crit(S) == opt.critical # NULL /\ \E v \in S : Alerts(opt.critical, v)
           warn(S) == opt.warning # NULL /\ \E v \in S : Alerts(opt.warning, v)
<1>1. /\ crit(measured \cup {value}) <=>
            crit(measured) \/ (opt.critical # NULL /\ Alerts(opt.critical, value))
      /\ warn(measured \cup {value}) <=>
            warn(measured) \/ (opt.warning # NULL /\ Alerts(opt.warning, value))
  BY Zenon
<1>2. Deserved = IF crit(measured) THEN STATE_CRITICAL
                 ELSE IF warn(measured) THEN STATE_WARNING ELSE STATE_OK
  BY Zenon DEF Deserved
<1>3. Deserved' = IF crit(measured \cup {value}) THEN STATE_CRITICAL
                  ELSE IF warn(measured \cup {value}) THEN STATE_WARNING
                       ELSE STATE_OK
  BY Zenon DEF Deserved
<1> HIDE DEF crit, warn
<1> QED BY <1>1, <1>2, <1>3
    DEF Worse, ValueStatus, STATE_OK, STATE_WARNING, STATE_CRITICAL

\* No value measured: the status deserved is OK.
LEMMA DeservedInitially ==
    ASSUME measured = {}
    PROVE  Deserved = STATE_OK
BY Zenon DEF Deserved

\* The inductive invariant holds initially and every step keeps it.
THEOREM ThresholdsInductive == ThresholdsSpec => []ThresholdsInv
<1> USE DEF Statuses, STATE_OK, STATE_WARNING, STATE_CRITICAL, STATE_UNKNOWN
<1>1. ThresholdsInit => ThresholdsInv
  BY ConstantsAssumption, SMTT(30)
     DEF ThresholdsInit, PluginInit, Options, ThresholdsInv, ThresholdsTypeOK, Fresh, NoThresholds, Limits
<1>2. ThresholdsInv /\ [ThresholdsNext]_thresholdsVars => ThresholdsInv'
  <2> SUFFICES ASSUME ThresholdsInv, [ThresholdsNext]_thresholdsVars
               PROVE  ThresholdsInv'
    OBVIOUS
  <2>0. /\ opt.critical \in RangeString \cup {NULL}
        /\ opt.warning \in RangeString \cup {NULL}
    BY ConstantsAssumption DEF ThresholdsInv, ThresholdsTypeOK, Options
  <2>1. CASE CheckOptions
    BY <2>1 DEF CheckOptions, GiveUp, Exit, Goto, thresholds, ThresholdsInv, ThresholdsTypeOK, Fresh, Refusable
  <2>2. CASE ParseWarning
    <3>1. CASE Unparseable(opt.warning)
      <4>1. Refusable
        BY <2>0, <3>1, ParseRangeString, MeaningType, NullAssumption
           DEF Refusable, Unparseable
      <4> QED BY <2>2, <3>1, <4>1
              DEF ParseWarning, GiveUp, Exit, ThresholdsInv, ThresholdsTypeOK, Fresh, Refusable
    <3>2. CASE ~Unparseable(opt.warning)
      <4> DEFINE w == Parsed(opt.warning)
      <4>1. /\ opt.warning # NULL => WellFormed(opt.warning)
            /\ w = Stored(opt.warning) /\ w \in RangeStruct \cup {NULL}
        BY <2>0, <3>2, ParseRangeString, MeaningType, NullAssumption
           DEF Stored, Unparseable, Parsed
      <4>2. /\ pc = "warning" /\ pc' = "critical"
            /\ temp_thresholds' = [temp_thresholds EXCEPT !.warning = w]
            /\ UNCHANGED <<opt, exit, my_threshold, items, status, measured>>
        BY <2>2, <3>2 DEF ParseWarning, Goto
      <4> HIDE DEF w
      <4>3. /\ temp_thresholds' \in Limits
            /\ temp_thresholds'.warning = w
        BY <4>1, <4>2 DEF ThresholdsInv, ThresholdsTypeOK, Limits
      <4>4. Stored(opt.warning)' = Stored(opt.warning)
        BY <4>2 DEF Stored, Meaning
      <4> QED BY <4>1, <4>2, <4>3, <4>4 DEF ThresholdsInv, ThresholdsTypeOK, Fresh
    <3> QED BY <3>1, <3>2
  <2>3. CASE ParseCritical
    <3>1. CASE Unparseable(opt.critical)
      <4>1. Refusable
        BY <2>0, <3>1, ParseRangeString, MeaningType, NullAssumption
           DEF Refusable, Unparseable
      <4> QED BY <2>3, <3>1, <4>1
              DEF ParseCritical, GiveUp, Exit, ThresholdsInv, ThresholdsTypeOK, Fresh, Refusable
    <3>2. CASE ~Unparseable(opt.critical)
      <4> DEFINE k == Parsed(opt.critical)
      <4>1. /\ opt.critical # NULL => WellFormed(opt.critical)
            /\ k = Stored(opt.critical) /\ k \in RangeStruct \cup {NULL}
        BY <2>0, <3>2, ParseRangeString, MeaningType, NullAssumption
           DEF Stored, Unparseable, Parsed
      <4>2. /\ pc = "critical" /\ pc' = "loop"
            /\ temp_thresholds' = [temp_thresholds EXCEPT !.critical = k]
            /\ my_threshold' = temp_thresholds'
            /\ UNCHANGED <<opt, exit, items, status, measured>>
        BY <2>3, <3>2 DEF ParseCritical, Goto
      <4> HIDE DEF k
      <4>3. /\ temp_thresholds' \in Limits
            /\ temp_thresholds' = [warning |-> Stored(opt.warning), critical |-> k]
        BY <4>1, <4>2 DEF ThresholdsInv, ThresholdsTypeOK, Limits
      <4>4. Deserved' = STATE_OK
        BY <4>2, Zenon DEF Deserved, ThresholdsInv, Fresh
      <4>5. Accepted'
        BY <4>1, <4>2, <4>3, <4>4
           DEF ThresholdsInv, Fresh, Accepted, Refusable, Stored
      <4> QED BY <4>2, <4>3, <4>5 DEF ThresholdsInv, ThresholdsTypeOK
    <3> QED BY <3>1, <3>2
  <2>4. ASSUME NEW value \in Values, Judge(value)
        PROVE  ThresholdsInv'
    <3>1. get_status(value, my_threshold) = ValueStatus(value)
      BY <2>4, GetStatus, ConstantsAssumption DEF ThresholdsInv, Judge, Accepted
    <3>2. Deserved' = Worse(Deserved, ValueStatus(value))
      BY <2>4, DeservedGrows DEF Judge, main
    <3>3. Accepted'
      BY <2>4, <3>1, <3>2 DEF ThresholdsInv, Judge, main, Accepted, Refusable
    <3>4. Worse(status, ValueStatus(value)) \in Statuses
      BY DEF ThresholdsInv, ThresholdsTypeOK, Worse, ValueStatus
    <3> QED BY <2>4, <3>1, <3>3, <3>4, ConstantsAssumption
            DEF ThresholdsInv, ThresholdsTypeOK, Judge, main
  <2>5. CASE Return
    <3>1. Accepted'
      BY <2>5 DEF ThresholdsInv, Return, Exit, thresholds, Accepted, Refusable, Deserved
    <3> QED BY <2>5, <3>1 DEF ThresholdsInv, ThresholdsTypeOK, Return, Exit, thresholds
  <2>6. CASE UNCHANGED thresholdsVars
    BY <2>6 DEF thresholdsVars, main, thresholds, ThresholdsInv, ThresholdsTypeOK, Fresh, Accepted, Refusable, Deserved
  <2> QED BY <2>1, <2>2, <2>3, <2>4, <2>5, <2>6 DEF ThresholdsNext
<1> QED BY <1>1, <1>2, PTL DEF ThresholdsSpec

\* Type correctness of the threshold handling.
THEOREM ThresholdsTypeCorrect == ThresholdsSpec => []ThresholdsTypeOK
<1>1. ThresholdsInv => ThresholdsTypeOK
  BY DEF ThresholdsInv
<1> QED BY <1>1, ThresholdsInductive, PTL

\* For every set of option strings, values and items: the exit status is the
\* worst one the strings, read without the parser, give the values measured.
THEOREM StatusDeserved == ThresholdsSpec => []StatusIsDeserved
<1>1. ThresholdsInv => StatusIsDeserved
  BY DEF ThresholdsInv, StatusIsDeserved, Accepted
<1> QED BY <1>1, ThresholdsInductive, PTL

\* For every set of option strings: UNKNOWN exactly for ill-formed options,
\* and then nothing was judged and no thresholds were handed over.
THEOREM RefusedIllFormed == ThresholdsSpec => []RefusedIffIllFormed
<1>1. ASSUME ThresholdsInv
      PROVE  RefusedIffIllFormed
  <2>1. Deserved # STATE_UNKNOWN
    BY DEF Deserved, STATE_OK, STATE_WARNING, STATE_CRITICAL, STATE_UNKNOWN
  <2> QED BY <1>1, <2>1 DEF ThresholdsInv, RefusedIffIllFormed, Accepted, Fresh
<1> QED BY <1>1, ThresholdsInductive, PTL

\* For every threshold string: the limit printed in the performance data is
\* the last value without an alert.
THEOREM PerfdataLimit == ThresholdsSpec => []PerfdataLimitIsBoundary
<1>1. ASSUME ThresholdsTypeOK
      PROVE  PerfdataLimitIsBoundary
  <2> SUFFICES ASSUME NEW str \in RangeString,
                      get_perfdata_limit(parse_range_string(str), 1, FALSE)
                        # NULL
               PROVE  LET limit == get_perfdata_limit(
                                     parse_range_string(str), 1, FALSE)
                      IN /\ ~Alerts(str, limit)
                         /\ Alerts(str, IF NoUpperBound(str) THEN limit - 1
                                                            ELSE limit + 1)
    BY <1>1, ConstantsAssumption DEF ThresholdsTypeOK, Options, PerfdataLimitIsBoundary
  <2> DEFINE r == Meaning(str)
  <2>1. WellFormed(str) /\ parse_range_string(str) = r
    BY ParseRangeString DEF get_perfdata_limit
  <2>2. r # NULL
    BY MeaningType, NullAssumption
  <2>3. /\ r.start = LowerBound(str) /\ r.end = UpperBound(str)
        /\ r.start_infinity = NoLowerBound(str)
        /\ r.end_infinity = NoUpperBound(str)
        /\ (r.alert_on = NP_RANGE_INSIDE) <=> str.at
    BY DEF Meaning, NP_RANGE_INSIDE, NP_RANGE_OUTSIDE, RangeString
  <2>4. LowerBound(str) \in Int /\ UpperBound(str) \in Int
    BY DEF RangeString, Text, LowerBound, UpperBound
  <2> HIDE DEF r
  <2> DEFINE limit == get_perfdata_limit(r, 1, FALSE)
  <2>5. /\ ~str.at /\ ~NoLowerBound(str)
        /\ limit = IF NoUpperBound(str) THEN LowerBound(str)
                                        ELSE UpperBound(str)
    BY <2>1, <2>2, <2>3, <2>4 DEF get_perfdata_limit
  <2> HIDE DEF limit
  <2>6. /\ ~Alerts(str, limit)
        /\ Alerts(str, IF NoUpperBound(str) THEN limit - 1 ELSE limit + 1)
    BY <2>1, <2>4, <2>5 DEF Alerts, WellFormed
  <2> QED BY <2>1, <2>6 DEF limit
<1> QED BY <1>1, ThresholdsTypeCorrect, PTL

-----------------------------------------------------------------------------
(***************************************************************************)
(* The memory: what check_memory and check_swap show is as near the truth  *)
(* as the pages that moved while /proc/meminfo was written.                *)
(***************************************************************************)

\* What a line says and the text does not: the pages that moved since it was written.
Drift(k) == IF k <= Len(lines) THEN ValueOf(Lines[k]) - lines[k] ELSE 0

\* As far from the truth as pages have moved.
Within(d) == -moved <= d /\ d <= moved

\* The types.
MemTypes ==
    /\ opt \in MemoryOptions /\ host \in Hosts
    /\ pool \in [Pools -> Nat] /\ moved \in 0 .. MaxMoves
    /\ lines \in Seq(Nat) /\ Len(lines) <= 6

\* The kilobytes of the memory fit in a signed long.
Room == Total + MaxMoves < Word \div 2

\* Whatever subset of the pools a sum of lines stands for, a move adds a page to it, takes
\* one, or neither.
Drifts ==
    /\ Within(Drift(1)) /\ Within(Drift(5) + Drift(6))
    /\ Within(Drift(1) + Drift(5) + Drift(6))
    /\ Within(Drift(1) + Drift(3) + Drift(4) + Drift(6))
    /\ 2 <= Len(lines) => lines[2] <= Reclaimable + moved

\* What was measured once the text has been read.
Measured ==
    pc \in {"vmstat", "verdict"} \/ (Judged /\ Runs({"memory"})) =>
        /\ Len(lines) = 6
        /\ sysmem.used = Used /\ sysmem.available \in Available

\* The verdict is on what was measured.
Decided == Judged /\ Runs({"memory"}) => exit = StatusOf(Monitored, Whole)

\* The inductive invariant of the memory.
MemInv == /\ pc \in {"options", "meminfo", "vmstat", "verdict", "exited"}
          /\ pc # "exited" => exit = RUNNING
          /\ MemTypes /\ Room /\ Drifts /\ Measured /\ Decided
          /\ sysmem.available \in 0 .. Word - 1 /\ sysmem.used \in 0 .. Word - 1

-----------------------------------------------------------------------------
(* Words *)

\* Half a word is a number, and twice it the word.
LEMMA HalfWord ==
    Word \div 2 \in Nat /\ Word = 2 * (Word \div 2) /\ Word \in Nat \ {0}
BY PluginAssumption, DivMod

\* A word holds a number that fits in half of it, whatever its sign.
LEMMA SignedFits ==
    ASSUME NEW x \in Int, -(Word \div 2) <= x, x < Word \div 2
    PROVE  signed(x) = x /\ signed(unsigned(x)) = x
<1> DEFINE h == Word \div 2
<1>1. h \in Nat /\ Word = 2 * h /\ Word \in Nat \ {0}
  BY HalfWord
<1>2. CASE x >= 0
  <2>1. (0 * Word + x) % Word = x
    BY <1>1, <1>2, UniqueMod
  <2>2. x % Word = x
    BY <2>1, <1>1
  <2> QED BY <1>1, <2>2 DEF signed, unsigned
<1>3. CASE x < 0
  <2>1. ((-1) * Word + (x + Word)) % Word = x + Word
    <3>1. x + Word \in 0 .. Word - 1 /\ -1 \in Int
      BY <1>1, <1>3
    <3> QED BY <1>1, <3>1, UniqueMod
  <2>2. (-1) * Word + (x + Word) = x
    BY <1>1
  <2>3. x % Word = x + Word
    BY <2>1, <2>2
  <2>4. (0 * Word + (x + Word)) % Word = x + Word
    <3>1. x + Word \in 0 .. Word - 1 /\ 0 \in Int
      BY <1>1, <1>3
    <3> QED BY <1>1, <3>1, UniqueMod
  <2>5. (x + Word) % Word = x + Word
    BY <2>4, <1>1
  <2>6. ~(x + Word < h)
    BY <1>1
  <2> HIDE DEF h
  <2> QED BY <1>1, <2>3, <2>5, <2>6 DEF signed, unsigned, h
<1> QED BY <1>2, <1>3

\* An unsigned number is a word; a signed one is less than half of it.
LEMMA WordRange ==
    ASSUME NEW x \in Int
    PROVE  /\ unsigned(x) \in 0 .. Word - 1
           /\ signed(x) \in Int /\ signed(x) < Word \div 2 /\ -(Word \div 2) <= signed(x)
<1>1. x % Word \in 0 .. Word - 1
  BY HalfWord, DivMod
<1> QED BY <1>1, HalfWord DEF unsigned, signed

-----------------------------------------------------------------------------
(* The lines *)

\* The order of the lines.
LEMMA TheLines ==
    /\ Len(Lines) = 6 /\ DOMAIN Lines = 1 .. 6
    /\ Lines[1] = "MemFree" /\ Lines[2] = "MemAvailable" /\ Lines[3] = "Buffers"
    /\ Lines[4] = "Cached" /\ Lines[5] = "File" /\ Lines[6] = "SReclaimable"
BY DEF Lines

\* So each line is found by its name.
LEMMA TheLine ==
    /\ Line("MemFree") = lines[1] /\ Line("MemAvailable") = lines[2]
    /\ Line("Buffers") = lines[3] /\ Line("Cached") = lines[4]
    /\ Line("File") = lines[5] /\ Line("SReclaimable") = lines[6]
<1>1. ASSUME NEW k \in 1 .. 6
      PROVE  (CHOOSE j \in DOMAIN Lines : Lines[j] = Lines[k]) = k
  <2>1. k \in DOMAIN Lines /\ \A j \in DOMAIN Lines : Lines[j] = Lines[k] => j = k
    BY TheLines
  <2> QED BY <2>1
<1>2. \A k \in 1 .. 6 : Line(Lines[k]) = lines[k]
  BY <1>1 DEF Line
<1> QED BY <1>2, TheLines

\* What each line is worth.
LEMMA TheValues ==
    /\ ValueOf(Lines[1]) = pool["free"]
    /\ ValueOf(Lines[2]) = pool["free"] + FilePages \div 2
    /\ ValueOf(Lines[3]) = pool["buffers"]
    /\ ValueOf(Lines[4]) = pool["file"] + pool["shmem"]
    /\ ValueOf(Lines[5]) = FilePages
    /\ ValueOf(Lines[6]) = pool["slab"]
BY TheLines DEF ValueOf

-----------------------------------------------------------------------------
(* The inductive invariant *)

\* The pools are numbers, the lines too.
LEMMA Numbers ==
    ASSUME MemTypes
    PROVE  /\ pool["free"] \in Nat /\ pool["used"] \in Nat /\ pool["file"] \in Nat
           /\ pool["shmem"] \in Nat /\ pool["buffers"] \in Nat /\ pool["slab"] \in Nat
           /\ moved \in Nat /\ moved <= MaxMoves /\ MaxMoves \in Nat
           /\ Len(lines) \in Nat
           /\ \A k \in 1 .. Len(lines) : lines[k] \in Nat
<1>1. pool \in [Pools -> Nat] /\ moved \in 0 .. MaxMoves /\ lines \in Seq(Nat)
  BY DEF MemTypes
<1>2. \A p \in Pools : pool[p] \in Nat
  BY <1>1
<1>3. /\ "free" \in Pools /\ "used" \in Pools /\ "file" \in Pools /\ "shmem" \in Pools
      /\ "buffers" \in Pools /\ "slab" \in Pools
  BY DEF Pools
<1>4. Len(lines) \in Nat /\ \A k \in 1 .. Len(lines) : lines[k] \in Nat
  BY <1>1
<1>5. MaxMoves \in Nat
  BY MemoryAssumption
<1> QED BY <1>1, <1>2, <1>3, <1>4, <1>5

\* It holds at the start.
LEMMA MemInvInit ==
    ASSUME opt \in MemoryOptions, PluginInit, MemoryInit
    PROVE  MemInv
<1>1. Runs(MemoryPrograms)
  BY MemoryAssumption DEF Runs, MemoryCommandLine
<1>2. pool \in PoolsAtBoot /\ host \in Hosts /\ moved = 0 /\ lines = <<>> /\ sysmem = NoMemory
  BY <1>1 DEF MemoryInit, Either
<1>3. pc = "options" /\ exit = RUNNING
  BY DEF PluginInit
<1>4. MemTypes
  <2>1. lines \in Seq(Nat) /\ Len(lines) = 0
    BY <1>2
  <2> QED BY <1>2, <2>1, MemoryAssumption DEF MemTypes
<1>5. Room
  BY <1>2, MemoryAssumption DEF Room, Total
<1>6. Drifts
  BY <1>2 DEF Drifts, Drift, Within
<1>7. ~Judged
  BY <1>3 DEF Judged
<1>8. sysmem.available \in 0 .. Word - 1 /\ sysmem.used \in 0 .. Word - 1
  BY <1>2, HalfWord DEF NoMemory
<1> QED BY <1>3, <1>4, <1>5, <1>6, <1>7, <1>8 DEF MemInv, Measured, Decided

\* A page that moves adds one to a pool and takes one from another: a sum of pools grows
\* or shrinks by at most one, the sum of all stays.
LEMMA OneMove ==
    ASSUME MemTypes, MovePage
    PROVE  /\ pool' \in [Pools -> Nat]
           /\ LET near(x, y) == -1 <= x - y /\ x - y <= 1
                  f == pool["free"]    g == pool'["free"]    u == pool["used"]  v == pool'["used"]
                  b == pool["buffers"] c == pool'["buffers"] k == pool["file"]  l == pool'["file"]
                  s == pool["shmem"]   t == pool'["shmem"]   r == pool["slab"]  q == pool'["slab"]
              IN /\ near(g, f) /\ near(g + c, f + b)
                 /\ near(g + c + l + t, f + b + k + s)
                 /\ near(g + c + l + t + q, f + b + k + s + r)
                 /\ near(l + c, k + b) /\ near(l + c + q, k + b + r)
                 /\ near(g + l + c, f + k + b) /\ near(g + l + c + q, f + k + b + r)
                 /\ g + v + l + t + c + q = f + u + k + s + b + r
<1>1. PICK from \in Pools, to \in Pools :
        /\ from # to /\ pool[from] > 0
        /\ pool' = [pool EXCEPT ![from] = @ - 1, ![to] = @ + 1]
  BY DEF MovePage
<1>2. pool \in [Pools -> Nat]
  BY DEF MemTypes
<1> DEFINE Plus(p) == IF p = to THEN 1 ELSE 0
           Minus(p) == IF p = from THEN 1 ELSE 0
<1>3. \A p \in Pools : pool'[p] = pool[p] + Plus(p) - Minus(p) /\ pool[p] \in Nat
  BY <1>1, <1>2
<1>4. pool' \in [Pools -> Nat]
  BY <1>1, <1>2
<1>5. \A p \in Pools : pool'[p] - pool[p] = Plus(p) - Minus(p)
  BY <1>3
<1>6. /\ "free" \in Pools /\ "used" \in Pools /\ "file" \in Pools /\ "shmem" \in Pools
      /\ "buffers" \in Pools /\ "slab" \in Pools
  BY DEF Pools
<1>7. /\ from \in {"free", "used", "file", "shmem", "buffers", "slab"}
      /\ to \in {"free", "used", "file", "shmem", "buffers", "slab"}
  BY DEF Pools
<1> DEFINE f == pool["free"]    g == pool'["free"]    u == pool["used"]  v == pool'["used"]
           b == pool["buffers"] c == pool'["buffers"] k == pool["file"]  l == pool'["file"]
           s == pool["shmem"]   t == pool'["shmem"]   r == pool["slab"]  q == pool'["slab"]
<1>8. /\ g = f + Plus("free") - Minus("free") /\ v = u + Plus("used") - Minus("used")
      /\ l = k + Plus("file") - Minus("file") /\ t = s + Plus("shmem") - Minus("shmem")
      /\ c = b + Plus("buffers") - Minus("buffers") /\ q = r + Plus("slab") - Minus("slab")
      /\ f \in Nat /\ u \in Nat /\ k \in Nat /\ s \in Nat /\ b \in Nat /\ r \in Nat
  <2> HIDE DEF Plus, Minus
  <2> QED BY <1>3, <1>6
<1>9. /\ Plus("free") \in Int /\ Plus("free") >= 0
      /\ Plus("used") \in Int /\ Plus("used") >= 0
      /\ Plus("file") \in Int /\ Plus("file") >= 0
      /\ Plus("shmem") \in Int /\ Plus("shmem") >= 0
      /\ Plus("buffers") \in Int /\ Plus("buffers") >= 0
      /\ Plus("slab") \in Int /\ Plus("slab") >= 0
      /\ Plus("free") + Plus("used") + Plus("file") + Plus("shmem") + Plus("buffers")
         + Plus("slab") = 1
  BY <1>7
<1>10. /\ Minus("free") \in Int /\ Minus("free") >= 0
       /\ Minus("used") \in Int /\ Minus("used") >= 0
       /\ Minus("file") \in Int /\ Minus("file") >= 0
       /\ Minus("shmem") \in Int /\ Minus("shmem") >= 0
       /\ Minus("buffers") \in Int /\ Minus("buffers") >= 0
       /\ Minus("slab") \in Int /\ Minus("slab") >= 0
       /\ Minus("free") + Minus("used") + Minus("file") + Minus("shmem") + Minus("buffers")
          + Minus("slab") = 1
  BY <1>7
<1> HIDE DEF Plus, Minus, f, g, u, v, b, c, k, l, s, t, r, q
<1>11. /\ -1 <= g - f /\ g - f <= 1
       /\ -1 <= (g + c) - (f + b) /\ (g + c) - (f + b) <= 1
       /\ -1 <= (g + c + l + t) - (f + b + k + s) /\ (g + c + l + t) - (f + b + k + s) <= 1
       /\ -1 <= (g + c + l + t + q) - (f + b + k + s + r)
       /\ (g + c + l + t + q) - (f + b + k + s + r) <= 1
  BY <1>8, <1>9, <1>10
<1>12. /\ -1 <= (l + c) - (k + b) /\ (l + c) - (k + b) <= 1
       /\ -1 <= (l + c + q) - (k + b + r) /\ (l + c + q) - (k + b + r) <= 1
       /\ -1 <= (g + l + c) - (f + k + b) /\ (g + l + c) - (f + k + b) <= 1
       /\ -1 <= (g + l + c + q) - (f + k + b + r) /\ (g + l + c + q) - (f + k + b + r) <= 1
  BY <1>8, <1>9, <1>10
<1>13. g + v + l + t + c + q = f + u + k + s + b + r
  BY <1>8, <1>9, <1>10
<1> QED BY <1>4, <1>11, <1>12, <1>13 DEF f, g, u, v, b, c, k, l, s, t, r, q

\* A page that moves keeps the invariant.
LEMMA MemInvMove ==
    ASSUME MemInv, MovePage
    PROVE  MemInv'
<1>1. pc = "meminfo" /\ moved < MaxMoves /\ moved' = moved + 1
  BY DEF MovePage
<1>2. UNCHANGED <<main, host, lines, sysmem>>
  BY DEF MovePage
<1>3. MemTypes
  BY DEF MemInv
<1>4. MemTypes'
  BY <1>1, <1>2, <1>3, OneMove, MemoryAssumption DEF MemTypes, main
<1> DEFINE f == pool["free"]    g == pool'["free"]    u == pool["used"]    v == pool'["used"]
           b == pool["buffers"] c == pool'["buffers"] k == pool["file"]    l == pool'["file"]
           s == pool["shmem"]   t == pool'["shmem"]   r == pool["slab"]    q == pool'["slab"]
<1>n. /\ f \in Nat /\ u \in Nat /\ b \in Nat /\ k \in Nat /\ s \in Nat /\ r \in Nat
      /\ g \in Nat /\ v \in Nat /\ c \in Nat /\ l \in Nat /\ t \in Nat /\ q \in Nat
  <2>1. pool' \in [Pools -> Nat] /\ pool \in [Pools -> Nat]
    BY <1>3, OneMove DEF MemTypes
  <2> QED BY <2>1 DEF Pools
<1> DEFINE near(x, y) == -1 <= x - y /\ x - y <= 1
<1>d. /\ near(g, f) /\ near(g + c, f + b)
      /\ near(g + c + l + t, f + b + k + s)
      /\ near(g + c + l + t + q, f + b + k + s + r)
      /\ near(l + c, k + b) /\ near(l + c + q, k + b + r)
      /\ near(g + l + c, f + k + b) /\ near(g + l + c + q, f + k + b + r)
      /\ g + v + l + t + c + q = f + u + k + s + b + r
  BY <1>3, OneMove, Zenon
<1>5. Total' = Total /\ Total \in Nat
  BY <1>n, <1>d DEF Total, Pages
<1>6. Room'
  BY <1>1, <1>5, MemoryAssumption DEF MemInv, Room
<1>7. ~Judged' /\ pc' = "meminfo"
  BY <1>1, <1>2 DEF Judged, main
<1>8. Drifts'
  <2>1. /\ (ValueOf(Lines[1]))' = pool'["free"]
        /\ (ValueOf(Lines[3]))' = pool'["buffers"]
        /\ (ValueOf(Lines[4]))' = pool'["file"] + pool'["shmem"]
        /\ (ValueOf(Lines[5]))' = pool'["file"] + pool'["buffers"]
        /\ (ValueOf(Lines[6]))' = pool'["slab"]
    BY TheLines DEF ValueOf, FilePages
  <2>2. lines' = lines /\ Len(lines) \in 0 .. 6 /\ \A j \in 1 .. Len(lines) : lines[j] \in Nat
    <3>1. Len(lines) <= 6
      BY <1>3 DEF MemTypes
    <3>2. lines' = lines
      BY <1>2
    <3>3. \A j \in 1 .. Len(lines) : lines[j] \in Nat
      BY <1>3, Numbers
    <3>4. Len(lines) \in Nat
      BY <1>3, Numbers
    <3>5. Len(lines) \in 0 .. 6
      <4> DEFINE n == Len(lines)
      <4>1. n <= 6 /\ n \in Nat
        BY <3>1, <3>4
      <4> HIDE DEF n
      <4>2. n \in 0 .. 6
        BY <4>1
      <4> QED BY <4>2 DEF n
    <3> QED BY <3>2, <3>3, <3>5, Zenon
  <2> DEFINE d1 == Drift(1) d3 == Drift(3) d4 == Drift(4) d5 == Drift(5) d6 == Drift(6)
             e1 == Drift(1)' e3 == Drift(3)' e4 == Drift(4)' e5 == Drift(5)' e6 == Drift(6)'
             n == Len(lines) m == moved m2 == moved' y == Reclaimable z == Reclaimable' x == lines[2]
  <2>3. /\ d1 = IF 1 <= n THEN f - lines[1] ELSE 0
        /\ d3 = IF 3 <= n THEN b - lines[3] ELSE 0
        /\ d4 = IF 4 <= n THEN (k + s) - lines[4] ELSE 0
        /\ d5 = IF 5 <= n THEN (k + b) - lines[5] ELSE 0
        /\ d6 = IF 6 <= n THEN r - lines[6] ELSE 0
    BY TheValues DEF Drift, FilePages
  <2>4. /\ e1 = IF 1 <= n THEN g - lines[1] ELSE 0
        /\ e3 = IF 3 <= n THEN c - lines[3] ELSE 0
        /\ e4 = IF 4 <= n THEN (l + t) - lines[4] ELSE 0
        /\ e5 = IF 5 <= n THEN (l + c) - lines[5] ELSE 0
        /\ e6 = IF 6 <= n THEN q - lines[6] ELSE 0
    BY <2>1, <2>2 DEF Drift
  <2>5. Drifts
    BY DEF MemInv
  <2>6. m \in Nat /\ m2 = m + 1
    BY <1>1, <1>3, Numbers
  <2>7. y = f + (k + b) + r /\ z = g + (l + c) + q
    BY DEF Reclaimable, FilePages
  <2>8. 2 <= n => x <= y + m /\ x \in Nat
    BY <2>2, <2>5 DEF Drifts
  <2>9. /\ -m <= d1 /\ d1 <= m /\ -m <= d5 + d6 /\ d5 + d6 <= m
        /\ -m <= d1 + d5 + d6 /\ d1 + d5 + d6 <= m
        /\ -m <= d1 + d3 + d4 + d6 /\ d1 + d3 + d4 + d6 <= m
    BY <2>5 DEF Drifts, Within
  <2>10. /\ 1 <= n => lines[1] \in Nat
         /\ 3 <= n => lines[3] \in Nat
         /\ 4 <= n => lines[4] \in Nat
         /\ 5 <= n => lines[5] \in Nat
         /\ 6 <= n => lines[6] \in Nat
         /\ n \in 0 .. 6
    BY <2>2
  <2> DEFINE x1 == lines[1] x3 == lines[3] x4 == lines[4] x5 == lines[5] x6 == lines[6]
  <2> HIDE DEF f, g, u, v, b, c, k, l, s, t, r, q, d1, d3, d4, d5, d6, e1, e3, e4, e5, e6, n, m, m2,
               x, y, z, x1, x3, x4, x5, x6
  <2>11. 2 <= n => x <= z + m2
    BY <1>n, <1>d, <2>6, <2>7, <2>8
  <2>12. /\ -m2 <= e1 /\ e1 <= m2
    BY <1>n, <1>d, <2>3, <2>4, <2>6, <2>9, <2>10 DEF x1
  <2>13. -m2 <= e5 + e6 /\ e5 + e6 <= m2
    BY <1>n, <1>d, <2>3, <2>4, <2>6, <2>9, <2>10 DEF x5, x6
  <2>14. -m2 <= e1 + e5 + e6 /\ e1 + e5 + e6 <= m2
    BY <1>n, <1>d, <2>3, <2>4, <2>6, <2>9, <2>10
  <2>15. -m2 <= e1 + e3 + e4 + e6 /\ e1 + e3 + e4 + e6 <= m2
    BY <1>n, <1>d, <2>3, <2>4, <2>6, <2>9, <2>10
  <2>16. (2 <= Len(lines) => lines[2] <= Reclaimable + moved)'
    BY <2>2, <2>11 DEF n, x, z, m2
  <2> QED BY <2>12, <2>13, <2>14, <2>15, <2>16 DEF Drifts, Within, e1, e3, e4, e5, e6, m2
<1> QED BY <1>1, <1>2, <1>4, <1>6, <1>7, <1>8 DEF MemInv, Measured, Decided, main

\* A line that is written says what there is.
LEMMA MemInvWrite ==
    ASSUME MemInv, WriteLine
    PROVE  MemInv'
<1>1. pc = "meminfo" /\ Len(lines) < 6
  BY TheLines DEF WriteLine
<1>2. UNCHANGED <<main, host, pool, moved, sysmem>>
  BY DEF WriteLine, system
<1>3. MemTypes
  BY DEF MemInv
<1> DEFINE n == Len(lines)
           v == ValueOf(Lines[n + 1])
<1>4. lines' = Append(lines, v)
  BY DEF WriteLine
<1>5. n \in 0 .. 5
  <2>1. n \in Nat
    BY <1>3, Numbers
  <2>2. n < 6
    BY <1>1
  <2> HIDE DEF n
  <2> QED BY <2>1, <2>2
<1>n. /\ pool["free"] \in Nat /\ pool["file"] \in Nat /\ pool["shmem"] \in Nat
      /\ pool["buffers"] \in Nat /\ pool["slab"] \in Nat /\ moved \in Nat
  BY <1>3, Numbers
<1>h. FilePages \in Nat /\ FilePages \div 2 \in Nat /\ FilePages \div 2 <= FilePages
  BY <1>n DEF FilePages
<1>6. v \in Nat
  <2>1. \A j \in 1 .. 6 : ValueOf(Lines[j]) \in Nat
    BY <1>n, <1>h, TheValues
  <2> HIDE DEF n
  <2> QED BY <1>5, <2>1
<1>7. lines' \in Seq(Nat) /\ Len(lines') = n + 1 /\ lines'[n + 1] = v
      /\ \A j \in 1 .. n : lines'[j] = lines[j]
  <2>1. lines \in Seq(Nat)
    BY <1>3 DEF MemTypes
  <2> HIDE DEF v
  <2> QED BY <1>4, <1>6, <2>1
<1>8. MemTypes'
  <2> HIDE DEF n
  <2> QED BY <1>2, <1>3, <1>5, <1>7 DEF MemTypes, main
<1>9. Room'
  BY <1>2 DEF MemInv, Room, Total
<1>10. ASSUME NEW j \in 1 .. 6 PROVE Drift(j)' = Drift(j)
  <2>1. (ValueOf(Lines[j]))' = ValueOf(Lines[j])
    BY <1>2 DEF ValueOf, FilePages
  <2> DEFINE w == ValueOf(Lines[j])
  <2> HIDE DEF n
  <2>2. Drift(j) = IF j <= n THEN w - lines[j] ELSE 0
    BY DEF Drift, n
  <2>3. Drift(j)' = IF j <= n + 1 THEN w - lines'[j] ELSE 0
    BY <1>7, <2>1 DEF Drift
  <2>4. CASE j <= n
    <3>1. lines'[j] = lines[j]
      BY <1>5, <1>7, <2>4
    <3> QED BY <1>5, <2>2, <2>3, <2>4, <3>1
  <2>5. CASE j = n + 1
    <3>1. lines'[j] = w /\ w \in Nat
      BY <1>6, <1>7, <2>5
    <3> HIDE DEF w
    <3> QED BY <1>5, <2>2, <2>3, <2>5, <3>1
  <2>6. CASE j > n + 1
    BY <1>5, <2>2, <2>3, <2>6
  <2> QED BY <1>5, <2>4, <2>5, <2>6
<1>11. Drifts'
  <2>1. /\ Drift(1)' = Drift(1) /\ Drift(3)' = Drift(3) /\ Drift(4)' = Drift(4)
        /\ Drift(5)' = Drift(5) /\ Drift(6)' = Drift(6)
    BY <1>10
  <2>2. Drifts
    BY DEF MemInv
  <2>3. moved' = moved /\ Reclaimable' = Reclaimable
    BY <1>2 DEF Reclaimable, FilePages
  <2>4. (2 <= Len(lines) => lines[2] <= Reclaimable + moved)'
    <3>1. CASE n = 1
      <4>1. lines'[2] = pool["free"] + FilePages \div 2
        BY <1>7, <3>1, TheValues
      <4>2. Reclaimable = pool["free"] + FilePages + pool["slab"]
        BY DEF Reclaimable
      <4> QED BY SMTT(30), <1>n, <1>h, <2>3, <4>1, <4>2
    <3>2. CASE n = 0
      <4>1. Len(lines') = 1
        BY <1>7, <3>2
      <4> QED BY <4>1
    <3>3. CASE n >= 2
      <4>1. lines[2] <= Reclaimable + moved
        BY <2>2, <3>3 DEF Drifts
      <4>2. lines'[2] = lines[2]
        BY <1>5, <1>7, <3>3
      <4> QED BY <2>3, <4>1, <4>2
    <3> HIDE DEF n
    <3> QED BY <1>5, <3>1, <3>2, <3>3
  <2> QED BY <2>1, <2>2, <2>3, <2>4 DEF Drifts, Within
<1>12. ~Judged' /\ pc' = "meminfo"
  BY <1>1, <1>2 DEF Judged, main
<1> QED BY <1>1, <1>2, <1>8, <1>9, <1>11, <1>12 DEF MemInv, Measured, Decided, main

\* What the finished text says, compared with what there is.
LEMMA FinishedText ==
    ASSUME MemInv, Len(lines) = 6
    PROVE  LET f == pool["free"]  p == FilePages  s == pool["slab"]
           IN /\ f \in Nat /\ p \in Nat /\ s \in Nat /\ moved \in Nat /\ pool["used"] \in Nat
              /\ \A j \in 1 .. 6 : lines[j] \in Nat
              /\ f + p + s + moved < Word \div 2 /\ pool["used"] + moved < Word \div 2
              /\ Reclaimable = f + p + s
              /\ lines[1] <= f + moved /\ lines[2] <= f + p + s + moved
              /\ lines[5] + lines[6] <= p + s + moved /\ p + s <= lines[5] + lines[6] + moved
              /\ lines[1] + lines[5] + lines[6] <= f + p + s + moved
              /\ LET d == Total - lines[1] - (lines[4] + lines[6]) - lines[3]
                 IN d \in Int /\ -moved <= d - pool["used"] /\ d - pool["used"] <= moved
<1>1. MemTypes /\ Room /\ Drifts
  BY DEF MemInv
<1> DEFINE f == pool["free"]  p == FilePages  s == pool["slab"] u == pool["used"] k == pool["file"]
           h == pool["shmem"] b == pool["buffers"] m == moved M == MaxMoves
           x1 == lines[1] x2 == lines[2] x3 == lines[3] x4 == lines[4] x5 == lines[5] x6 == lines[6]
           W == Word \div 2
<1>2. /\ f \in Nat /\ u \in Nat /\ k \in Nat /\ h \in Nat /\ b \in Nat /\ s \in Nat /\ m \in Nat
      /\ m <= M /\ M \in Nat
  BY <1>1, Numbers
<1>3. p = k + b
  BY DEF FilePages
<1>4. \A j \in 1 .. 6 : lines[j] \in Nat
  BY <1>1, Numbers
<1>5. /\ x1 \in Nat /\ x2 \in Nat /\ x3 \in Nat /\ x4 \in Nat /\ x5 \in Nat /\ x6 \in Nat
  BY <1>4
<1>6. /\ Drift(1) = f - x1 /\ Drift(3) = b - x3 /\ Drift(4) = (k + h) - x4
      /\ Drift(5) = p - x5 /\ Drift(6) = s - x6
  BY TheValues DEF Drift
<1>7. Reclaimable = f + p + s
  BY DEF Reclaimable
<1>8. Total = f + u + k + h + b + s
  BY DEF Total, Pages
<1>9. Total + M < W /\ W \in Nat
  BY <1>1, HalfWord DEF Room
<1>10. /\ -m <= f - x1 /\ f - x1 <= m
       /\ -m <= (p - x5) + (s - x6) /\ (p - x5) + (s - x6) <= m
       /\ -m <= (f - x1) + (p - x5) + (s - x6)
       /\ -m <= (f - x1) + (b - x3) + ((k + h) - x4) + (s - x6)
       /\ (f - x1) + (b - x3) + ((k + h) - x4) + (s - x6) <= m
  BY <1>1, <1>6 DEF Drifts, Within
<1>11. x2 <= f + p + s + m
  BY <1>1, <1>7 DEF Drifts
<1> HIDE DEF f, p, s, u, k, h, b, m, M, x1, x2, x3, x4, x5, x6, W
<1>12. f + p + s + m < W /\ u + m < W /\ p \in Nat
  BY <1>2, <1>3, <1>8, <1>9
<1>13. x1 <= f + m /\ x5 + x6 <= p + s + m /\ p + s <= x5 + x6 + m /\ x1 + x5 + x6 <= f + p + s + m
  BY <1>2, <1>5, <1>10, <1>12
<1> DEFINE d == Total - x1 - (x4 + x6) - x3
<1>14. d \in Int /\ -m <= d - u /\ d - u <= m
  BY <1>2, <1>5, <1>8, <1>10
<1> QED BY <1>2, <1>4, <1>7, <1>11, <1>12, <1>13, <1>14
        DEF f, p, s, u, m, x1, x2, x3, x4, x5, x6, W

\* The used pages are off by the pages that moved.
LEMMA UsedIsNear ==
    ASSUME MemInv, Len(lines) = 6
    PROVE  /\ Used \in 0 .. Word - 1
           /\ Apart(signed(Used), pool["used"]) <= moved
           /\ moved = 0 => Used = pool["used"]
<1> DEFINE d == Total - lines[1] - (lines[4] + lines[6]) - lines[3]
           u == pool["used"]
           m == moved
           W == Word \div 2
<1>1. /\ d \in Int /\ -m <= d - u /\ d - u <= m /\ u \in Nat /\ m \in Nat
      /\ u + m < W
  BY FinishedText
<1>2. Used = unsigned(d)
  BY TheLine DEF Used
<1>3. W \in Nat /\ Word = 2 * W
  BY HalfWord
<1>4. m < W
  BY <1>1, <1>3
<1>5. -W <= d /\ d < W
  BY <1>1, <1>3, <1>4
<1>6. signed(Used) = d
  BY <1>1, <1>2, <1>5, SignedFits
<1>7. Used \in 0 .. Word - 1
  BY <1>1, <1>2, WordRange
<1>8. Apart(signed(Used), u) <= m
  <2> HIDE DEF d, u, m
  <2> QED BY <1>1, <1>6 DEF Apart
<1>9. m = 0 => Used = u
  <2> SUFFICES ASSUME m = 0 PROVE Used = u
    OBVIOUS
  <2>1. d = u /\ d \in Nat
    BY <1>1
  <2> HIDE DEF d, W
  <2>2. signed(d) = d
    BY <1>1, <1>5, SignedFits DEF W
  <2>3. unsigned(d) = d
    BY <2>1, <2>2, <1>3, <1>5, WordRange DEF signed, W
  <2> QED BY <1>2, <2>1, <2>3
<1> QED BY <1>7, <1>8, <1>9

\* The estimate of the available pages, for a value min_free_kbytes may have.
LEMMA EstimateIsNear ==
    ASSUME MemInv, Len(lines) = 6, NEW min_free \in Nat
    PROVE  /\ Estimated(min_free) \in 0 .. Word - 1
           /\ Estimated(min_free) <= Reclaimable + moved
           /\ (min_free * 5) \div 4 <= Line("MemFree") =>
                Estimated(min_free) + moved >= (Reclaimable - pool["free"]) \div 2
<1> DEFINE f == pool["free"]  p == FilePages  s == pool["slab"] m == moved
           x1 == lines[1] x5 == lines[5] x6 == lines[6]
           W == Word \div 2
           l == unsigned(min_free * 5) \div 4
           h5 == x5 \div 2
           h6 == x6 \div 2
           c5 == Least(h5, l)
           c6 == Least(h6, l)
           e == x1 - l + x5 - c5 + x6 - c6
           E == Estimated(min_free)
<1>1. /\ f \in Nat /\ p \in Nat /\ s \in Nat /\ m \in Nat
      /\ f + p + s + m < W /\ Reclaimable = f + p + s
      /\ x1 <= f + m /\ p + s <= x5 + x6 + m
      /\ x1 + x5 + x6 <= f + p + s + m
  BY FinishedText
<1>2. \A j \in 1 .. 6 : lines[j] \in Nat
  BY FinishedText
<1>3. /\ x1 \in Nat /\ x5 \in Nat /\ x6 \in Nat
  BY <1>2
<1>4. W \in Nat /\ Word = 2 * W /\ Word \in Nat \ {0}
  BY HalfWord
<1>5. E = IF signed(e) < 0 THEN 0 ELSE signed(e)
  BY TheLine DEF Estimated
<1>6. unsigned(min_free * 5) \in 0 .. Word - 1 /\ unsigned(min_free * 5) <= min_free * 5
  <2> DEFINE a == min_free * 5
             q == a \div Word
             r == a % Word
  <2>1. a \in Nat
    OBVIOUS
  <2>2. /\ q \in Int /\ r \in 0 .. Word - 1 /\ a = q * Word + r
    BY <2>1, HalfWord, DivMod
  <2> HIDE DEF a, q, r
  <2>3. q >= 0
    <3>1. CASE q <= -1
      <4>1. q * Word <= -1 * Word
        BY <2>2, <3>1, HalfWord
      <4> QED BY <2>1, <2>2, <4>1, HalfWord
    <3> QED BY <2>2, <3>1
  <2>4. q * Word >= 0
    BY <2>2, <2>3, HalfWord
  <2>5. r <= a
    BY <2>1, <2>2, <2>4, HalfWord
  <2> QED BY <2>2, <2>5 DEF unsigned, a, r
<1>7. l \in Nat /\ 4 * l <= 2 * W /\ l <= (min_free * 5) \div 4
  <2> DEFINE a == min_free * 5
             b == unsigned(a)
  <2>1. a \in Nat /\ b \in Nat /\ b <= a /\ b < 2 * W
    BY <1>4, <1>6
  <2> HIDE DEF a, b, W
  <2>2. b \div 4 \in Nat /\ 4 * (b \div 4) <= b /\ b \div 4 <= a \div 4
    BY <2>1
  <2>3. l = b \div 4
    BY DEF a, b
  <2>4. l <= a \div 4
    BY <2>2, <2>3
  <2> HIDE DEF l
  <2>5. l \in Nat /\ 4 * l <= 2 * W
    BY <1>4, <2>1, <2>2, <2>3
  <2> QED BY <2>4, <2>5 DEF a
<1>8. h5 \in Nat /\ 2 * h5 <= x5 /\ h6 \in Nat /\ 2 * h6 <= x6
  BY <1>3
<1> HIDE DEF f, p, s, m, x1, x5, x6, W, l, h5, h6
<1>9. /\ c5 \in Nat /\ c5 <= h5 /\ c5 <= l
      /\ c6 \in Nat /\ c6 <= h6 /\ c6 <= l
  BY <1>7, <1>8 DEF Least
<1> HIDE DEF c5, c6
<1>10. e \in Int /\ -W <= e /\ e < W /\ e <= x1 + x5 + x6
  BY <1>1, <1>3, <1>4, <1>7, <1>8, <1>9
<1>11. l <= x1 => 2 * e >= x5 + x6
  BY <1>1, <1>3, <1>4, <1>7, <1>8, <1>9
<1> HIDE DEF e
<1>12. signed(e) = e
  BY <1>10, SignedFits DEF W
<1> HIDE DEF E
<1>13. E \in 0 .. Word - 1 /\ E <= f + p + s + m /\ e <= E
  <2>1. E = IF e < 0 THEN 0 ELSE e
    BY <1>5, <1>12
  <2>2. CASE e < 0
    BY <1>1, <1>4, <1>10, <2>1, <2>2
  <2>3. CASE e >= 0
    BY <1>1, <1>3, <1>4, <1>10, <2>1, <2>3
  <2> QED BY <1>10, <2>2, <2>3
<1>14. l <= x1 => E + m >= (p + s) \div 2
  <2> SUFFICES ASSUME l <= x1 PROVE E + m >= (p + s) \div 2
    OBVIOUS
  <2> DEFINE t == (p + s) \div 2
  <2>1. t \in Nat /\ 2 * t <= p + s
    BY <1>1
  <2>2. 2 * e >= x5 + x6
    BY <1>11
  <2> HIDE DEF t
  <2> QED BY <1>1, <1>3, <1>10, <1>13, <2>1, <2>2 DEF t
<1>15. Reclaimable - pool["free"] = p + s
  BY <1>1 DEF f
<1>16. (min_free * 5) \div 4 <= Line("MemFree") => l <= x1
  <2>1. (min_free * 5) \div 4 \in Nat
    OBVIOUS
  <2> QED BY <1>3, <1>7, <2>1, TheLine DEF x1
<1> QED BY <1>1, <1>13, <1>14, <1>15, <1>16 DEF E, m

\* The available pages, wherever they come from.
LEMMA AvailableIsNear ==
    ASSUME MemInv, Len(lines) = 6, NEW a \in Available
    PROVE  /\ a \in 0 .. Word - 1 /\ a <= Reclaimable + moved
           /\ ~host.available /\ host.version = "new" /\ host.min_free # NULL
              /\ (host.min_free * 5) \div 4 <= Line("MemFree") =>
                a + moved >= (Reclaimable - pool["free"]) \div 2
<1> DEFINE f == pool["free"]  p == FilePages  s == pool["slab"] m == moved
<1>1. /\ f \in Nat /\ p \in Nat /\ s \in Nat /\ m \in Nat
      /\ f + p + s + m < Word \div 2 /\ Reclaimable = f + p + s
      /\ lines[1] <= f + m /\ lines[2] <= f + p + s + m
  BY FinishedText
<1>2. \A j \in 1 .. 6 : lines[j] \in Nat
  BY FinishedText
<1>3. lines[1] \in Nat /\ lines[2] \in Nat
  BY <1>2
<1>4. Word \div 2 \in Nat /\ Word = 2 * (Word \div 2)
  BY HalfWord
<1>5. CASE host.available
  <2>1. a = lines[2]
    BY <1>5, TheLine DEF Available
  <2> HIDE DEF f, p, s, m
  <2> QED BY <1>1, <1>3, <1>4, <1>5, <2>1 DEF m
<1>6. CASE ~host.available /\ host.version = "old"
  <2>1. a = lines[1]
    BY <1>6, TheLine DEF Available
  <2> HIDE DEF f, p, s, m
  <2> QED BY <1>1, <1>3, <1>4, <1>6, <2>1 DEF m
<1>7. CASE ~host.available /\ host.version # "old"
  <2>1. PICK k \in kb_min_free : a = Estimated(k)
    BY <1>7 DEF Available
  <2>2. host \in HostKind
    BY MemoryAssumption DEF MemInv, MemTypes
  <2>3. k \in Nat /\ (host.min_free # NULL => k = host.min_free)
    BY <2>2, MemoryAssumption DEF kb_min_free, HostKind
  <2> HIDE DEF kb_min_free
  <2> QED BY <2>1, <2>3, EstimateIsNear
<1> QED BY <1>5, <1>6, <1>7

\* What the invariant says of the text, and what it amounts to, depends on nothing else.
LEMMA SameText ==
    ASSUME MemInv, UNCHANGED <<host, pool, moved, lines>>, opt' = opt
    PROVE  /\ MemTypes' /\ Room' /\ Drifts' /\ Used' = Used /\ Available' = Available
           /\ Total' = Total
<1>1. MemTypes'
  BY DEF MemInv, MemTypes
<1>2. Total' = Total
  BY DEF Total
<1>3. Room'
  BY <1>2 DEF MemInv, Room
<1>4. \A x : (ValueOf(x))' = ValueOf(x)
  BY DEF ValueOf, FilePages
<1>5. \A k \in 1 .. 6 : Drift(k)' = Drift(k)
  BY <1>4 DEF Drift
<1>6. /\ Drift(1)' = Drift(1) /\ Drift(3)' = Drift(3) /\ Drift(4)' = Drift(4)
      /\ Drift(5)' = Drift(5) /\ Drift(6)' = Drift(6)
  BY <1>5
<1>7. Reclaimable' = Reclaimable
  BY DEF Reclaimable, FilePages
<1>8. Drifts'
  BY <1>6, <1>7 DEF MemInv, Drifts, Within
<1>9. \A x : Line(x)' = Line(x)
  BY DEF Line
<1>10. Used' = Used
  BY <1>2, <1>9 DEF Used
<1>11. \A k : Estimated(k)' = Estimated(k)
  BY <1>9 DEF Estimated, Least
<1>12. kb_min_free' = kb_min_free
  BY DEF kb_min_free
<1>13. Available' = Available
  BY <1>9, <1>11, <1>12, Zenon DEF Available
<1> QED BY <1>1, <1>2, <1>3, <1>8, <1>10, <1>13

\* A step of the plugin keeps the invariant.
LEMMA MemInvPlugin ==
    ASSUME MemInv, MemoryPlugin
    PROVE  MemInv'
<1>0. opt' = opt /\ UNCHANGED <<host, pool, moved, lines>>
  BY DEF MemoryPlugin, MemoryParseOptions, proc_sysmem_read, ReadVmstats, JudgeMemory,
         GiveUp, Exit, Goto, memoryVars, system
<1>t. /\ MemTypes' /\ Room' /\ Drifts' /\ Used' = Used /\ Available' = Available
      /\ Total' = Total
  BY <1>0, SameText
<1>s. STATE_UNKNOWN \notin Statuses \ {STATE_UNKNOWN} /\ RUNNING \notin Statuses
  BY DEF Statuses, STATE_OK, STATE_WARNING, STATE_CRITICAL, STATE_UNKNOWN, RUNNING
<1>g. ASSUME GiveUp, pc # "exited" PROVE pc' = "exited" /\ ~Judged'
  BY <1>g, <1>s DEF GiveUp, Exit, Judged
<1>r. pc # "exited" => exit = RUNNING
  BY DEF MemInv
<1>y. sysmem.available \in 0 .. Word - 1 /\ sysmem.used \in 0 .. Word - 1
  BY DEF MemInv
<1>1. CASE MemoryParseOptions
  <2>1. pc = "options" /\ UNCHANGED memoryVars /\ sysmem' = sysmem
    BY <1>1 DEF MemoryParseOptions, memoryVars
  <2>2. (pc' = "exited" \/ (pc' = "meminfo" /\ exit' = exit)) /\ ~Judged'
    BY <1>1, <1>g, <2>1 DEF MemoryParseOptions, Goto, Judged
  <2> QED BY <1>t, <1>r, <1>y, <2>1, <2>2 DEF MemInv, Measured, Decided
<1>2. CASE proc_sysmem_read
  <2>1. pc = "meminfo" /\ Len(lines) = 6
    BY <1>2, TheLines DEF proc_sysmem_read
  <2>2. CASE ~host.available /\ host.version = "non-standard"
    <3>1. GiveUp /\ sysmem' = sysmem
      BY <1>2, <2>2 DEF proc_sysmem_read
    <3>2. pc' = "exited" /\ ~Judged'
      BY <1>g, <2>1, <3>1
    <3> QED BY <1>t, <1>y, <3>1, <3>2 DEF MemInv, Measured, Decided
  <2>3. CASE ~(~host.available /\ host.version = "non-standard")
    <3>1. /\ pc' \in {"vmstat", "verdict"} /\ exit' = exit
          /\ \E a \in Available : sysmem' = [available |-> a, used |-> Used]
      BY <1>2, <2>3 DEF proc_sysmem_read, Goto
    <3>2. PICK a \in Available : sysmem' = [available |-> a, used |-> Used]
      BY <3>1
    <3>3. sysmem'.available = a /\ sysmem'.used = Used
      BY <3>2
    <3>4. a \in 0 .. Word - 1 /\ Used \in 0 .. Word - 1
      BY <2>1, AvailableIsNear, UsedIsNear
    <3>5. Measured'
      BY <1>0, <1>t, <2>1, <3>3 DEF Measured
    <3>6. ~Judged'
      BY <3>1 DEF Judged
    <3>7. (sysmem.available \in 0 .. Word - 1 /\ sysmem.used \in 0 .. Word - 1)'
      BY <3>3, <3>4
    <3> QED BY <1>t, <1>r, <2>1, <3>1, <3>5, <3>6, <3>7 DEF MemInv, Decided
  <2> QED BY <2>2, <2>3
<1>3. CASE ReadVmstats
  <2>1. pc = "vmstat" /\ sysmem' = sysmem
    BY <1>3 DEF ReadVmstats, memoryVars
  <2>2. (pc' = "exited" \/ (pc' = "verdict" /\ exit' = exit)) /\ ~Judged'
    BY <1>3, <1>g, <2>1 DEF ReadVmstats, Goto, Judged
  <2>3. Measured'
    BY <1>0, <1>t, <2>1, <2>2 DEF MemInv, Measured
  <2> QED BY <1>t, <1>r, <1>y, <2>1, <2>2, <2>3 DEF MemInv, Decided
<1>4. CASE JudgeMemory
  <2>1. /\ pc = "verdict" /\ sysmem' = sysmem
        /\ pc' = "exited" /\ exit' = StatusOf(Monitored, Whole)
    BY <1>4 DEF JudgeMemory, memoryVars, Exit
  <2>2. Measured'
    BY <1>0, <1>t, <2>1 DEF MemInv, Measured
  <2>3. Monitored' = Monitored /\ Whole' = Whole
    BY <1>0, <1>t, <2>1 DEF Monitored, Whole, Runs
  <2>4. \A x, y : StatusOf(x, y)' = StatusOf(x, y)
    BY <1>0 DEF StatusOf
  <2>5. Decided'
    BY <2>1, <2>3, <2>4 DEF Decided
  <2> QED BY <1>t, <1>y, <2>1, <2>2, <2>5 DEF MemInv
<1> QED BY <1>1, <1>2, <1>3, <1>4 DEF MemoryPlugin

\* The inductive invariant.
LEMMA MemInvInvariant ==
    MemorySpec => []MemInv
<1>1. opt \in MemoryOptions /\ PluginInit /\ MemoryInit => MemInv
  BY MemInvInit
<1>2. MemInv /\ [MemoryNext]_<<main, memoryVars>> => MemInv'
  <2>1. ASSUME MemInv, UNCHANGED <<main, memoryVars>> PROVE MemInv'
    <3>1. UNCHANGED <<host, pool, moved, lines>> /\ opt' = opt /\ pc' = pc /\ exit' = exit
          /\ sysmem' = sysmem
      BY <2>1 DEF main, memoryVars, system
    <3>2. /\ MemTypes' /\ Room' /\ Drifts' /\ Used' = Used /\ Available' = Available
          /\ Total' = Total
      BY <2>1, <3>1, SameText
    <3>3. Monitored' = Monitored /\ Whole' = Whole
      BY <3>1, <3>2 DEF Monitored, Whole, Runs
    <3>4. Measured'
      BY <2>1, <3>1, <3>2 DEF MemInv, Measured, Judged, Runs
    <3>5. \A x, y : StatusOf(x, y)' = StatusOf(x, y)
      BY <3>1 DEF StatusOf
    <3>6. Decided'
      BY <2>1, <3>1, <3>3, <3>5 DEF MemInv, Decided, Judged, Runs
    <3> QED BY <2>1, <3>1, <3>2, <3>4, <3>6 DEF MemInv
  <2> QED BY <2>1, MemInvMove, MemInvWrite, MemInvPlugin DEF MemoryNext
<1> QED BY <1>1, <1>2, PTL DEF MemorySpec

\* What check_memory judges is near what was there, although the lines of /proc/meminfo
\* were written one after the other, whatever the sizes of the pools and however many
\* pages move.
THEOREM NearTruth == MemorySpec => []MemoryNearTruth
<1>1. MemInv => MemoryNearTruth
  <2> SUFFICES ASSUME MemInv PROVE MemoryNearTruth
    OBVIOUS
  <2>1. CASE Judged /\ Runs({"memory"})
    <3>1. /\ Len(lines) = 6 /\ sysmem.used = Used /\ sysmem.available \in Available
          /\ exit = StatusOf(Monitored, Whole)
      BY <2>1 DEF MemInv, Measured, Decided
    <3>2. ~Runs({"swap"})
      BY <2>1 DEF Runs
    <3>3. Whole = Total /\ (~opt.available => Monitored = sysmem.used)
      BY <3>2 DEF Whole, Monitored
    <3>4. UsedNearTruth
      BY <3>1, <3>3, UsedIsNear DEF UsedNearTruth
    <3>5. AvailableWithinReclaimable
      BY <3>1, AvailableIsNear DEF AvailableWithinReclaimable
    <3> QED BY <3>4, <3>5 DEF MemoryNearTruth
  <2>2. CASE ~(Judged /\ Runs({"memory"}))
    BY <2>2 DEF MemoryNearTruth, UsedNearTruth, AvailableWithinReclaimable
  <2> QED BY <2>1, <2>2
<1> QED BY <1>1, MemInvInvariant, PTL

-----------------------------------------------------------------------------
(***************************************************************************)
(* The ports: the walk of check_fc over its ports, for any number of them, *)
(* whatever links and ports do meanwhile.                                  *)
(***************************************************************************)

\* The ports that are online now.
Online == {p \in Port : port_state[p].online}

\* What is online is there and lies between the ghosts; before the walk nothing has
\* changed.
Links ==
    /\ Online \subseteq {p \in Port : port_state[p].there}
    /\ steady \subseteq Online /\ Online \subseteq ever
    /\ pc = "options" => n_online = 0 /\ todo = {} /\ maybe = {}

\* A set of ports that have been counted: they were online at some time, are not visited
\* again, and what was online all the time is among them or still to come.  (A new port
\* does not take the name of one that was there.)
IsCount(C) ==
    /\ C \subseteq ever /\ Cardinality(C) = n_online
    /\ C \cap (todo \cup maybe) = {}
    /\ \A p \in C : p \in fabric.ports \/ port_state[p].there
    /\ pc \in {"ports", "rx", "errors"} => steady \subseteq C \cup todo

\* Some set of ports is what has been counted.
Counts == \E C \in SUBSET Port : IsCount(C)

\* What has been read of the port that is visited is not above what it has.
Readings ==
    /\ pc \in {"rx", "errors"} => dp \in Port
    /\ pc = "rx" /\ reads >= 1 => rx[2] <= port_state[dp].frames
    /\ pc = "errors" => reads >= 1 /\ (reads > 1 => rx[1] <= rx[2])

\* The inductive invariant.
PortsInv ==
    /\ PortsTypeOK /\ opt \in PortsOptions
    /\ Links /\ Counts /\ Readings /\ OnlineBracketed

\* The state of check_fc.
vars == <<main, portsVars>>

\* The invariant holds before the walk.
LEMMA InitInv == opt \in PortsOptions /\ PluginInit /\ PortsInit => PortsInv
<1> SUFFICES ASSUME opt \in PortsOptions, PluginInit, PortsInit PROVE PortsInv
  OBVIOUS
<1>1. opt.program \in PortsPrograms
  BY PortsAssumption DEF PortsCommandLine
<1>2. fabric \in Fabrics
  BY <1>1 DEF PortsInit, Either, Runs
<1>3. fabric.online \subseteq fabric.ports /\ fabric.ports \subseteq Port
  BY <1>2, PortsAssumption DEF Fabric
<1>4. Online = fabric.online
  BY <1>3 DEF Online, PortsInit
<1>5. PortsTypeOK
  <2>1. port_state \in [Port -> [there : BOOLEAN, online : BOOLEAN, frames : Nat, errors : Nat]]
    BY DEF PortsInit
  <2>2. dp \in Port \cup {NULL} /\ rx \in Nat \X Nat
    BY DEF PortsInit
  <2> QED BY <2>1, <2>2, <1>2, <1>3, PortsAssumption DEF PortsTypeOK, PortsInit
<1>6. Links
  BY <1>3, <1>4 DEF Links, PortsInit
<1>7. IsCount({})
  BY FS_EmptySet DEF IsCount, PortsInit, PluginInit
<1>8. Counts
  BY <1>7 DEF Counts
<1>9. OnlineBracketed
  BY DEF PluginInit, OnlineBracketed, Judged
<1>10. Readings
  BY DEF PluginInit, Readings
<1> QED BY <1>5, <1>6, <1>8, <1>9, <1>10 DEF PortsInv

-----------------------------------------------------------------------------
(* The ports change *)

\* A change leaves what has been counted; an online port is lost from steady.
LEMMA ChangeStep ==
    ASSUME PortsInv, Change, NEW p \in Port, PortsTypeOK', Links',
           steady' \in {steady, steady \ {p}}, ever' \in {ever, ever \cup {p}},
           todo' = todo \/ (todo' = todo \ {p} /\ p \notin steady'),
           \A q \in Port : q \in todo' \cup maybe' =>
               q \in todo \cup maybe \/ (q \notin fabric.ports /\ ~port_state[q].there),
           \A q \in Port : q \notin fabric.ports /\ port_state[q].there => port_state'[q].there,
           \A q \in Port : port_state'[q].frames \in {port_state[q].frames, port_state[q].frames + 2}
    PROVE  PortsInv'
<1>1. /\ pc \notin {"options", "exited"} /\ pc' = pc /\ opt' = opt /\ exit' = exit
      /\ fabric' = fabric /\ n_online' = n_online
  BY DEF Change, main
<1>2. PICK C \in SUBSET Port : IsCount(C)
  BY DEF PortsInv, Counts
<1>3. IsCount(C)'
  <2>1. C \subseteq ever' /\ Cardinality(C) = n_online'
    BY <1>1, <1>2 DEF IsCount
  <2>2. C \cap (todo' \cup maybe') = {}
    BY <1>2 DEF IsCount
  <2>3. \A q \in C : q \in fabric'.ports \/ port_state'[q].there
    BY <1>1, <1>2 DEF IsCount
  <2>4. pc' \in {"ports", "rx", "errors"} => steady' \subseteq C \cup todo'
    BY <1>1, <1>2 DEF IsCount
  <2> QED BY <2>1, <2>2, <2>3, <2>4 DEF IsCount
<1>4. Counts'
  BY <1>3 DEF Counts
<1>5. OnlineBracketed'
  BY <1>1 DEF OnlineBracketed, Judged
<1>6. opt' \in PortsOptions
  BY <1>1 DEF PortsInv
<1>7. Readings'
  <2>1. dp' = dp /\ reads' = reads /\ rx' = rx
    BY DEF Change
  <2>2. \A q \in Port : port_state[q].frames \in Nat /\ port_state'[q].frames \in Nat
    BY DEF PortsInv, PortsTypeOK
  <2>3. rx[2] \in Nat
    BY DEF PortsInv, PortsTypeOK
  <2> QED BY <1>1, <2>1, <2>2, <2>3 DEF PortsInv, Readings
<1> QED BY <1>4, <1>5, <1>6, <1>7 DEF PortsInv

\* A link goes up or down.
LEMMA LinkStep ==
    ASSUME PortsInv, NEW p \in Port, Link(p) PROVE PortsInv'
<1>1. Change /\ port_state[p].there /\ UNCHANGED <<todo, maybe, fabric>>
  BY DEF Link, Change
<1>2. /\ port_state' = [port_state EXCEPT ![p].online = ~@]
      /\ steady' = steady \ {p} /\ ever' = ever \cup {p}
  BY DEF Link
<1>3. port_state \in [Port -> [there : BOOLEAN, online : BOOLEAN, frames : Nat, errors : Nat]]
  BY DEF PortsInv, PortsTypeOK
<1>4. /\ port_state' \in [Port -> [there : BOOLEAN, online : BOOLEAN, frames : Nat, errors : Nat]]
      /\ \A q \in Port : port_state'[q].frames = port_state[q].frames
      /\ \A q \in Port : port_state'[q].there = port_state[q].there
      /\ \A q \in Port \ {p} : port_state'[q].online = port_state[q].online
  BY <1>2, <1>3
<1>5. PortsTypeOK'
  BY <1>1, <1>2, <1>4, PortsAssumption DEF PortsInv, PortsTypeOK, Change
<1>6. Links'
  <2>1. Online' \subseteq Online \cup {p} /\ Online \subseteq Online' \cup {p}
    BY <1>4 DEF Online
  <2>2. Online' \subseteq {q \in Port : port_state'[q].there}
    BY <1>1, <1>4, <2>1 DEF PortsInv, Links
  <2>3. steady' \subseteq Online' /\ Online' \subseteq ever'
    BY <1>2, <2>1 DEF PortsInv, Links
  <2> QED BY <1>1, <2>2, <2>3 DEF Links, Change, main
<1> QED BY <1>1, <1>2, <1>4, <1>5, <1>6, ChangeStep

\* Frames and errors are counted.
LEMMA FramesStep ==
    ASSUME PortsInv, NEW p \in Port, Frames(p) PROVE PortsInv'
<1>1. Change /\ UNCHANGED <<todo, maybe, fabric, steady, ever>>
  BY DEF Frames, Change
<1>2. port_state' = [port_state EXCEPT ![p].frames = @ + 2, ![p].errors = @ + 1]
  BY DEF Frames
<1>3. port_state \in [Port -> [there : BOOLEAN, online : BOOLEAN, frames : Nat, errors : Nat]]
  BY DEF PortsInv, PortsTypeOK
<1>4. /\ port_state' \in [Port -> [there : BOOLEAN, online : BOOLEAN, frames : Nat, errors : Nat]]
      /\ \A q \in Port : /\ port_state'[q].there = port_state[q].there
                         /\ port_state'[q].frames \in {port_state[q].frames, port_state[q].frames + 2}
                         /\ port_state'[q].online = port_state[q].online
  BY <1>2, <1>3
<1>5. PortsTypeOK'
  BY <1>1, <1>4, PortsAssumption DEF PortsInv, PortsTypeOK, Change
<1>6. Links'
  <2>1. Online' = Online /\ {q \in Port : port_state'[q].there} = {q \in Port : port_state[q].there}
    BY <1>4 DEF Online
  <2> QED BY <1>1, <2>1 DEF Links, PortsInv, Change, main
<1> QED BY <1>1, <1>4, <1>5, <1>6, ChangeStep

\* A port appears.
LEMMA AppearStep ==
    ASSUME PortsInv, NEW p \in Port, Appear(p) PROVE PortsInv'
<1>1. Change /\ ~port_state[p].there /\ p \notin fabric.ports /\ UNCHANGED <<todo, fabric, steady, ever>>
  BY DEF Appear, Change
<1>2. port_state' = [port_state EXCEPT ![p].there = TRUE] /\ maybe' = maybe \cup {p}
  BY DEF Appear
<1>3. port_state \in [Port -> [there : BOOLEAN, online : BOOLEAN, frames : Nat, errors : Nat]]
  BY DEF PortsInv, PortsTypeOK
<1>4. /\ port_state' \in [Port -> [there : BOOLEAN, online : BOOLEAN, frames : Nat, errors : Nat]]
      /\ \A q \in Port : port_state'[q].frames = port_state[q].frames
      /\ \A q \in Port : port_state[q].there => port_state'[q].there
      /\ \A q \in Port : port_state'[q].online = port_state[q].online
  BY <1>2, <1>3
<1>5. PortsTypeOK'
  BY <1>1, <1>2, <1>4, PortsAssumption DEF PortsInv, PortsTypeOK, Change
<1>6. Links'
  <2>1. Online' = Online /\ {q \in Port : port_state[q].there} \subseteq {q \in Port : port_state'[q].there}
    BY <1>4 DEF Online
  <2> QED BY <1>1, <2>1 DEF Links, PortsInv, Change, main
<1> QED BY <1>1, <1>2, <1>4, <1>5, <1>6, ChangeStep

\* A port goes.
LEMMA VanishStep ==
    ASSUME PortsInv, NEW p \in Port, Vanish(p) PROVE PortsInv'
<1>1. Change /\ p \in fabric.ports /\ UNCHANGED <<fabric, ever>>
  BY DEF Vanish, Change
<1>2. /\ port_state' = [port_state EXCEPT ![p].there = FALSE, ![p].online = FALSE]
      /\ todo' = todo \ {p} /\ maybe' = (IF p \in todo THEN maybe \cup {p} ELSE maybe)
      /\ steady' = steady \ {p}
  BY DEF Vanish
<1>3. port_state \in [Port -> [there : BOOLEAN, online : BOOLEAN, frames : Nat, errors : Nat]]
  BY DEF PortsInv, PortsTypeOK
<1>4. /\ port_state' \in [Port -> [there : BOOLEAN, online : BOOLEAN, frames : Nat, errors : Nat]]
      /\ \A q \in Port : port_state'[q].frames = port_state[q].frames
      /\ ~port_state'[p].online
      /\ \A q \in Port \ {p} : /\ port_state'[q].there = port_state[q].there
                               /\ port_state'[q].online = port_state[q].online
  BY <1>2, <1>3
<1>5. PortsTypeOK'
  BY <1>1, <1>2, <1>4, PortsAssumption DEF PortsInv, PortsTypeOK, Change
<1>6. Links'
  <2>1. Online' = Online \ {p}
    BY <1>4 DEF Online
  <2>2. Online' \subseteq {q \in Port : port_state'[q].there}
    BY <1>4, <2>1 DEF PortsInv, Links, Online
  <2> QED BY <1>1, <1>2, <2>1, <2>2 DEF Links, PortsInv, Change, main
<1> QED BY <1>1, <1>2, <1>4, <1>5, <1>6, ChangeStep

-----------------------------------------------------------------------------
(* The walk *)

\* A step that reads what a port has, or ends, counts nothing.
LEMMA WalkStep ==
    ASSUME PortsInv, PortsTypeOK', UNCHANGED <<opt, fcSystem, todo, maybe, n_online>>,
           pc # "options", pc' # "options",
           pc' \in {"ports", "rx", "errors"} => pc \in {"ports", "rx", "errors"},
           Readings', OnlineBracketed'
    PROVE  PortsInv'
<1>1. PICK C \in SUBSET Port : IsCount(C)
  BY DEF PortsInv, Counts
<1>2. IsCount(C)'
  BY <1>1 DEF IsCount, fcSystem
<1>3. Counts'
  BY <1>2 DEF Counts
<1>4. Links'
  BY DEF PortsInv, Links, Online, fcSystem
<1> QED BY <1>3, <1>4 DEF PortsInv

\* The directory of hosts is opened.
LEMMA OpenHostsStep == ASSUME PortsInv, OpenHosts PROVE PortsInv'
<1>1. /\ pc = "options" /\ opt' = opt
      /\ UNCHANGED <<fabric, port_state, changes, steady, ever, maybe, dp, reads, rx, n_ports,
                     n_online, rx_tot, err_tot>>
      /\ \/ pc' = "exited" /\ exit' = STATE_UNKNOWN /\ todo' = todo
         \/ pc' = "ports" /\ todo' = {p \in Port : port_state[p].there}
  BY DEF OpenHosts, GiveUp, Exit, Goto, fcSystem
<1>2. n_online = 0 /\ todo = {} /\ maybe = {}
  BY <1>1 DEF PortsInv, Links
<1>3. todo' \subseteq Port
  BY <1>1, <1>2
<1>4. PortsTypeOK'
  BY <1>1, <1>3 DEF PortsInv, PortsTypeOK
<1>5. Online' = Online
  BY <1>1 DEF Online
<1>6. Links'
  BY <1>1, <1>5 DEF PortsInv, Links
<1>7. steady \subseteq {p \in Port : port_state[p].there}
  BY DEF PortsInv, Links
<1>8. IsCount({})'
  BY <1>1, <1>2, <1>7, FS_EmptySet DEF IsCount
<1>9. Counts'
  BY <1>8 DEF Counts
<1>10. OnlineBracketed'
  BY <1>1 DEF OnlineBracketed, Judged
<1>11. Readings'
  BY <1>1 DEF Readings
<1> QED BY <1>1, <1>4, <1>6, <1>9, <1>10, <1>11 DEF PortsInv

\* The walk comes to a port.
LEMMA VisitPortStep == ASSUME PortsInv, NEW p \in Port, VisitPort(p) PROVE PortsInv'
<1>1. /\ pc = "ports" /\ p \in todo \cup maybe
      /\ todo' = todo \ {p} /\ maybe' = maybe \ {p}
      /\ dp' = p /\ reads' = 0 /\ n_ports' = n_ports + 1
      /\ UNCHANGED <<opt, fabric, port_state, changes, steady, ever, rx, rx_tot, err_tot>>
  BY DEF VisitPort, fcSystem, Goto, Crash, Exit
<1>2. \/ /\ port_state[p].there /\ pc' = "rx"
         /\ n_online' = n_online + (IF port_state[p].online THEN 1 ELSE 0)
      \/ ~port_state[p].there /\ pc' = "exited" /\ exit' = CRASHED /\ n_online' = n_online
  BY DEF VisitPort, Goto, Crash, Exit
<1>3. n_online \in Nat /\ n_ports \in Nat /\ n_online <= n_ports
  BY DEF PortsInv, PortsTypeOK
<1>4. PortsTypeOK'
  <2>1. n_online' \in Nat /\ n_ports' \in Nat /\ n_online' <= n_ports'
    BY <1>1, <1>2, <1>3
  <2> QED BY <1>1, <2>1 DEF PortsInv, PortsTypeOK
<1>5. Links'
  BY <1>1, <1>2 DEF PortsInv, Links, Online
<1>6. PICK C \in SUBSET Port : IsCount(C)
  BY DEF PortsInv, Counts
<1>7. Online \subseteq {q \in Port : port_state[q].there} /\ steady \subseteq Online /\ Online \subseteq ever
  BY DEF PortsInv, Links
<1>8. Counts'
  <2>1. CASE port_state[p].online
    <3>1. p \in Online /\ p \notin C /\ IsFiniteSet(C)
      BY <1>1, <1>6, <2>1, FS_Subset, PortsAssumption DEF IsCount, Online
    <3>2. Cardinality(C \cup {p}) = Cardinality(C) + 1
      BY <3>1, FS_AddElement
    <3>3. port_state[p].there /\ n_online' = n_online + 1
      BY <1>2, <1>7, <2>1, <3>1
    <3>4. IsCount(C \cup {p})'
      BY <1>1, <1>6, <1>7, <3>1, <3>2, <3>3 DEF IsCount
    <3> QED BY <3>4 DEF Counts
  <2>2. CASE ~port_state[p].online
    <3>1. n_online' = n_online
      BY <1>2, <1>3, <2>2
    <3>2. p \notin steady
      BY <1>7, <2>2 DEF Online
    <3>3. IsCount(C)'
      BY <1>1, <1>6, <3>1, <3>2 DEF IsCount
    <3> QED BY <3>3 DEF Counts
  <2> QED BY <2>1, <2>2
<1>9. Readings'
  BY <1>1, <1>2 DEF Readings
<1>10. OnlineBracketed'
  BY <1>2 DEF OnlineBracketed, Judged, CRASHED, Statuses, STATE_OK, STATE_WARNING,
              STATE_CRITICAL, STATE_UNKNOWN
<1> QED BY <1>1, <1>4, <1>5, <1>8, <1>9, <1>10 DEF PortsInv

\* The frames of a port are read, once or twice.
LEMMA ReadFramesStep == ASSUME PortsInv, ReadFrames PROVE PortsInv'
<1>1. /\ pc = "rx" /\ opt' = opt /\ UNCHANGED <<fcSystem, todo, maybe, dp, n_ports, n_online, rx_tot, err_tot>>
      /\ \/ /\ port_state[dp].there /\ rx' = <<rx[2], port_state[dp].frames>>
            /\ reads' = reads + 1 /\ pc' \in {"rx", "errors"} /\ exit' = exit
         \/ pc' = "exited" /\ exit' = STATE_UNKNOWN /\ UNCHANGED <<rx, reads>>
  BY DEF ReadFrames, Goto, GiveUp, Exit
<1>2. /\ dp \in Port /\ reads \in Nat /\ rx[2] \in Nat /\ port_state[dp].frames \in Nat
      /\ reads >= 1 => rx[2] <= port_state[dp].frames
  BY <1>1 DEF PortsInv, Readings, PortsTypeOK
<1>3. rx' \in Nat \X Nat /\ reads' \in Nat
  BY <1>1, <1>2 DEF PortsInv, PortsTypeOK
<1>4. PortsTypeOK'
  BY <1>1, <1>3 DEF PortsInv, PortsTypeOK, fcSystem
<1>5. Readings'
  BY <1>1, <1>2 DEF Readings, fcSystem
<1>6. OnlineBracketed'
  BY <1>1 DEF OnlineBracketed, Judged
<1> QED BY <1>1, <1>4, <1>5, <1>6, WalkStep

\* The errors of a port are read, and its counts are added.
LEMMA ReadErrorsStep == ASSUME PortsInv, ReadErrors PROVE PortsInv'
<1>1. /\ pc = "errors" /\ opt' = opt
      /\ UNCHANGED <<fcSystem, todo, maybe, dp, reads, rx, n_ports, n_online>>
      /\ \/ /\ rx_tot' = rx_tot + rx_frames /\ err_tot' = err_tot + port_state[dp].errors
            /\ pc' = "ports"
         \/ pc' = "exited" /\ exit' = STATE_UNKNOWN /\ UNCHANGED <<rx_tot, err_tot>>
  BY DEF ReadErrors, Goto, GiveUp, Exit
<1>2. /\ dp \in Port /\ reads \in Nat /\ rx[1] \in Nat /\ rx[2] \in Nat
      /\ port_state[dp].errors \in Nat /\ reads >= 1 /\ (reads > 1 => rx[1] <= rx[2])
  BY <1>1 DEF PortsInv, Readings, PortsTypeOK
<1>3. rx_frames \in Nat
  BY <1>2 DEF rx_frames
<1>4. rx_tot' \in Nat /\ err_tot' \in Nat
  BY <1>1, <1>2, <1>3 DEF PortsInv, PortsTypeOK
<1>5. PortsTypeOK'
  BY <1>1, <1>4 DEF PortsInv, PortsTypeOK, fcSystem
<1>6. Readings'
  BY <1>1 DEF Readings
<1>7. OnlineBracketed'
  BY <1>1 DEF OnlineBracketed, Judged
<1> QED BY <1>1, <1>5, <1>6, <1>7, WalkStep

\* At the end all that was online all the time has been counted.
LEMMA JudgePortsStep == ASSUME PortsInv, JudgePorts PROVE PortsInv'
<1>1. /\ pc = "ports" /\ todo = {} /\ pc' = "exited" /\ opt' = opt
      /\ exit' = get_status(n_online, opt.my_threshold) /\ UNCHANGED <<fcSystem, fcWalk>>
  BY DEF JudgePorts, Exit, portsVars
<1>2. PICK C \in SUBSET Port : IsCount(C)
  BY DEF PortsInv, Counts
<1>3. steady \subseteq C /\ C \subseteq ever /\ ever \subseteq Port /\ Cardinality(C) = n_online
  BY <1>1, <1>2 DEF IsCount, PortsInv, PortsTypeOK
<1>4. IsFiniteSet(C) /\ IsFiniteSet(ever)
  BY <1>3, FS_Subset, PortsAssumption
<1>5. Cardinality(steady) <= n_online /\ n_online <= Cardinality(ever)
  BY <1>3, <1>4, FS_Subset
<1>6. PortsTypeOK'
  BY <1>1 DEF PortsInv, PortsTypeOK, fcSystem, fcWalk
<1>7. Readings'
  BY <1>1 DEF Readings
<1>8. OnlineBracketed'
  BY <1>1, <1>5 DEF OnlineBracketed, fcSystem, fcWalk
<1> QED BY <1>1, <1>6, <1>7, <1>8, WalkStep DEF fcWalk

-----------------------------------------------------------------------------
(* The theorems *)

LEMMA PortsInductive == PortsInv /\ [PortsNext]_vars => PortsInv'
<1> SUFFICES ASSUME PortsInv, [PortsNext]_vars PROVE PortsInv'
  OBVIOUS
<1>1. CASE \E p \in Port : Link(p) \/ Frames(p) \/ Appear(p) \/ Vanish(p)
  BY <1>1, LinkStep, FramesStep, AppearStep, VanishStep
<1>2. CASE \E p \in Port : VisitPort(p)
  BY <1>2, VisitPortStep
<1>3. CASE UNCHANGED vars
  <2>1. UNCHANGED <<pc, opt, exit, fabric, port_state, changes, steady, ever, todo, maybe, dp,
                    reads, rx, n_ports, n_online, rx_tot, err_tot>>
    BY <1>3 DEF vars, main, portsVars, fcSystem, fcWalk
  <2>2. PortsTypeOK' /\ opt' \in PortsOptions
    BY <2>1 DEF PortsInv, PortsTypeOK
  <2>3. Links' /\ Readings'
    BY <2>1 DEF PortsInv, Links, Online, Readings
  <2>6. OnlineBracketed'
    BY <2>1 DEF PortsInv, OnlineBracketed, Judged, Runs
  <2>4. PICK C \in SUBSET Port : IsCount(C)
    BY DEF PortsInv, Counts
  <2>5. IsCount(C)'
    BY <2>1, <2>4 DEF IsCount
  <2> QED BY <2>2, <2>3, <2>5, <2>6 DEF PortsInv, Counts
<1> QED BY <1>1, <1>2, <1>3, OpenHostsStep, ReadFramesStep, ReadErrorsStep, JudgePortsStep
        DEF PortsNext, PortsChange, PortsPlugin

\* The invariant holds always.
LEMMA Invariant == PortsSpec => []PortsInv
BY InitInv, PortsInductive, PTL DEF PortsSpec, vars

\* The types of check_fc hold, for any number of ports and of changes: no port's
\* frames of the run are negative.
THEOREM PortsTypeCorrect == PortsSpec => []PortsTypeOK
<1>1. PortsInv => PortsTypeOK
  BY DEF PortsInv
<1> QED BY <1>1, Invariant, PTL

\* The number of ports online that check_fc judges lies between that of the ports that
\* were online all the time and that of those that ever were.
THEOREM OnlineIsBracketed == PortsSpec => []OnlineBracketed
<1>1. PortsInv => OnlineBracketed
  BY DEF PortsInv
<1> QED BY <1>1, Invariant, PTL

-----------------------------------------------------------------------------
(* The frames *)

Boot == IF opt.count > 1 THEN 1 ELSE 0

\* Every port has received a frame since boot, and each statistic that was read had
\* that one at least, and no more than the port has now.
ReadingsOfThePort ==
    /\ \A p \in Port : port_state[p].frames >= 1
    /\ pc \in {"rx", "errors"} => dp \in Port
    /\ pc \in {"rx", "errors"} /\ reads >= 1 => rx[2] >= 1 /\ rx[2] <= port_state[dp].frames
    /\ pc = "rx" => reads = 0 \/ reads < opt.count
    /\ pc = "errors" => /\ reads >= 1 /\ (reads = 1 <=> opt.count <= 1)
                        /\ reads > 1 => rx[1] >= 1 /\ rx[1] <= rx[2]

\* A set of ports whose frames have been added: they are not visited again, and the
\* totals are at most what these ports have.
IsAccount(V) ==
    /\ V \cap (todo \cup maybe) = {}
    /\ \A p \in V : p \in fabric.ports \/ port_state[p].there
    /\ pc \in {"rx", "errors"} =>
         /\ dp \notin V \cup todo \cup maybe
         /\ dp \in fabric.ports \/ port_state[dp].there
    /\ \/ n_ports = Cardinality(V) + (IF pc \in {"rx", "errors"} THEN 1 ELSE 0)
       \/ pc = "exited" /\ ~Judged
    /\ rx_tot <= SumFunctionOnSet(FramesSince, V)
    /\ err_tot <= SumFunctionOnSet(Errors, V)
    /\ opt.count <= 1 => rx_tot >= Cardinality(V)

\* Some set of ports is what the totals are of.
Accounts == \E V \in SUBSET Port : IsAccount(V)

\* The inductive invariant of the totals.
FramesInv ==
    /\ ReadingsOfThePort /\ Accounts /\ FramesOfTheRun
    /\ pc = "options" => n_ports = 0

\* The ports are as many as there may be; each has its numbers.
LEMMA PortNumbers ==
    ASSUME PortsTypeOK, ReadingsOfThePort, NEW V \in SUBSET Port
    PROVE  /\ IsFiniteSet(V) /\ Cardinality(V) \in Nat
           /\ \A p \in Port : /\ FramesSince[p] = port_state[p].frames - Boot
                             /\ FramesSince[p] \in Nat
                             /\ Errors[p] = port_state[p].errors /\ Errors[p] \in Nat
           /\ SumFunctionOnSet(FramesSince, V) \in Nat /\ SumFunctionOnSet(Errors, V) \in Nat
<1>1. IsFiniteSet(V) /\ Cardinality(V) \in Nat
  BY FS_Subset, FS_CardinalityType, PortsAssumption
<1>2. \A p \in Port : /\ port_state[p].frames \in Nat /\ port_state[p].frames >= 1
                      /\ port_state[p].errors \in Nat
  BY DEF PortsTypeOK, ReadingsOfThePort
<1>3. Boot \in {0, 1}
  BY DEF Boot
<1>4. \A p \in Port : FramesSince[p] = port_state[p].frames - Boot /\ Errors[p] = port_state[p].errors
  BY DEF FramesSince, Errors, Boot
<1>5. \A p \in Port : FramesSince[p] \in Nat /\ Errors[p] \in Nat
  BY <1>2, <1>3, <1>4
<1>6. SumFunctionOnSet(FramesSince, V) \in Nat /\ SumFunctionOnSet(Errors, V) \in Nat
  BY <1>1, <1>5, SumType
<1> QED BY <1>1, <1>4, <1>5, <1>6

\* What the ports have only grows.
LEMMA SumsGrow ==
    ASSUME PortsTypeOK, PortsTypeOK', ReadingsOfThePort, opt' = opt, NEW V \in SUBSET Port,
           \A p \in Port : port_state'[p].frames >= port_state[p].frames
                          /\ port_state'[p].errors >= port_state[p].errors
    PROVE  /\ SumFunctionOnSet(FramesSince, V) <= SumFunctionOnSet(FramesSince', V)
           /\ SumFunctionOnSet(Errors, V) <= SumFunctionOnSet(Errors', V)
<1>1. IsFiniteSet(V)
  BY PortNumbers
<1>2. \A p \in Port : /\ FramesSince[p] = port_state[p].frames - Boot /\ FramesSince[p] \in Nat
                      /\ Errors[p] = port_state[p].errors /\ Errors[p] \in Nat
  BY PortNumbers
<1>3. \A p \in Port : /\ port_state'[p].frames \in Nat /\ port_state'[p].errors \in Nat
                      /\ port_state[p].frames \in Nat /\ port_state[p].errors \in Nat
  BY DEF PortsTypeOK
<1>4. \A p \in Port : /\ FramesSince'[p] = port_state'[p].frames - Boot
                      /\ Errors'[p] = port_state'[p].errors
  BY DEF FramesSince, Errors, Boot
<1>5. Boot \in {0, 1}
  BY DEF Boot
<1>6. \A p \in Port : /\ FramesSince'[p] \in Nat /\ FramesSince[p] <= FramesSince'[p]
                      /\ Errors'[p] \in Nat /\ Errors[p] <= Errors'[p]
  BY <1>2, <1>3, <1>4, <1>5
<1> QED BY <1>1, <1>2, <1>6, SumMonotone

\* The totals are of no port before the walk.
LEMMA FramesInit ==
    ASSUME opt \in PortsOptions, PluginInit, PortsInit
    PROVE  FramesInv
<1>1. ReadingsOfThePort
  BY DEF PluginInit, PortsInit, ReadingsOfThePort
<1>2. IsAccount({})
  BY FS_EmptySet, SumEmpty DEF IsAccount, PortsInit, PluginInit
<1>3. FramesOfTheRun
  BY DEF PluginInit, FramesOfTheRun, Judged
<1> QED BY <1>1, <1>2, <1>3 DEF FramesInv, Accounts, PortsInit

\* A change of the ports leaves the accounts: frames are added, and a new port does not
\* take the name of one that was there.
LEMMA FramesChange ==
    ASSUME PortsInv, PortsTypeOK', FramesInv, PortsChange
    PROVE  FramesInv'
<1>1. PICK p \in Port : Link(p) \/ Frames(p) \/ Appear(p) \/ Vanish(p)
  BY DEF PortsChange
<1>2. /\ pc \notin {"options", "exited"} /\ pc' = pc /\ opt' = opt /\ exit' = exit
      /\ UNCHANGED <<fabric, dp, reads, rx, n_ports, n_online, rx_tot, err_tot>>
  BY <1>1 DEF Change, main, Link, Frames, Appear, Vanish
<1>3. port_state \in [Port -> [there : BOOLEAN, online : BOOLEAN, frames : Nat, errors : Nat]]
  BY DEF PortsInv, PortsTypeOK
<1>4. \A q \in Port : /\ port_state'[q].frames \in {port_state[q].frames, port_state[q].frames + 2}
                      /\ port_state'[q].errors \in {port_state[q].errors, port_state[q].errors + 1}
                      /\ q \notin fabric.ports /\ port_state[q].there => port_state'[q].there
  <2>1. CASE Link(p)
    BY <1>3, <2>1 DEF Link
  <2>2. CASE Frames(p)
    BY <1>3, <2>2 DEF Frames
  <2>3. CASE Appear(p)
    BY <1>3, <2>3 DEF Appear
  <2>4. CASE Vanish(p)
    BY <1>3, <2>4 DEF Vanish
  <2> QED BY <1>1, <2>1, <2>2, <2>3, <2>4
<1>5. \A q \in Port : q \in todo' \cup maybe' =>
               q \in todo \cup maybe \/ (q \notin fabric.ports /\ ~port_state[q].there)
  BY <1>1 DEF Link, Frames, Appear, Vanish
<1>6. \A q \in Port : /\ port_state[q].frames \in Nat /\ port_state[q].errors \in Nat
                      /\ port_state'[q].frames >= port_state[q].frames
                      /\ port_state'[q].errors >= port_state[q].errors
  BY <1>3, <1>4
<1>7. ReadingsOfThePort'
  <2>1. \A q \in Port : port_state[q].frames >= 1
    BY DEF FramesInv, ReadingsOfThePort
  <2>2. rx[1] \in Nat /\ rx[2] \in Nat
    BY DEF PortsInv, PortsTypeOK
  <2> QED BY <1>2, <1>4, <1>6, <2>1, <2>2 DEF FramesInv, ReadingsOfThePort
<1>8. PICK V \in SUBSET Port : IsAccount(V)
  BY DEF FramesInv, Accounts
<1>9. /\ SumFunctionOnSet(FramesSince, V) <= SumFunctionOnSet(FramesSince', V)
      /\ SumFunctionOnSet(Errors, V) <= SumFunctionOnSet(Errors', V)
  BY <1>2, <1>6, SumsGrow DEF FramesInv, PortsInv
<1>10. IsAccount(V)'
  <2>1. /\ SumFunctionOnSet(FramesSince, V) \in Nat /\ SumFunctionOnSet(Errors, V) \in Nat
    BY PortNumbers DEF FramesInv, PortsInv
  <2>2. PortsTypeOK' /\ ReadingsOfThePort'
    BY <1>7
  <2>3. /\ SumFunctionOnSet(FramesSince', V) \in Nat /\ SumFunctionOnSet(Errors', V) \in Nat
    <3>1. \A q \in Port : FramesSince'[q] \in Nat /\ Errors'[q] \in Nat
      <4>1. \A q \in Port : /\ FramesSince'[q] = port_state'[q].frames - Boot
                            /\ Errors'[q] = port_state'[q].errors
        BY <1>2 DEF FramesSince, Errors, Boot
      <4>2. \A q \in Port : /\ port_state'[q].frames \in Nat /\ port_state'[q].frames >= 1
                            /\ port_state'[q].errors \in Nat
        BY <2>2 DEF PortsTypeOK, ReadingsOfThePort
      <4>3. Boot \in {0, 1}
        BY DEF Boot
      <4> QED BY <4>1, <4>2, <4>3
    <3>2. IsFiniteSet(V)
      BY FS_Subset, PortsAssumption
    <3> QED BY <3>1, <3>2, SumType
  <2>4. rx_tot' \in Nat /\ err_tot' \in Nat
    BY DEF PortsTypeOK
  <2>5. rx_tot <= SumFunctionOnSet(FramesSince, V) /\ err_tot <= SumFunctionOnSet(Errors, V)
    BY <1>8 DEF IsAccount
  <2> DEFINE a == SumFunctionOnSet(FramesSince, V)   b == SumFunctionOnSet(FramesSince', V)
             c == SumFunctionOnSet(Errors, V)        d == SumFunctionOnSet(Errors', V)
  <2> HIDE DEF a, b, c, d
  <2>6. rx_tot' <= SumFunctionOnSet(FramesSince', V) /\ err_tot' <= SumFunctionOnSet(Errors', V)
    <3>1. /\ rx_tot <= a /\ err_tot <= c /\ a <= b /\ c <= d
          /\ a \in Nat /\ b \in Nat /\ c \in Nat /\ d \in Nat
      BY <1>9, <2>1, <2>3, <2>5 DEF a, b, c, d
    <3>2. rx_tot' <= b /\ err_tot' <= d
      BY <1>2, <2>4, <3>1
    <3> QED BY <3>2 DEF b, d
  <2>7. V \cap (todo' \cup maybe') = {}
    BY <1>5, <1>8 DEF IsAccount
  <2>8. \A q \in V : q \in fabric'.ports \/ port_state'[q].there
    BY <1>2, <1>4, <1>8 DEF IsAccount
  <2>9. pc' \in {"rx", "errors"} =>
         /\ dp' \notin V \cup todo' \cup maybe'
         /\ dp' \in fabric'.ports \/ port_state'[dp'].there
    <3>1. pc \in {"rx", "errors"} => dp \in Port
      BY DEF FramesInv, ReadingsOfThePort
    <3> QED BY <1>2, <1>4, <1>5, <1>8, <3>1 DEF IsAccount
  <2>10. /\ n_ports' = Cardinality(V) + (IF pc' \in {"rx", "errors"} THEN 1 ELSE 0)
         /\ opt'.count <= 1 => rx_tot' >= Cardinality(V)
    BY <1>2, <1>8 DEF IsAccount
  <2> QED BY <2>6, <2>7, <2>8, <2>9, <2>10 DEF IsAccount
<1>11. ~Judged'
  BY <1>2 DEF Judged
<1> QED BY <1>2, <1>7, <1>10, <1>11 DEF FramesInv, Accounts, FramesOfTheRun

\* What the accounts say depends on the ports and the totals only.
LEMMA SameAccount ==
    ASSUME NEW V \in SUBSET Port, IsAccount(V), opt' = opt,
           UNCHANGED <<fabric, port_state, todo, maybe, rx_tot, err_tot>>
    PROVE  /\ V \cap (todo' \cup maybe') = {}
           /\ \A p \in V : p \in fabric'.ports \/ port_state'[p].there
           /\ rx_tot' <= SumFunctionOnSet(FramesSince', V)
           /\ err_tot' <= SumFunctionOnSet(Errors', V)
           /\ opt'.count <= 1 => rx_tot' >= Cardinality(V)
<1>1. FramesSince' = FramesSince /\ Errors' = Errors
  BY DEF FramesSince, Errors
<1> QED BY <1>1 DEF IsAccount

\* The totals when the walk begins.
LEMMA FramesOpenHosts ==
    ASSUME PortsInv, FramesInv, OpenHosts PROVE FramesInv'
<1>1. /\ pc = "options" /\ opt' = opt
      /\ UNCHANGED <<fabric, port_state, dp, reads, rx, n_ports, rx_tot, err_tot>>
      /\ \/ pc' = "exited" /\ exit' = STATE_UNKNOWN /\ todo' = todo
         \/ pc' = "ports"
      /\ maybe' = maybe
  BY DEF OpenHosts, GiveUp, Exit, Goto, fcSystem
<1>2. PICK V \in SUBSET Port : IsAccount(V)
  BY DEF FramesInv, Accounts
<1>3. V = {} /\ n_ports = 0
  <2>1. IsFiniteSet(V) /\ Cardinality(V) \in Nat
    BY PortNumbers DEF PortsInv, FramesInv
  <2>2. n_ports = 0 /\ n_ports = Cardinality(V)
    BY <1>1, <1>2, <2>1 DEF FramesInv, IsAccount
  <2> QED BY <2>1, <2>2, FS_EmptySet
<1>4. ~Judged'
  BY <1>1 DEF Judged
<1>5. FramesSince' = FramesSince /\ Errors' = Errors
  BY <1>1 DEF FramesSince, Errors
<1>6. IsAccount({})'
  BY <1>1, <1>2, <1>3, <1>4, <1>5, FS_EmptySet DEF IsAccount
<1>7. ReadingsOfThePort'
  BY <1>1 DEF FramesInv, ReadingsOfThePort
<1> QED BY <1>1, <1>4, <1>6, <1>7 DEF FramesInv, Accounts, FramesOfTheRun

\* The totals when the walk comes to a port.
LEMMA FramesVisitPort ==
    ASSUME PortsInv, FramesInv, NEW p \in Port, VisitPort(p) PROVE FramesInv'
<1>1. /\ pc = "ports" /\ p \in todo \cup maybe
      /\ todo' = todo \ {p} /\ maybe' = maybe \ {p}
      /\ dp' = p /\ reads' = 0 /\ n_ports' = n_ports + 1
      /\ UNCHANGED <<opt, fabric, port_state, changes, steady, ever, rx, rx_tot, err_tot>>
  BY DEF VisitPort, fcSystem, Goto, Crash, Exit
<1>2. \/ port_state[p].there /\ pc' = "rx"
      \/ ~port_state[p].there /\ pc' = "exited" /\ exit' = CRASHED
  BY DEF VisitPort, Goto, Crash, Exit
<1>3. ~Judged'
  BY <1>2 DEF Judged, CRASHED, Statuses, STATE_OK, STATE_WARNING, STATE_CRITICAL, STATE_UNKNOWN
<1>4. ReadingsOfThePort'
  BY <1>1, <1>2 DEF FramesInv, ReadingsOfThePort
<1>5. PICK V \in SUBSET Port : IsAccount(V)
  BY DEF FramesInv, Accounts
<1>6. FramesSince' = FramesSince /\ Errors' = Errors
  BY <1>1 DEF FramesSince, Errors
<1>7. Cardinality(V) \in Nat /\ n_ports = Cardinality(V)
  <2>1. Cardinality(V) \in Nat
    BY PortNumbers DEF PortsInv, FramesInv
  <2> QED BY <1>1, <1>5, <2>1 DEF IsAccount
<1>8. IsAccount(V)'
  <2>1. pc' = "rx" => dp' \notin V \cup todo' \cup maybe' /\ port_state'[dp'].there
    BY <1>1, <1>2, <1>5 DEF IsAccount
  <2>2. /\ V \cap (todo' \cup maybe') = {}
        /\ \A q \in V : q \in fabric'.ports \/ port_state'[q].there
    BY <1>1, <1>5 DEF IsAccount
  <2>3. /\ rx_tot' <= SumFunctionOnSet(FramesSince', V)
        /\ err_tot' <= SumFunctionOnSet(Errors', V)
        /\ opt'.count <= 1 => rx_tot' >= Cardinality(V)
    BY <1>1, <1>5, <1>6 DEF IsAccount
  <2>4. \/ n_ports' = Cardinality(V) + (IF pc' \in {"rx", "errors"} THEN 1 ELSE 0)
        \/ pc' = "exited" /\ ~Judged'
    BY <1>1, <1>2, <1>3, <1>7
  <2> QED BY <1>2, <2>1, <2>2, <2>3, <2>4 DEF IsAccount
<1> QED BY <1>2, <1>3, <1>4, <1>8 DEF FramesInv, Accounts, FramesOfTheRun

\* The totals when frames are read.
LEMMA FramesReadFrames ==
    ASSUME PortsInv, FramesInv, ReadFrames PROVE FramesInv'
<1>1. /\ pc = "rx" /\ opt' = opt
      /\ UNCHANGED <<fabric, port_state, todo, maybe, dp, n_ports, n_online, rx_tot, err_tot>>
  BY DEF ReadFrames, Goto, GiveUp, Exit, fcSystem
<1>2. PICK V \in SUBSET Port : IsAccount(V)
  BY DEF FramesInv, Accounts
<1>3. /\ V \cap (todo' \cup maybe') = {}
      /\ \A p \in V : p \in fabric'.ports \/ port_state'[p].there
      /\ rx_tot' <= SumFunctionOnSet(FramesSince', V)
      /\ err_tot' <= SumFunctionOnSet(Errors', V)
      /\ opt'.count <= 1 => rx_tot' >= Cardinality(V)
  BY <1>1, <1>2, SameAccount
<1>4. CASE port_state[dp].there
  <2>1. /\ rx' = <<rx[2], port_state[dp].frames>> /\ reads' = reads + 1 /\ exit' = exit
        /\ pc' = IF reads + 1 < opt.count THEN "rx" ELSE "errors"
    BY <1>1, <1>4 DEF ReadFrames, Goto
  <2>2. IsAccount(V)'
    BY <1>1, <1>2, <1>3, <2>1 DEF IsAccount
  <2>3. ReadingsOfThePort'
    <3>1. /\ \A p \in Port : port_state[p].frames >= 1 /\ port_state[p].frames \in Nat
          /\ dp \in Port /\ reads \in Nat /\ rx[2] \in Nat /\ opt.count \in Int
          /\ reads >= 1 => rx[2] >= 1 /\ rx[2] <= port_state[dp].frames
          /\ reads = 0 \/ reads < opt.count
      BY <1>1, PortsAssumption DEF FramesInv, ReadingsOfThePort, PortsInv, PortsTypeOK, PortsCommandLine
    <3>2. rx'[1] = rx[2] /\ rx'[2] = port_state[dp].frames
      BY <2>1
    <3> QED BY <1>1, <2>1, <3>1, <3>2 DEF ReadingsOfThePort
  <2>4. ~Judged'
    BY <2>1 DEF Judged
  <2> QED BY <2>1, <2>2, <2>3, <2>4 DEF FramesInv, Accounts, FramesOfTheRun
<1>5. CASE ~port_state[dp].there
  <2>1. pc' = "exited" /\ exit' = STATE_UNKNOWN /\ UNCHANGED <<rx, reads>>
    BY <1>1, <1>5 DEF ReadFrames, GiveUp, Exit
  <2>2. ~Judged'
    BY <2>1 DEF Judged
  <2>3. IsAccount(V)'
    BY <1>1, <1>2, <1>3, <2>1, <2>2 DEF IsAccount
  <2>4. ReadingsOfThePort'
    BY <1>1, <2>1 DEF FramesInv, ReadingsOfThePort
  <2> QED BY <2>1, <2>2, <2>3, <2>4 DEF FramesInv, Accounts, FramesOfTheRun
<1> QED BY <1>4, <1>5

\* The totals when a port is done.
LEMMA FramesReadErrors ==
    ASSUME PortsInv, FramesInv, ReadErrors PROVE FramesInv'
<1>1. /\ pc = "errors" /\ opt' = opt
      /\ UNCHANGED <<fabric, port_state, todo, maybe, dp, reads, rx, n_ports, n_online>>
  BY DEF ReadErrors, Goto, GiveUp, Exit, fcSystem
<1>2. PICK V \in SUBSET Port : IsAccount(V)
  BY DEF FramesInv, Accounts
<1>3. FramesSince' = FramesSince /\ Errors' = Errors
  BY <1>1 DEF FramesSince, Errors
<1>4. ReadingsOfThePort' \/ pc' \notin {"rx", "errors", "ports", "exited"}
  BY <1>1 DEF ReadErrors, Goto, GiveUp, Exit, FramesInv, ReadingsOfThePort
<1>5. dp \in Port /\ dp \notin V
  BY <1>1, <1>2 DEF IsAccount, FramesInv, ReadingsOfThePort
<1>6. /\ Cardinality(V) \in Nat /\ IsFiniteSet(V)
      /\ n_ports = Cardinality(V) + 1
  <2>1. Cardinality(V) \in Nat /\ IsFiniteSet(V)
    BY PortNumbers DEF PortsInv, FramesInv
  <2> QED BY <1>1, <1>2, <2>1 DEF IsAccount
<1>7. CASE port_state[dp].there
  <2>1. /\ rx_tot' = rx_tot + rx_frames /\ err_tot' = err_tot + port_state[dp].errors
        /\ pc' = "ports" /\ exit' = exit
    BY <1>1, <1>7 DEF ReadErrors, Goto
  <2>w. PICK W \in SUBSET Port : W = V \cup {dp}
    BY <1>5
  <2> DEFINE fs == SumFunctionOnSet(FramesSince, V)    es == SumFunctionOnSet(Errors, V)
  <2>2. /\ fs \in Nat /\ es \in Nat
        /\ \A p \in Port : /\ FramesSince[p] = port_state[p].frames - Boot /\ FramesSince[p] \in Nat
                          /\ Errors[p] = port_state[p].errors /\ Errors[p] \in Nat
    BY PortNumbers DEF PortsInv, FramesInv
  <2>3. /\ SumFunctionOnSet(FramesSince, W) = fs + FramesSince[dp]
        /\ SumFunctionOnSet(Errors, W) = es + Errors[dp]
    <3>1. \A p \in V \cup {dp} : FramesSince[p] \in Nat /\ Errors[p] \in Nat
      BY <1>5, <2>2
    <3> QED BY <1>5, <1>6, <2>w, <3>1, SumAdd
  <2>4. Cardinality(W) = Cardinality(V) + 1
    BY <1>5, <1>6, <2>w, FS_AddElement
  <2>5. /\ rx_frames \in Nat /\ rx_frames <= FramesSince[dp]
        /\ opt.count <= 1 => rx_frames >= 1
    <3>1. /\ rx[1] \in Nat /\ rx[2] \in Nat /\ opt.count \in Int /\ reads \in Nat
          /\ reads >= 1 /\ (reads = 1 <=> opt.count <= 1)
          /\ reads > 1 => rx[1] >= 1 /\ rx[1] <= rx[2]
          /\ rx[2] >= 1 /\ rx[2] <= port_state[dp].frames /\ port_state[dp].frames \in Nat
      BY <1>1, <1>5, PortsAssumption DEF FramesInv, ReadingsOfThePort, PortsInv, PortsTypeOK, PortsCommandLine
    <3>2. FramesSince[dp] = port_state[dp].frames - (IF opt.count > 1 THEN 1 ELSE 0)
      BY <1>5, <2>2 DEF Boot
    <3> QED BY <3>1, <3>2 DEF rx_frames
  <2>6. rx_tot \in Nat /\ err_tot \in Nat
    BY DEF PortsInv, PortsTypeOK
  <2>7. /\ rx_tot <= fs /\ err_tot <= es
        /\ opt.count <= 1 => rx_tot >= Cardinality(V)
    BY <1>2 DEF IsAccount
  <2>8. FramesSince[dp] \in Nat /\ Errors[dp] = port_state[dp].errors /\ Errors[dp] \in Nat
    BY <1>5, <2>2
  <2> HIDE DEF fs, es
  <2>9. /\ rx_tot' <= SumFunctionOnSet(FramesSince, W)
        /\ err_tot' <= SumFunctionOnSet(Errors, W)
        /\ opt.count <= 1 => rx_tot' >= Cardinality(W)
    BY <1>6, <2>1, <2>2, <2>3, <2>4, <2>5, <2>6, <2>7, <2>8
  <2>10. n_ports' = Cardinality(W)
    BY <1>1, <1>6, <2>4
  <2>11. /\ W \cap (todo' \cup maybe') = {}
         /\ \A p \in W : p \in fabric'.ports \/ port_state'[p].there
    BY <1>1, <1>2, <2>w DEF IsAccount
  <2>12. IsAccount(W)'
    <3>1. n_ports' = Cardinality(W) + (IF pc' \in {"rx", "errors"} THEN 1 ELSE 0)
      BY <1>6, <2>1, <2>4, <2>10
    <3>2. /\ rx_tot' <= SumFunctionOnSet(FramesSince', W)
          /\ err_tot' <= SumFunctionOnSet(Errors', W)
          /\ opt'.count <= 1 => rx_tot' >= Cardinality(W)
      BY <1>1, <1>3, <2>9
    <3> QED BY <2>1, <2>11, <3>1, <3>2 DEF IsAccount
  <2>13. ~Judged'
    BY <2>1 DEF Judged
  <2> QED BY <1>4, <2>1, <2>4, <2>12, <2>13 DEF FramesInv, Accounts, FramesOfTheRun
<1>8. CASE ~port_state[dp].there
  <2>1. pc' = "exited" /\ exit' = STATE_UNKNOWN /\ UNCHANGED <<rx_tot, err_tot>>
    BY <1>1, <1>8 DEF ReadErrors, GiveUp, Exit
  <2>2. ~Judged'
    BY <2>1 DEF Judged
  <2>3. IsAccount(V)'
    BY <1>1, <1>2, <1>3, <2>1, <2>2 DEF IsAccount
  <2> QED BY <1>4, <2>1, <2>2, <2>3 DEF FramesInv, Accounts, FramesOfTheRun
<1> QED BY <1>7, <1>8

\* What is shown is the sum for the ports that were visited, which are some of those
\* there may be.
LEMMA FramesJudgePorts ==
    ASSUME PortsInv, FramesInv, JudgePorts PROVE FramesInv'
<1>1. /\ pc = "ports" /\ pc' = "exited" /\ opt' = opt
      /\ UNCHANGED <<fabric, port_state, todo, maybe, dp, reads, rx, n_ports, n_online, rx_tot, err_tot>>
  BY DEF JudgePorts, Exit, portsVars, fcSystem, fcWalk
<1>2. PICK V \in SUBSET Port : IsAccount(V)
  BY DEF FramesInv, Accounts
<1>3. FramesSince' = FramesSince /\ Errors' = Errors
  BY <1>1 DEF FramesSince, Errors
<1>4. Cardinality(V) \in Nat /\ n_ports = Cardinality(V)
  <2>1. Cardinality(V) \in Nat
    BY PortNumbers DEF PortsInv, FramesInv
  <2> QED BY <1>1, <1>2, <2>1 DEF IsAccount
<1>5. IsAccount(V)'
  BY <1>1, <1>2, <1>3, <1>4 DEF IsAccount
<1>6. ReadingsOfThePort'
  BY <1>1 DEF FramesInv, ReadingsOfThePort
<1>7. /\ SumFunctionOnSet(FramesSince, V) <= SumFunctionOnSet(FramesSince, Port)
      /\ SumFunctionOnSet(Errors, V) <= SumFunctionOnSet(Errors, Port)
      /\ SumFunctionOnSet(FramesSince, V) \in Nat /\ SumFunctionOnSet(FramesSince, Port) \in Nat
      /\ SumFunctionOnSet(Errors, V) \in Nat /\ SumFunctionOnSet(Errors, Port) \in Nat
  <2>1. Port \in SUBSET Port /\ IsFiniteSet(Port)
    BY PortsAssumption
  <2>2. \A p \in Port : FramesSince[p] \in Nat /\ Errors[p] \in Nat
    BY <2>1, PortNumbers DEF PortsInv, FramesInv
  <2>3. /\ SumFunctionOnSet(FramesSince, V) <= SumFunctionOnSet(FramesSince, Port)
        /\ SumFunctionOnSet(Errors, V) <= SumFunctionOnSet(Errors, Port)
    BY <2>1, <2>2, SumSubset
  <2> QED BY <2>1, <2>3, PortNumbers DEF PortsInv, FramesInv
<1>8. FramesOfTheRun'
  <2> DEFINE a == SumFunctionOnSet(FramesSince, V)   b == SumFunctionOnSet(FramesSince, Port)
             c == SumFunctionOnSet(Errors, V)        d == SumFunctionOnSet(Errors, Port)
  <2>1. rx_tot <= a /\ err_tot <= c /\ (opt.count <= 1 => rx_tot >= n_ports)
    BY <1>2, <1>4 DEF IsAccount
  <2>2. rx_tot \in Nat /\ err_tot \in Nat
    BY DEF PortsInv, PortsTypeOK
  <2>3. a <= b /\ c <= d /\ a \in Nat /\ b \in Nat /\ c \in Nat /\ d \in Nat
    BY <1>7
  <2> HIDE DEF a, b, c, d
  <2>4. rx_tot <= b /\ err_tot <= d
    BY <2>1, <2>2, <2>3
  <2> QED BY <1>1, <1>3, <2>1, <2>4 DEF FramesOfTheRun, b, d
<1> QED BY <1>1, <1>5, <1>6, <1>8 DEF FramesInv, Accounts

\* The totals stay those of a set of ports.
LEMMA FramesInductive == PortsInv /\ PortsInv' /\ FramesInv /\ [PortsNext]_vars => FramesInv'
<1> SUFFICES ASSUME PortsInv, PortsInv', FramesInv, [PortsNext]_vars PROVE FramesInv'
  OBVIOUS
<1>1. PortsTypeOK'
  BY DEF PortsInv
<1>2. CASE UNCHANGED vars
  <2>1. UNCHANGED <<pc, opt, exit, fabric, port_state, changes, steady, ever, todo, maybe, dp,
                    reads, rx, n_ports, n_online, rx_tot, err_tot>>
    BY <1>2 DEF vars, main, portsVars, fcSystem, fcWalk
  <2>2. FramesSince' = FramesSince /\ Errors' = Errors
    BY <2>1 DEF FramesSince, Errors
  <2>3. PICK V \in SUBSET Port : IsAccount(V)
    BY DEF FramesInv, Accounts
  <2>4. Judged' = Judged
    BY <2>1 DEF Judged
  <2>5. IsAccount(V)'
    BY <2>1, <2>2, <2>3, <2>4 DEF IsAccount
  <2>6. ReadingsOfThePort'
    BY <2>1 DEF FramesInv, ReadingsOfThePort
  <2>7. FramesOfTheRun'
    BY <2>1, <2>2, <2>4 DEF FramesInv, FramesOfTheRun, Runs
  <2> QED BY <2>1, <2>5, <2>6, <2>7 DEF FramesInv, Accounts
<1>3. CASE \E p \in Port : VisitPort(p)
  BY <1>3, FramesVisitPort
<1> QED BY <1>1, <1>2, <1>3, FramesChange, FramesOpenHosts, FramesReadFrames, FramesReadErrors,
           FramesJudgePorts
        DEF PortsNext, PortsPlugin

\* The frames and errors that check_fc shows are some of those that arrived during the
\* run, for any number of ports, readings and changes: none are counted twice.
THEOREM FramesAreOfTheRun == PortsSpec => []FramesOfTheRun
<1>1. FramesInv => FramesOfTheRun
  BY DEF FramesInv
<1>2. opt \in PortsOptions /\ PluginInit /\ PortsInit => FramesInv
  BY FramesInit
<1> QED BY <1>1, <1>2, Invariant, FramesInductive, PTL DEF PortsSpec, vars

-----------------------------------------------------------------------------
(***************************************************************************)
(* The sensors: the reading check_load, check_clock, check_cpufreq and     *)
(* check_temperature judge is the one they are about, for any number of    *)
(* CPUs and of zones.                                                      *)
(***************************************************************************)

\* The host does not change, except for the frequencies, of which a CPU has had the
\* present one.
Host ==
    /\ opt \in SensorsCommandLine /\ opt.program \in SensorsPrograms /\ sensors \in SensorHosts
    /\ freq \in Seq(Nat) /\ DOMAIN freqs = DOMAIN freq
    /\ \A c \in DOMAIN freq : freqs[c] \subseteq Nat /\ freq[c] \in freqs[c]
    /\ unseen \subseteq {z \in Zone : sensors.zones[z].there}

\* Where each of the plugins is.
Place ==
    /\ pc \in {"options", "value", "frequencies", "zones", "exited"}
    /\ pc = "value" => Runs({"load", "uptime", "clock"})
    /\ pc = "frequencies" => Runs({"cpufreq"})
    /\ pc = "zones" => Runs({"temperature"})
    /\ pc \notin {"options", "exited"} \/ Judged => ~SensorsBadOptions

\* The zones looked at so far.
Met == Asked \ unseen

\* Those of them that could be read.
ReadSoFar == Met \cap Readable

\* The highest of the temperatures read so far, and the zone that has it.
HottestSoFar ==
    /\ temp \in Nat /\ max_temp \in Nat /\ temp <= max_temp
    /\ pc = "options" => zone = NULL /\ max_temp = 0 /\ Met = {}
    /\ zone # NULL => zone \in Asked
    /\ \A z \in ReadSoFar : sensors.zones[z].temp <= max_temp
    /\ max_temp = 0 \/ (zone \in Readable /\ sensors.zones[zone].temp = max_temp)

\* No zone that can be read is below zero.
AboveZero == \A z \in Readable : sensors.zones[z].temp >= 0

\* What is known of the zones, as long as none is below zero, and what is judged.
Zones ==
    /\ AboveZero => HottestSoFar
    /\ Judged /\ Runs({"temperature"}) =>
          zone # NULL /\ unseen = {} /\ exit = TemperatureStatus(unsigned(int(max_temp)))

\* The statuses of the frequencies a CPU has had, if it had any.
FreqStatuses(c) == {get_status(f, opt.my_threshold) : f \in freqs[c] \ {0}}

\* The worst of the CPUs looked at so far.
WorstSoFar ==
    /\ cpu \in Nat \ {0} /\ worst \in {STATE_OK, STATE_WARNING, STATE_CRITICAL}
    /\ \A c \in DOMAIN freq : c < cpu /\ 0 \notin freqs[c] => \E s \in FreqStatuses(c) : s <= worst
    /\ worst = STATE_OK \/ \E c \in DOMAIN freq : worst \in FreqStatuses(c)
    /\ Judged /\ Runs({"cpufreq"}) => cpu > Len(freq) /\ exit = worst

\* The inductive invariant of the sensors.
SensorsInv == Host /\ Place /\ Zones /\ WorstSoFar /\ ValuesJudged

-----------------------------------------------------------------------------
(* Integers *)

\* Half of an int is a number, and an int fits in a word.
LEMMA HalfInt ==
    /\ IntWord \in Nat \ {0} /\ IntWord \div 2 \in Nat /\ IntWord = 2 * (IntWord \div 2)
    /\ Word \in Nat \ {0} /\ IntWord <= Word
<1>1. /\ IntWord \in Nat \ {0} /\ IntWord \div 2 \in Nat /\ IntWord = 2 * (IntWord \div 2)
      /\ Word \in Nat \ {0}
  <2>1. IntWord \in Nat \ {0} /\ IntWord % 2 = 0 /\ Word \in Nat \ {0}
    BY SensorsAssumption, PluginAssumption
  <2>2. IntWord \div 2 \in Nat /\ IntWord = 2 * (IntWord \div 2)
    <3>1. \A w \in Nat : w % 2 = 0 => w \div 2 \in Nat /\ w = 2 * (w \div 2)
      OBVIOUS
    <3> QED BY <2>1, <3>1
  <2> QED BY <2>1, <2>2
<1>2. IntWord <= Word
  <2> DEFINE q == Word \div IntWord
  <2>1. Word = q * IntWord + (Word % IntWord) /\ q \in Int
    BY <1>1, DivMod
  <2>2. Word = q * IntWord
    BY <2>1, <1>1, SensorsAssumption
  <2> HIDE DEF q
  <2>3. q >= 1
    <3>1. CASE q <= 0
      <4>1. q * IntWord <= 0
        BY <3>1, <2>1, <1>1
      <4> QED BY <4>1, <2>2, <1>1
    <3> QED BY <3>1, <2>1
  <2> QED BY <2>1, <2>2, <2>3, <1>1
<1> QED BY <1>1, <1>2

\* A number that is less than half the range of an int, in either direction, survives
\* the cast.
LEMMA IntFits ==
    ASSUME NEW x \in Int, -(IntWord \div 2) < x, x < IntWord \div 2
    PROVE  int(x) = x /\ (x >= 0 => unsigned(x) = x)
<1> DEFINE h == IntWord \div 2
<1>1. h \in Nat /\ IntWord = 2 * h /\ IntWord \in Nat \ {0} /\ Word \in Nat \ {0} /\ IntWord <= Word
  BY HalfInt
<1>2. CASE x >= 0
  <2>1. (0 * IntWord + x) % IntWord = x
    BY <1>1, <1>2, UniqueMod
  <2>2. (0 * Word + x) % Word = x
    BY <1>1, <1>2, UniqueMod
  <2>3. x % IntWord = x /\ x % Word = x
    BY <2>1, <2>2, <1>1
  <2> QED BY <1>1, <2>3 DEF int, unsigned
<1>3. CASE x < 0
  <2>1. ((-1) * IntWord + (x + IntWord)) % IntWord = x + IntWord
    <3>1. x + IntWord \in 0 .. IntWord - 1 /\ -1 \in Int
      BY <1>1, <1>3
    <3> QED BY <1>1, <3>1, UniqueMod
  <2>2. (-1) * IntWord + (x + IntWord) = x
    BY <1>1
  <2>3. x % IntWord = x + IntWord
    BY <2>1, <2>2
  <2>4. ~(x + IntWord < h)
    BY <1>1
  <2> HIDE DEF h
  <2>5. int(x) = (x + IntWord) - IntWord
    BY <2>3, <2>4, Zenon DEF int, h
  <2> QED BY <2>5, <1>1, <1>3
<1> QED BY <1>2, <1>3

\* A status is one of three.
LEMMA StatusIs ==
    \A x, t : get_status(x, t) \in {STATE_OK, STATE_WARNING, STATE_CRITICAL}
BY DEF get_status

-----------------------------------------------------------------------------
(* The load averages *)

\* The averages in order: the recursion over three of them.
LEMMA LoadStatus ==
    LET exceeds(k, bound) == sensors.loadavg[k] > bound * NumCpus
        After(k, s) == IF opt.loads[k] = NULL THEN s
                       ELSE IF exceeds(k, opt.loads[k].c) THEN STATE_CRITICAL
                       ELSE IF exceeds(k, opt.loads[k].w) THEN Worse(STATE_WARNING, s)
                       ELSE s
    IN loadavg_status = After(1, After(2, After(3, STATE_OK)))
<1> DEFINE exceeds(k, bound) == sensors.loadavg[k] > bound * NumCpus
           After(k, s) == IF opt.loads[k] = NULL THEN s
                          ELSE IF exceeds(k, opt.loads[k].c) THEN STATE_CRITICAL
                          ELSE IF exceeds(k, opt.loads[k].w) THEN Worse(STATE_WARNING, s)
                          ELSE s
           Is(f) == f = [k \in 1 .. 4 |-> IF k = 4 THEN STATE_OK ELSE After(k, f[k + 1])]
           from == CHOOSE f : Is(f)
<1>1. loadavg_status = from[1]
  BY DEF loadavg_status
<1> HIDE DEF After
<1>2. \E f : Is(f)
  <2> DEFINE s3 == After(3, STATE_OK)
             s2 == After(2, s3)
             s1 == After(1, s2)
             f == [k \in 1 .. 4 |-> IF k = 4 THEN STATE_OK
                                    ELSE IF k = 3 THEN s3 ELSE IF k = 2 THEN s2 ELSE s1]
  <2> HIDE DEF s1, s2, s3
  <2>1. f[4] = STATE_OK /\ f[3] = s3 /\ f[2] = s2 /\ f[1] = s1
    OBVIOUS
  <2>2. ASSUME NEW k \in 1 .. 4 PROVE f[k] = IF k = 4 THEN STATE_OK ELSE After(k, f[k + 1])
    <3>1. k = 1 \/ k = 2 \/ k = 3 \/ k = 4
      OBVIOUS
    <3> HIDE DEF f
    <3>2. CASE k = 1
      BY <2>1, <3>2 DEF s1
    <3>3. CASE k = 2
      BY <2>1, <3>3 DEF s2
    <3>4. CASE k = 3
      BY <2>1, <3>4 DEF s3
    <3>5. CASE k = 4
      BY <2>1, <3>5
    <3> QED BY <3>1, <3>2, <3>3, <3>4, <3>5
  <2>3. f = [k \in 1 .. 4 |-> IF k = 4 THEN STATE_OK ELSE After(k, f[k + 1])]
    <3>1. f = [k \in 1 .. 4 |-> f[k]]
      OBVIOUS
    <3> HIDE DEF f
    <3> QED BY <2>2, <3>1, Zenon
  <2> QED BY <2>3
<1>3. Is(from)
  BY <1>2, Zenon
<1> HIDE DEF from
<1>4. from[4] = STATE_OK /\ from[3] = After(3, from[4]) /\ from[2] = After(2, from[3])
      /\ from[1] = After(1, from[2])
  BY <1>3
<1>5. loadavg_status = After(1, After(2, After(3, STATE_OK)))
  BY <1>1, <1>4
<1> QED BY <1>5 DEF After

\* The averages are within the limits they are judged by.
LEMMA LoadJudged ==
    ASSUME Host
    PROVE  LET over(bound) == \E k \in 1 .. 3 :
                 /\ opt.loads[k] # NULL
                 /\ sensors.loadavg[k] > opt.loads[k][bound]
                                          * (IF opt.normalize THEN sensors.cpus ELSE 1)
           IN loadavg_status = IF over("c") THEN STATE_CRITICAL
                               ELSE IF over("w") THEN STATE_WARNING ELSE STATE_OK
<1> DEFINE given(k) == opt.loads[k] # NULL
           crit(k) == given(k) /\ sensors.loadavg[k] > opt.loads[k].c * NumCpus
           warn(k) == given(k) /\ sensors.loadavg[k] > opt.loads[k].w * NumCpus
           Then(k, s) == IF crit(k) THEN STATE_CRITICAL
                         ELSE IF warn(k) THEN Worse(STATE_WARNING, s) ELSE s
<1>1. loadavg_status = Then(1, Then(2, Then(3, STATE_OK)))
  BY LoadStatus, Zenon
<1> HIDE DEF crit, warn
<1>2. loadavg_status = IF crit(1) \/ crit(2) \/ crit(3) THEN STATE_CRITICAL
                       ELSE IF warn(1) \/ warn(2) \/ warn(3) THEN STATE_WARNING ELSE STATE_OK
  BY <1>1 DEF Worse, STATE_OK, STATE_WARNING, STATE_CRITICAL
<1>3. /\ \A S : (\E k \in 1 .. 3 : crit(k)) <=> crit(1) \/ crit(2) \/ crit(3)
      /\ \A S : (\E k \in 1 .. 3 : warn(k)) <=> warn(1) \/ warn(2) \/ warn(3)
  <2>1. 1 .. 3 = {1, 2, 3}
    OBVIOUS
  <2> QED BY <2>1
<1>4. loadavg_status = IF \E k \in 1 .. 3 : crit(k) THEN STATE_CRITICAL
                       ELSE IF \E k \in 1 .. 3 : warn(k) THEN STATE_WARNING ELSE STATE_OK
  BY <1>2, <1>3
<1> QED BY <1>4 DEF crit, warn, NumCpus

-----------------------------------------------------------------------------
(* The zones *)

\* When all the zones have been met, the highest so far is the highest.
LEMMA AllMet ==
    ASSUME Host, AboveZero, HottestSoFar, unseen = {}
    PROVE  max_temp = Hottest
<1> DEFINE S == {sensors.zones[z].temp : z \in Readable} \cup {0}
<1>1. Met = Asked /\ ReadSoFar = Readable
  BY DEF Met, ReadSoFar, Readable, Asked
<1>2. max_temp \in Nat /\ max_temp \in S /\ \A x \in S : x <= max_temp
  BY <1>1 DEF HottestSoFar
<1>3. S \subseteq Nat
  <2>1. \A z \in Readable : sensors.zones[z].temp \in Int /\ sensors.zones[z].temp >= 0
    <3>1. sensors \in SensorHost
      BY SensorsAssumption DEF Host
    <3>2. \A z \in Zone : sensors.zones[z].temp \in Int \cup {NULL}
      BY <3>1 DEF SensorHost, ZoneKind
    <3> QED BY <3>2 DEF Readable, Asked, AboveZero
  <2> QED BY <2>1
<1> HIDE DEF S
<1>4. ASSUME NEW m \in S, \A x \in S : m >= x PROVE m = max_temp
  BY <1>2, <1>3, <1>4
<1>5. max_temp = CHOOSE x \in S : \A y \in S : x >= y
  <2>1. max_temp \in S /\ \A y \in S : max_temp >= y
    BY <1>2, <1>3
  <2> QED BY <2>1, <1>4
<1> QED BY <1>5 DEF Hottest, Max, S

\* A temperature above zero survives the casts.
LEMMA TemperatureFits ==
    ASSUME Host, AboveZero, HottestSoFar
    PROVE  unsigned(int(max_temp)) = max_temp
<1>1. max_temp \in Nat /\ max_temp < IntWord \div 2
  <2>1. CASE max_temp = 0
    <3>1. IntWord \div 2 > 0
      BY HalfInt
    <3> QED BY <2>1, <3>1
  <2>2. CASE max_temp # 0
    BY <2>2, SensorsAssumption DEF HottestSoFar, Host, Readable, Asked
  <2> QED BY <2>1, <2>2
<1>2. int(max_temp) = max_temp /\ unsigned(max_temp) = max_temp
  BY <1>1, HalfInt, IntFits
<1> QED BY <1>2

-----------------------------------------------------------------------------
(* The steps *)

\* The invariant holds at first.
LEMMA SensorsInitInv ==
    opt \in SensorsOptions /\ PluginInit /\ SensorsInit => SensorsInv
<1> SUFFICES ASSUME opt \in SensorsOptions, PluginInit, SensorsInit PROVE SensorsInv
  OBVIOUS
<1>1. /\ opt \in SensorsCommandLine /\ opt.program \in SensorsPrograms
      /\ pc = "options" /\ exit = RUNNING
  BY SensorsAssumption DEF SensorsCommandLine, PluginInit
<1>2. sensors \in SensorHosts /\ sensors \in SensorHost
  BY <1>1, SensorsAssumption DEF SensorsInit, Either, Runs
<1>3. /\ freq = sensors.freq /\ freqs = [c \in DOMAIN freq |-> {freq[c]}]
      /\ cpu = 1 /\ worst = STATE_OK /\ temp = 0 /\ max_temp = 0 /\ zone = NULL
      /\ unseen = {z \in Zone : sensors.zones[z].there}
  BY DEF SensorsInit
<1>4. Host
  <2>1. freq \in Seq(Nat)
    BY <1>2, <1>3 DEF SensorHost
  <2>2. \A c \in DOMAIN freq : freq[c] \in Nat
    BY <2>1
  <2> QED BY <1>1, <1>2, <1>3, <2>1, <2>2 DEF Host
<1>5. ~Judged
  BY <1>1 DEF Judged
<1>6. Place /\ ValuesJudged
  BY <1>1, <1>5 DEF Place, ValuesJudged
<1>7. Zones
  <2>1. Met = {}
    BY <1>3 DEF Met, Asked
  <2> QED BY <1>3, <1>5, <2>1 DEF Zones, HottestSoFar, ReadSoFar
<1>8. WorstSoFar
  <2>1. \A c \in DOMAIN freq : ~(c < cpu)
    <3>1. DOMAIN freq = 1 .. Len(freq) /\ Len(freq) \in Nat
      BY <1>4 DEF Host
    <3> QED BY <1>3, <3>1
  <2> QED BY <1>3, <1>5, <2>1 DEF WorstSoFar
<1> QED BY <1>4, <1>6, <1>7, <1>8 DEF SensorsInv

\* What the plugin judges does not change but for the step that judges.
LEMMA SensorsStays ==
    ASSUME SensorsInv, UNCHANGED <<opt, sensors, freq, freqs, cpu, worst, temp, max_temp, zone,
                                   unseen>>,
           ~Judged', Place', pc' = "options" => pc = "options"
    PROVE  SensorsInv'
<1>1. Host'
  BY DEF SensorsInv, Host
<1>2. Met' = Met /\ ReadSoFar' = ReadSoFar /\ Readable' = Readable /\ Asked' = Asked
  BY DEF Met, ReadSoFar, Readable, Asked
<1>3. Zones'
  <2>1. AboveZero' <=> AboveZero
    BY <1>2 DEF AboveZero
  <2> QED BY <1>2, <2>1 DEF SensorsInv, Zones, HottestSoFar
<1>4. \A c : FreqStatuses(c)' = FreqStatuses(c)
  BY DEF FreqStatuses
<1>5. WorstSoFar' /\ ValuesJudged'
  BY <1>4 DEF SensorsInv, WorstSoFar, ValuesJudged
<1> QED BY <1>1, <1>3, <1>5 DEF SensorsInv

\* The status of a temperature depends on the command line alone.
LEMMA SameTemperatureStatus ==
    ASSUME opt' = opt
    PROVE  \A x : TemperatureStatus(x)' = TemperatureStatus(x)
BY DEF TemperatureStatus, real_temp

\* Nothing happens.
LEMMA SensorsStutter ==
    ASSUME SensorsInv, UNCHANGED <<main, sensorsVars>>
    PROVE  SensorsInv'
<1>1. UNCHANGED <<pc, opt, exit, sensors, freq, freqs, cpu, worst, temp, max_temp, zone, unseen>>
  BY DEF main, sensorsVars, sensorsHost
<1>2. (Judged' <=> Judged) /\ \A S : Runs(S)' <=> Runs(S)
  BY <1>1 DEF Judged, Runs
<1>3. Place'
  BY <1>1, <1>2 DEF SensorsInv, Place, SensorsBadOptions
<1>4. CASE ~Judged'
  BY <1>1, <1>3, <1>4, SensorsStays
<1>5. CASE Judged'
  <2>1. Host'
    BY <1>1 DEF SensorsInv, Host
  <2>2. Zones'
    <3>1. Met' = Met /\ ReadSoFar' = ReadSoFar /\ Readable' = Readable /\ Asked' = Asked
      BY <1>1 DEF Met, ReadSoFar, Readable, Asked
    <3>2. (AboveZero' <=> AboveZero) /\ (HottestSoFar' <=> HottestSoFar)
      BY <1>1, <3>1 DEF AboveZero, HottestSoFar
    <3>3. \A x : TemperatureStatus(x)' = TemperatureStatus(x)
      BY <1>1, SameTemperatureStatus
    <3>4. unsigned(int(max_temp))' = unsigned(int(max_temp))
      BY <1>1
    <3> QED BY <1>1, <1>2, <3>2, <3>3, <3>4 DEF SensorsInv, Zones
  <2>3. WorstSoFar'
    <3>1. \A c : FreqStatuses(c)' = FreqStatuses(c)
      BY <1>1 DEF FreqStatuses
    <3> QED BY <1>1, <1>2, <3>1 DEF SensorsInv, WorstSoFar
  <2>4. ValuesJudged'
    BY <1>1, <1>2 DEF SensorsInv, ValuesJudged
  <2> QED BY <1>3, <2>1, <2>2, <2>3, <2>4 DEF SensorsInv
<1> QED BY <1>4, <1>5

\* The options are parsed, or found wanting.
LEMMA SensorsParse ==
    ASSUME SensorsInv, SensorsParseOptions
    PROVE  SensorsInv'
<1>1. /\ UNCHANGED <<opt, sensors, freq, freqs, cpu, worst, temp, max_temp, zone, unseen>>
      /\ pc = "options"
  BY DEF SensorsParseOptions, GiveUp, Exit, Goto, sensorsVars, sensorsHost
<1>2. CASE GiveUp
  <2>1. pc' = "exited" /\ ~Judged'
    BY <1>2 DEF GiveUp, Exit, Judged
  <2>2. Place'
    BY <2>1 DEF Place
  <2> QED BY <1>1, <2>1, <2>2, SensorsStays
<1>3. CASE ~GiveUp
  <2>1. /\ ~SensorsBadOptions
        /\ pc' = CASE Runs({"cpufreq"}) -> "frequencies"
                   [] Runs({"temperature"}) -> "zones" [] OTHER -> "value"
    BY <1>3 DEF SensorsParseOptions, Goto
  <2>2. opt.program \in SensorsPrograms
    BY DEF SensorsInv, Host
  <2>3. Place'
    BY <1>1, <2>1, <2>2 DEF Place, SensorsPrograms, Runs, SensorsBadOptions
  <2>4. ~Judged' /\ pc' # "options"
    BY <2>1 DEF Judged
  <2> QED BY <1>1, <2>3, <2>4, SensorsStays
<1> QED BY <1>2, <1>3

\* The programs differ.
LEMMA OneProgram ==
    /\ Runs({"temperature"}) => ~Runs({"load"}) /\ ~Runs({"clock"}) /\ ~Runs({"cpufreq"})
    /\ Runs({"cpufreq"}) => ~Runs({"load"}) /\ ~Runs({"clock"})
    /\ Runs({"load"}) => ~Runs({"clock"})
    /\ Runs({"load", "uptime", "clock"}) => ~Runs({"temperature"}) /\ ~Runs({"cpufreq"})
BY DEF Runs

\* A load, an uptime or a clock is judged.
LEMMA SensorsValue ==
    ASSUME SensorsInv, JudgeValue
    PROVE  SensorsInv'
<1>1. /\ UNCHANGED <<opt, sensors, freq, freqs, cpu, worst, temp, max_temp, zone, unseen>>
      /\ pc = "value" /\ pc' = "exited"
  BY DEF JudgeValue, GiveUp, Exit, sensorsVars, sensorsHost
<1>2. /\ \A S : Runs(S)' <=> Runs(S)
      /\ SensorsBadOptions' <=> SensorsBadOptions
  BY <1>1 DEF Runs, SensorsBadOptions
<1>3. Place'
  BY <1>1, <1>2 DEF SensorsInv, Place
<1>4. CASE ~sensors.calls
  <2>1. ~Judged'
    BY <1>4 DEF JudgeValue, GiveUp, Exit, Judged
  <2> QED BY <1>1, <1>3, <2>1, SensorsStays
<1>5. CASE sensors.calls
  <2>1. Runs({"load", "uptime", "clock"}) /\ ~SensorsBadOptions
    BY <1>1 DEF SensorsInv, Place
  <2>2. /\ Runs({"load"}) => exit' = loadavg_status
        /\ Runs({"clock"}) => exit' = get_status(labs(timedelta), opt.my_threshold)
    <3>1. exit' = CASE Runs({"load"}) -> loadavg_status
                    [] Runs({"uptime"}) -> get_status(sensors.uptime \div 60, opt.my_threshold)
                    [] Runs({"clock"}) -> get_status(labs(timedelta), opt.my_threshold)
      BY <1>5 DEF JudgeValue, Exit
    <3>2. CASE opt.program = "load"
      BY <3>1, <3>2, Zenon DEF Runs
    <3>3. CASE opt.program = "clock"
      BY <3>1, <3>3, Zenon DEF Runs
    <3>4. CASE opt.program \notin {"load", "clock"}
      BY <3>4 DEF Runs
    <3> QED BY <3>2, <3>3, <3>4
  <2>3. Host' /\ Zones' /\ WorstSoFar'
    <3>1. ~Runs({"temperature"})' /\ ~Runs({"cpufreq"})'
      BY <1>2, <2>1, OneProgram
    <3>2. Host'
      BY <1>1 DEF SensorsInv, Host
    <3>3. Met' = Met /\ ReadSoFar' = ReadSoFar /\ Readable' = Readable /\ Asked' = Asked
      BY <1>1 DEF Met, ReadSoFar, Readable, Asked
    <3>4. Zones'
      BY <1>1, <3>1, <3>3 DEF SensorsInv, Zones, AboveZero, HottestSoFar
    <3>5. \A c : FreqStatuses(c)' = FreqStatuses(c)
      BY <1>1 DEF FreqStatuses
    <3>6. WorstSoFar'
      BY <1>1, <3>1, <3>5 DEF SensorsInv, WorstSoFar
    <3> QED BY <3>2, <3>4, <3>6
  <2>4. ValuesJudged'
    <3>1. ASSUME Runs({"load"})
          PROVE  LET over(bound) == \E k \in 1 .. 3 :
                       /\ opt.loads[k] # NULL
                       /\ sensors.loadavg[k] > opt.loads[k][bound]
                                                * (IF opt.normalize THEN sensors.cpus ELSE 1)
                 IN exit' = IF over("c") THEN STATE_CRITICAL
                            ELSE IF over("w") THEN STATE_WARNING ELSE STATE_OK
      BY <2>2, <3>1, LoadJudged, Zenon DEF SensorsInv
    <3>2. ASSUME Runs({"clock"})
          PROVE  LET off == IF sensors.clock < opt.refclock THEN opt.refclock - sensors.clock
                            ELSE sensors.clock - opt.refclock
                 IN off < IntWord \div 2 => exit' = get_status(off, opt.my_threshold)
      <4> DEFINE off == IF sensors.clock < opt.refclock THEN opt.refclock - sensors.clock
                        ELSE sensors.clock - opt.refclock
                 x == sensors.clock - opt.refclock
      <4> SUFFICES ASSUME off < IntWord \div 2 PROVE exit' = get_status(off, opt.my_threshold)
        OBVIOUS
      <4>1. sensors.clock \in Nat /\ opt.refclock \in Nat
        <5>1. sensors \in SensorHost /\ opt \in SensorsCommandLine
          BY SensorsAssumption DEF SensorsInv, Host
        <5>2. opt.refclock # NULL
          BY <2>1, <3>2 DEF SensorsBadOptions
        <5> QED BY <5>1, <5>2 DEF SensorHost, SensorsCommandLine
      <4>2. x \in Int /\ -(IntWord \div 2) < x /\ x < IntWord \div 2 /\ labs(x) = off
        BY <4>1, HalfInt DEF labs
      <4>3. timedelta = x
        BY <4>2, IntFits DEF timedelta
      <4> QED BY <2>2, <3>2, <4>2, <4>3
    <3> QED BY <1>1, <1>2, <3>1, <3>2 DEF ValuesJudged
  <2> QED BY <1>3, <2>3, <2>4 DEF SensorsInv
<1> QED BY <1>4, <1>5

\* A CPU changes its frequency: what it was judged by it has had.
LEMMA SensorsFrequency ==
    ASSUME SensorsInv, FrequencyChanges
    PROVE  SensorsInv'
<1>1. /\ UNCHANGED <<pc, opt, exit, sensors, cpu, worst, temp, max_temp, zone, unseen>>
      /\ pc = "frequencies" /\ ~Judged'
  BY DEF FrequencyChanges, main, Judged
<1>2. PICK c \in DOMAIN freq, f \in Frequencies :
        freq' = [freq EXCEPT ![c] = f] /\ freqs' = [freqs EXCEPT ![c] = @ \cup {f}]
  BY DEF FrequencyChanges
<1>3. f \in Nat /\ freq \in Seq(Nat) /\ DOMAIN freqs = DOMAIN freq
  BY SensorsAssumption DEF SensorsInv, Host
<1>4. /\ freq' \in Seq(Nat) /\ DOMAIN freq' = DOMAIN freq /\ DOMAIN freqs' = DOMAIN freqs
      /\ Len(freq') = Len(freq)
      /\ \A k \in DOMAIN freq : freqs[k] \subseteq freqs'[k]
  BY <1>2, <1>3
<1>5. \A k \in DOMAIN freq : freqs'[k] \subseteq Nat /\ freq'[k] \in freqs'[k]
  BY <1>2, <1>3 DEF SensorsInv, Host
<1>6. Host'
  BY <1>1, <1>3, <1>4, <1>5 DEF SensorsInv, Host
<1>7. Place'
  BY <1>1 DEF SensorsInv, Place, Runs, SensorsBadOptions
<1>8. Zones'
  <2>1. Met' = Met /\ ReadSoFar' = ReadSoFar /\ Readable' = Readable /\ Asked' = Asked
    BY <1>1 DEF Met, ReadSoFar, Readable, Asked
  <2> QED BY <1>1, <2>1 DEF SensorsInv, Zones, AboveZero, HottestSoFar
<1>9. WorstSoFar'
  <2>1. \A k \in DOMAIN freq : FreqStatuses(k) \subseteq FreqStatuses(k)'
    BY <1>1, <1>4 DEF FreqStatuses
  <2>2. \A k \in DOMAIN freq : 0 \notin freqs'[k] => 0 \notin freqs[k]
    BY <1>4
  <2> QED BY <1>1, <1>4, <2>1, <2>2 DEF SensorsInv, WorstSoFar
<1>10. ValuesJudged'
  BY <1>1 DEF ValuesJudged
<1> QED BY <1>6, <1>7, <1>8, <1>9, <1>10 DEF SensorsInv

\* A CPU is judged, or the worst of them.
LEMMA SensorsJudgeFrequency ==
    ASSUME SensorsInv, JudgeFrequency
    PROVE  SensorsInv'
<1> USE DEF STATE_OK, STATE_WARNING, STATE_CRITICAL
<1>1. /\ UNCHANGED <<opt, sensors, freq, freqs, temp, max_temp, zone, unseen>>
      /\ pc = "frequencies" /\ Runs({"cpufreq"}) /\ ~SensorsBadOptions
  BY DEF JudgeFrequency, main, sensorsHost, Exit, SensorsInv, Place
<1>2. Host' /\ (\A S : Runs(S)' <=> Runs(S)) /\ (SensorsBadOptions' <=> SensorsBadOptions)
  BY <1>1 DEF SensorsInv, Host, Runs, SensorsBadOptions
<1>3. ~Runs({"temperature"})' /\ ~Runs({"load"})' /\ ~Runs({"clock"})'
  BY <1>1, <1>2, OneProgram
<1>4. pc' \in {"frequencies", "exited"}
  BY <1>1 DEF JudgeFrequency, main, Exit
<1>5. Place' /\ ValuesJudged'
  BY <1>1, <1>2, <1>3, <1>4 DEF Place, ValuesJudged
<1>6. Zones'
  <2>1. Met' = Met /\ ReadSoFar' = ReadSoFar /\ Readable' = Readable /\ Asked' = Asked
    BY <1>1 DEF Met, ReadSoFar, Readable, Asked
  <2> QED BY <1>1, <1>3, <1>4, <2>1 DEF SensorsInv, Zones, AboveZero, HottestSoFar
<1>7. WorstSoFar'
  <2>1. \A c : FreqStatuses(c)' = FreqStatuses(c)
    BY <1>1 DEF FreqStatuses
  <2>2. /\ cpu \in Nat \ {0} /\ worst \in 0 .. 2
        /\ \A c \in DOMAIN freq : c < cpu /\ 0 \notin freqs[c] => \E s \in FreqStatuses(c) : s <= worst
        /\ worst = 0 \/ \E c \in DOMAIN freq : worst \in FreqStatuses(c)
    BY DEF SensorsInv, WorstSoFar
  <2>3. /\ DOMAIN freq = 1 .. Len(freq) /\ Len(freq) \in Nat
        /\ \A c \in DOMAIN freq : freq[c] \in Nat /\ freq[c] \in freqs[c]
    BY DEF SensorsInv, Host
  <2>4. CASE cpu <= Len(freq)
    <3> DEFINE s == get_status(freq[cpu], opt.my_threshold)
    <3>1. /\ worst' = (IF freq[cpu] > 0 THEN Worse(worst, s) ELSE worst)
          /\ cpu' = cpu + 1 /\ pc' = pc /\ exit' = exit /\ ~Judged'
      BY <1>1, <2>4 DEF JudgeFrequency, main, Judged
    <3>2. cpu \in DOMAIN freq /\ s \in 0 .. 2
      BY <2>2, <2>3, <2>4, StatusIs
    <3>3. freq[cpu] > 0 => s \in FreqStatuses(cpu)
      BY <2>3, <3>2 DEF FreqStatuses
    <3>4. freq[cpu] = 0 => 0 \in freqs[cpu]
      BY <2>3, <3>2
    <3> HIDE DEF s
    <3>5. worst' \in 0 .. 2 /\ worst <= worst' /\ (freq[cpu] > 0 => s <= worst')
      BY <2>2, <3>1, <3>2 DEF Worse
    <3>6. worst' = 0 \/ \E c \in DOMAIN freq : worst' \in FreqStatuses(c)
      BY <2>2, <3>1, <3>2, <3>3 DEF Worse
    <3>7. ASSUME NEW c \in DOMAIN freq, c < cpu', 0 \notin freqs[c]
          PROVE  \E r \in FreqStatuses(c) : r <= worst'
      <4>1. c \in Nat /\ (c < cpu \/ c = cpu)
        BY <2>2, <2>3, <3>1, <3>7
      <4>2. CASE c < cpu
        <5>1. PICK r \in FreqStatuses(c) : r <= worst
          BY <2>2, <3>7, <4>2
        <5>2. r \in 0 .. 2
          BY StatusIs DEF FreqStatuses
        <5>3. r <= worst'
          BY <2>2, <3>5, <5>1, <5>2
        <5> QED BY <5>3
      <4>3. CASE c = cpu
        <5>1. freq[cpu] > 0
          BY <2>3, <3>2, <3>4, <3>7, <4>3
        <5> QED BY <3>3, <3>5, <4>3, <5>1
      <4> QED BY <4>1, <4>2, <4>3
    <3> QED BY <1>1, <2>1, <2>2, <3>1, <3>5, <3>6, <3>7 DEF WorstSoFar
  <2>5. CASE ~(cpu <= Len(freq))
    <3>1. cpu' = cpu /\ worst' = worst /\ exit' = worst
      BY <2>5 DEF JudgeFrequency, Exit
    <3> QED BY <1>1, <2>1, <2>2, <2>3, <2>5, <3>1 DEF WorstSoFar
  <2> QED BY <2>4, <2>5
<1> QED BY <1>2, <1>5, <1>6, <1>7 DEF SensorsInv

\* A zone is looked at: the highest temperature so far is that of the zones so far.
LEMMA HottestGrows ==
    ASSUME SensorsInv, AboveZero, NEW z \in Zone, ReadZone(z)
    PROVE  HottestSoFar'
<1>1. /\ UNCHANGED <<opt, sensors, pc>> /\ pc = "zones" /\ z \in unseen /\ unseen' = unseen \ {z}
      /\ HottestSoFar
      /\ unseen \subseteq {y \in Zone : sensors.zones[y].there}
  BY DEF ReadZone, main, sensorsHost, SensorsInv, Zones, Host
<1>2. Readable' = Readable /\ Asked' = Asked
  BY <1>1 DEF Readable, Asked
<1>3. /\ temp \in Nat /\ max_temp \in Nat /\ temp <= max_temp
      /\ zone # NULL => zone \in Asked
      /\ \A y \in ReadSoFar : sensors.zones[y].temp <= max_temp
      /\ max_temp = 0 \/ (zone \in Readable /\ sensors.zones[zone].temp = max_temp)
  BY <1>1 DEF HottestSoFar
<1>4. sensors.zones[z].there => (z \in Asked <=> opt.zone \in {NULL, z})
  BY DEF Asked
<1>5. CASE opt.zone \notin {NULL, z}
  <2>1. UNCHANGED <<temp, max_temp, zone>>
    BY <1>5 DEF ReadZone
  <2>2. ReadSoFar' = ReadSoFar
    <3>1. z \notin Asked
      BY <1>5 DEF Asked
    <3> QED BY <1>1, <1>2, <3>1 DEF ReadSoFar, Met
  <2> QED BY <1>1, <1>2, <1>3, <2>1, <2>2 DEF HottestSoFar
<1>6. CASE opt.zone \in {NULL, z}
  <2> DEFINE r == ZoneReading(z)
  <2>1. /\ temp' = r
        /\ IF max_temp < r \/ max_temp = 0 THEN max_temp' = r /\ zone' = z
           ELSE UNCHANGED <<max_temp, zone>>
    BY <1>6 DEF ReadZone
  <2>2. z \in Asked
    BY <1>1, <1>4, <1>6
  <2>3. r \in Nat /\ (z \in Readable => r = sensors.zones[z].temp) /\ (z \notin Readable => r = temp)
    <3>1. CASE sensors.zones[z].temp = NULL
      BY <1>3, <3>1 DEF ZoneReading, Readable
    <3>2. CASE sensors.zones[z].temp # NULL
      <4>1. z \in Readable
        BY <2>2, <3>2 DEF Readable
      <4>2. sensors.zones[z].temp \in Int
        <5>1. sensors \in SensorHost
          BY SensorsAssumption DEF SensorsInv, Host
        <5> QED BY <3>2, <5>1 DEF SensorHost, ZoneKind
      <4>3. sensors.zones[z].temp >= 0 /\ sensors.zones[z].temp < IntWord \div 2
        BY <3>2, <4>1, SensorsAssumption DEF SensorsInv, Host, AboveZero
      <4>4. unsigned(sensors.zones[z].temp) = sensors.zones[z].temp
        <5> DEFINE x == sensors.zones[z].temp
        <5>1. x \in Int /\ x >= 0 /\ x < IntWord \div 2
          BY <4>2, <4>3
        <5> HIDE DEF x
        <5>2. -(IntWord \div 2) < x
          BY <5>1, HalfInt
        <5> QED BY <5>1, <5>2, IntFits DEF x
      <4>5. r = sensors.zones[z].temp
        BY <3>2, <4>4 DEF ZoneReading
      <4> QED BY <4>1, <4>2, <4>3, <4>5
    <3> QED BY <3>1, <3>2
  <2> HIDE DEF r
  <2>4. temp' \in Nat /\ max_temp' \in Nat /\ temp' <= max_temp' /\ max_temp <= max_temp'
    BY <1>3, <2>1, <2>3
  <2>5. zone' # NULL => zone' \in Asked
    BY <1>3, <2>1, <2>2
  <2>6. ASSUME NEW y \in ReadSoFar' PROVE sensors.zones[y].temp <= max_temp'
    <3>1. y = z \/ y \in ReadSoFar
      BY <1>1, <1>2, <2>6 DEF ReadSoFar, Met
    <3>2. CASE y = z
      <4>1. z \in Readable
        BY <1>2, <2>6, <3>2 DEF ReadSoFar
      <4> QED BY <2>1, <2>3, <2>4, <3>2, <4>1
    <3>3. CASE y \in ReadSoFar
      <4>1. sensors.zones[y].temp <= max_temp
        BY <1>3, <3>3
      <4>2. sensors.zones[y].temp \in Int
        <5>1. sensors \in SensorHost
          BY SensorsAssumption DEF SensorsInv, Host
        <5> QED BY <3>3, <5>1 DEF SensorHost, ZoneKind, ReadSoFar, Readable, Asked
      <4> QED BY <1>3, <2>4, <4>1, <4>2
    <3> QED BY <3>1, <3>2, <3>3
  <2>7. max_temp' = 0 \/ (zone' \in Readable /\ sensors.zones[zone'].temp = max_temp')
    <3>1. CASE max_temp < r \/ max_temp = 0
      <4>1. max_temp' = r /\ zone' = z
        BY <2>1, <3>1
      <4>2. z \notin Readable => r = 0
        BY <1>3, <2>3, <3>1
      <4> QED BY <2>3, <4>1, <4>2
    <3>2. CASE ~(max_temp < r \/ max_temp = 0)
      BY <1>3, <2>1, <3>2
    <3> QED BY <3>1, <3>2
  <2> QED BY <1>1, <1>2, <2>4, <2>5, <2>6, <2>7 DEF HottestSoFar
<1> QED BY <1>5, <1>6

\* A zone is looked at.
LEMMA SensorsZone ==
    ASSUME SensorsInv, NEW z \in Zone, ReadZone(z)
    PROVE  SensorsInv'
<1>1. /\ UNCHANGED <<pc, exit, opt, sensors, freq, freqs, cpu, worst>>
      /\ pc = "zones" /\ unseen' \subseteq unseen /\ ~Judged'
  BY DEF ReadZone, main, sensorsHost, Judged
<1>2. Host'
  BY <1>1 DEF SensorsInv, Host
<1>3. Place' /\ ValuesJudged'
  BY <1>1 DEF SensorsInv, Place, SensorsBadOptions, Runs, ValuesJudged
<1>4. Zones'
  <2>1. AboveZero' <=> AboveZero
    BY <1>1 DEF AboveZero, Readable, Asked
  <2> QED BY <1>1, <2>1, HottestGrows DEF Zones
<1>5. WorstSoFar'
  <2>1. \A c : FreqStatuses(c)' = FreqStatuses(c)
    BY <1>1 DEF FreqStatuses
  <2> QED BY <1>1, <2>1 DEF SensorsInv, WorstSoFar
<1> QED BY <1>2, <1>3, <1>4, <1>5 DEF SensorsInv

\* The hottest zone is judged.
LEMMA SensorsJudgeTemperature ==
    ASSUME SensorsInv, JudgeTemperature
    PROVE  SensorsInv'
<1>1. /\ UNCHANGED <<opt, sensors, freq, freqs, cpu, worst, temp, max_temp, zone, unseen>>
      /\ pc = "zones" /\ pc' = "exited" /\ unseen = {}
  BY DEF JudgeTemperature, GiveUp, Exit, sensorsVars, sensorsHost
<1>2. (\A S : Runs(S)' <=> Runs(S)) /\ (SensorsBadOptions' <=> SensorsBadOptions)
  BY <1>1 DEF Runs, SensorsBadOptions
<1>3. Runs({"temperature"}) /\ ~SensorsBadOptions
  BY <1>1 DEF SensorsInv, Place
<1>4. ~Runs({"load"})' /\ ~Runs({"clock"})' /\ ~Runs({"cpufreq"})'
  BY <1>2, <1>3, OneProgram
<1>5. Host' /\ Place' /\ ValuesJudged'
  BY <1>1, <1>2, <1>3, <1>4 DEF SensorsInv, Host, Place, ValuesJudged
<1>6. WorstSoFar'
  <2>1. \A c : FreqStatuses(c)' = FreqStatuses(c)
    BY <1>1 DEF FreqStatuses
  <2> QED BY <1>1, <1>4, <2>1 DEF SensorsInv, WorstSoFar
<1>7. Zones'
  <2>1. Met' = Met /\ ReadSoFar' = ReadSoFar /\ Readable' = Readable /\ Asked' = Asked
    BY <1>1 DEF Met, ReadSoFar, Readable, Asked
  <2>2. AboveZero' => HottestSoFar'
    BY <1>1, <2>1 DEF SensorsInv, Zones, AboveZero, HottestSoFar
  <2>3. Judged' => zone # NULL /\ exit' = TemperatureStatus(unsigned(int(max_temp)))
    BY DEF JudgeTemperature, GiveUp, Exit, Judged
  <2>4. \A x : TemperatureStatus(x)' = TemperatureStatus(x)
    BY <1>1, SameTemperatureStatus
  <2>5. unsigned(int(max_temp))' = unsigned(int(max_temp))
    BY <1>1
  <2> QED BY <1>1, <2>2, <2>3, <2>4, <2>5 DEF Zones
<1> QED BY <1>5, <1>6, <1>7 DEF SensorsInv

\* The invariant is inductive.
LEMMA SensorsNextInv ==
    SensorsInv /\ [SensorsNext]_<<main, sensorsVars>> => SensorsInv'
<1> SUFFICES ASSUME SensorsInv, [SensorsNext]_<<main, sensorsVars>> PROVE SensorsInv'
  OBVIOUS
<1>1. CASE SensorsParseOptions
  BY <1>1, SensorsParse
<1>2. CASE JudgeValue
  BY <1>2, SensorsValue
<1>3. CASE JudgeFrequency
  BY <1>3, SensorsJudgeFrequency
<1>4. CASE \E z \in Zone : ReadZone(z)
  BY <1>4, SensorsZone
<1>5. CASE JudgeTemperature
  BY <1>5, SensorsJudgeTemperature
<1>6. CASE FrequencyChanges
  BY <1>6, SensorsFrequency
<1>7. CASE UNCHANGED <<main, sensorsVars>>
  BY <1>7, SensorsStutter
<1> QED BY <1>1, <1>2, <1>3, <1>4, <1>5, <1>6, <1>7 DEF SensorsNext, SensorsPlugin

\* In every state of the sensors the invariant holds.
LEMMA SensorsInvariant == SensorsSpec => []SensorsInv
BY SensorsInitInv, SensorsNextInv, PTL DEF SensorsSpec

\* What is judged is the reading of the sensors.
LEMMA JudgesReadings ==
    ASSUME SensorsInv
    PROVE  ReadingsJudged
<1>1. HottestZoneJudged
  <2> SUFFICES ASSUME Judged, Runs({"temperature"}), AboveZero
               PROVE  /\ exit = TemperatureStatus(Hottest)
                      /\ zone \in Asked
                      /\ Hottest = 0 \/ sensors.zones[zone].temp = Hottest
    BY DEF HottestZoneJudged, AboveZero
  <2>1. /\ Host /\ HottestSoFar /\ zone # NULL /\ unseen = {}
        /\ exit = TemperatureStatus(unsigned(int(max_temp)))
    BY DEF SensorsInv, Zones
  <2>2. max_temp = Hottest /\ unsigned(int(max_temp)) = max_temp
    BY <2>1, AllMet, TemperatureFits
  <2> QED BY <2>1, <2>2 DEF HottestSoFar
<1>2. FrequenciesJudged
  <2>1. DOMAIN freq = 1 .. Len(freq) /\ Len(freq) \in Nat
    BY DEF SensorsInv, Host
  <2>2. ASSUME Judged, Runs({"cpufreq"})
        PROVE  /\ \A c \in DOMAIN freq : 0 \notin freqs[c] => \E s \in FreqStatuses(c) : s <= exit
               /\ exit = STATE_OK \/ \E c \in DOMAIN freq : exit \in FreqStatuses(c)
    <3>1. cpu \in Nat /\ cpu > Len(freq) /\ exit = worst
      BY <2>2 DEF SensorsInv, WorstSoFar
    <3>2. \A c \in DOMAIN freq : c < cpu
      BY <2>1, <3>1
    <3> QED BY <3>1, <3>2 DEF SensorsInv, WorstSoFar
  <2> QED BY <2>2, Zenon DEF FrequenciesJudged, FreqStatuses
<1> QED BY <1>1, <1>2 DEF SensorsInv, ReadingsJudged

\* check_load, check_clock, check_cpufreq and check_temperature judge the reading they are
\* about: the average that is worst off, the distance of the clock, the worst of the CPUs
\* while their frequencies change, and the hottest of the zones in whatever order they are
\* met and whichever of them cannot be read.
THEOREM ReadingsAreJudged == SensorsSpec => []ReadingsJudged
BY SensorsInvariant, JudgesReadings, PTL

-----------------------------------------------------------------------------
(***************************************************************************)
(* The rates: what check_cswch, check_intr, check_paging and               *)
(* check_pressure judge is the growth of one counter between the last two  *)
(* readings, for every kernel and every number of readings.                *)
(***************************************************************************)

-----------------------------------------------------------------------------
(* The table of vmstat *)

\* The table has 52 rows.
LEMMA TableLength == Len(vmem_table) = 52
BY DEF vmem_table

\* A row outside the block that is out of order compares with all the others as its
\* number does.
LEMMA InOrder ==
    ASSUME NEW k \in 1 .. 52 \ 42 .. 49, NEW m \in 1 .. 52
    PROVE  (strcmp(k) < strcmp(m) <=> k < m) /\ (strcmp(k) > strcmp(m) <=> k > m)
BY DEF strcmp

\* The middle of some rows is one of them.
LEMMA MiddleRow ==
    ASSUME NEW low \in Nat, NEW up \in Nat, low < up
    PROVE  LET middle == (low + up) \div 2 + 1
           IN middle \in Nat /\ low < middle /\ middle <= up
OBVIOUS

\* Such a row is found, although the block out of order is looked at meanwhile.
LEMMA RowFound == \A k \in 1 .. 52 \ 42 .. 49 : bsearch(k) = k
<1> SUFFICES ASSUME NEW k \in 1 .. 52 \ 42 .. 49 PROVE bsearch(k) = k
  OBVIOUS
<1> DEFINE Rows == (0 .. Len(vmem_table)) \X (0 .. Len(vmem_table))
           Middle(low, up) == (low + up) \div 2 + 1
           Body(f, low, up) ==
               IF low >= up THEN 0
               ELSE IF strcmp(k) < strcmp(Middle(low, up)) THEN f[<<low, Middle(low, up) - 1>>]
               ELSE IF strcmp(k) > strcmp(Middle(low, up)) THEN f[<<Middle(low, up), up>>]
               ELSE Middle(low, up)
           Is(f) == f = [rows \in Rows |-> Body(f, rows[1], rows[2])]
           search == CHOOSE f : Is(f)
           closed == [rows \in Rows |-> IF rows[1] < k /\ k <= rows[2] THEN k ELSE 0]
<1>1. bsearch(k) = search[<<0, Len(vmem_table)>>]
  BY DEF bsearch
<1>0. Rows = (0 .. 52) \X (0 .. 52)
  BY TableLength
<1> HIDE DEF Rows
<1>3. \A low, up \in 0 .. 52 : low < up =>
        /\ Middle(low, up) \in 1 .. 52 /\ low < Middle(low, up) /\ Middle(low, up) <= up
        /\ strcmp(k) < strcmp(Middle(low, up)) <=> k < Middle(low, up)
        /\ strcmp(k) > strcmp(Middle(low, up)) <=> k > Middle(low, up)
  <2> SUFFICES ASSUME NEW low \in 0 .. 52, NEW up \in 0 .. 52, low < up
               PROVE  /\ Middle(low, up) \in 1 .. 52 /\ low < Middle(low, up)
                      /\ Middle(low, up) <= up
                      /\ strcmp(k) < strcmp(Middle(low, up)) <=> k < Middle(low, up)
                      /\ strcmp(k) > strcmp(Middle(low, up)) <=> k > Middle(low, up)
    BY Zenon
  <2>1. Middle(low, up) \in 1 .. 52 /\ low < Middle(low, up) /\ Middle(low, up) <= up
    BY MiddleRow
  <2> HIDE DEF Middle
  <2> QED BY <2>1, InOrder
<1> HIDE DEF Middle, Body
<1>4. \A low, up \in 0 .. 52 : 
        closed[<<low, up>>] = IF low < k /\ k <= up THEN k ELSE 0
  BY <1>0
<1>5. ASSUME NEW low \in 0 .. 52, NEW up \in 0 .. 52
      PROVE  closed[<<low, up>>] = Body(closed, low, up)
  <2> HIDE DEF closed
  <2> DEFINE m == Middle(low, up)
  <2>1. Body(closed, low, up) = IF low >= up THEN 0
            ELSE IF strcmp(k) < strcmp(m) THEN closed[<<low, m - 1>>]
            ELSE IF strcmp(k) > strcmp(m) THEN closed[<<m, up>>]
            ELSE m
    BY DEF Body
  <2>2. low < up => /\ m \in 1 .. 52 /\ low < m /\ m <= up
                    /\ strcmp(k) < strcmp(m) <=> k < m
                    /\ strcmp(k) > strcmp(m) <=> k > m
    BY <1>3, Zenon
  <2> HIDE DEF m, Body
  <2>3. closed[<<low, up>>] = IF low < k /\ k <= up THEN k ELSE 0
    BY <1>4, Zenon
  <2>4. CASE low >= up
    BY <2>1, <2>3, <2>4
  <2>5. CASE low < up
    <3>1. m \in 0 .. 52 /\ m - 1 \in 0 .. 52 /\ ~(low >= up)
      BY <2>2, <2>5
    <3>2. CASE k < m
      <4>1. closed[<<low, m - 1>>] = IF low < k /\ k <= m - 1 THEN k ELSE 0
        BY <1>4, <3>1, Zenon
      <4>2. Body(closed, low, up) = closed[<<low, m - 1>>]
        BY <2>1, <2>2, <2>5, <3>1, <3>2
      <4> QED BY <2>2, <2>3, <2>5, <3>2, <4>1, <4>2
    <3>3. CASE k > m
      <4>1. closed[<<m, up>>] = IF m < k /\ k <= up THEN k ELSE 0
        BY <1>4, <3>1, Zenon
      <4>2. Body(closed, low, up) = closed[<<m, up>>]
        BY <2>1, <2>2, <2>5, <3>1, <3>3
      <4> QED BY <2>2, <2>3, <2>5, <3>3, <4>1, <4>2
    <3>4. CASE k = m
      BY <2>1, <2>2, <2>3, <2>5, <3>1, <3>4
    <3> QED BY <3>1, <3>2, <3>3, <3>4
  <2> QED BY <2>4, <2>5
<1>6. Is(closed)
  <2>1. \A rows \in Rows : closed[rows] = Body(closed, rows[1], rows[2])
    <3> SUFFICES ASSUME NEW rows \in Rows PROVE closed[rows] = Body(closed, rows[1], rows[2])
      BY Zenon
    <3>1. rows = <<rows[1], rows[2]>> /\ rows[1] \in 0 .. 52 /\ rows[2] \in 0 .. 52
      BY <1>0
    <3> HIDE DEF closed
    <3> QED BY <1>5, <3>1, Zenon
  <2>2. closed = [rows \in Rows |-> closed[rows]]
    OBVIOUS
  <2> HIDE DEF closed
  <2> QED BY <2>1, <2>2, Zenon
<1>7. Is(search)
  BY <1>6, Zenon
<1> HIDE DEF search, closed
<1>8. \A low, up \in 0 .. 52 : search[<<low, up>>] = Body(search, low, up)
  <2> SUFFICES ASSUME NEW low \in 0 .. 52, NEW up \in 0 .. 52
               PROVE  search[<<low, up>>] = Body(search, low, up)
    BY Zenon
  <2>1. <<low, up>> \in Rows /\ <<low, up>>[1] = low /\ <<low, up>>[2] = up
    BY <1>0
  <2>2. search[<<low, up>>] = Body(search, <<low, up>>[1], <<low, up>>[2])
    BY <1>7, <2>1, Zenon
  <2> QED BY <2>1, <2>2, Zenon
<1> DEFINE Finds(n) == \A low, up \in 0 .. 52 :
                    up - low <= n /\ low < k /\ k <= up => search[<<low, up>>] = k
           T == {n \in Nat : Finds(n)}
<1>9. 0 \in T
  <2>1. ASSUME NEW low \in 0 .. 52, NEW up \in 0 .. 52, up - low <= 0, low < k, k <= up
        PROVE  search[<<low, up>>] = k
    BY <2>1
  <2>2. Finds(0)
    BY <2>1, Zenon
  <2> HIDE DEF Finds
  <2> QED BY <2>2
<1>10. ASSUME NEW n \in Nat, Finds(n) PROVE Finds(n + 1)
  <2> SUFFICES ASSUME NEW low \in 0 .. 52, NEW up \in 0 .. 52,
                      up - low <= n + 1, low < k, k <= up
               PROVE  search[<<low, up>>] = k
    BY Zenon
  <2> DEFINE m == Middle(low, up)
  <2>1. ~(low >= up) /\ low < up
    OBVIOUS
  <2>2. /\ m \in 1 .. 52 /\ low < m /\ m <= up
        /\ strcmp(k) < strcmp(m) <=> k < m
        /\ strcmp(k) > strcmp(m) <=> k > m
    BY <1>3, <2>1, Zenon
  <2>3. search[<<low, up>>] = IF low >= up THEN 0
            ELSE IF strcmp(k) < strcmp(m) THEN search[<<low, m - 1>>]
            ELSE IF strcmp(k) > strcmp(m) THEN search[<<m, up>>]
            ELSE m
    BY <1>8, ZenonT(60) DEF Body
  <2> HIDE DEF m
  <2>4. CASE k < m
    <3>1. m - 1 \in 0 .. 52 /\ (m - 1) - low <= n /\ k <= m - 1
      BY <2>2, <2>4
    <3>2. search[<<low, m - 1>>] = k
      BY <1>10, <3>1, ZenonT(60)
    <3> QED BY <2>1, <2>2, <2>3, <2>4, <3>2
  <2>5. CASE k > m
    <3>1. m \in 0 .. 52 /\ up - m <= n
      BY <2>2, <2>5
    <3>2. search[<<m, up>>] = k
      BY <1>10, <2>5, <3>1, ZenonT(60)
    <3> QED BY <2>1, <2>2, <2>3, <2>5, <3>2
  <2>6. CASE k = m
    BY <2>1, <2>2, <2>3, <2>6
  <2> QED BY <2>2, <2>4, <2>5, <2>6
<1>11. Nat \subseteq T
  <2>1. \A n \in Nat : n \in T => n + 1 \in T
    <3> HIDE DEF Finds
    <3> QED BY SMTT(30), <1>10
  <2> HIDE DEF T
  <2> QED BY <1>9, <2>1, Induction
<1>12. search[<<0, 52>>] = k
  <2>1. Finds(52)
    <3> HIDE DEF Finds
    <3> QED BY <1>11
  <2>2. 52 - 0 <= 52 /\ 0 < k /\ k <= 52 /\ 0 \in 0 .. 52 /\ 52 \in 0 .. 52
    OBVIOUS
  <2> QED BY <2>1, <2>2
<1> QED BY <1>1, <1>12, TableLength

\* So the counters that are shown by their own names have a slot.
LEMMA HaveSlots ==
    {"pgpgin", "pgpgout", "pswpin", "pswpout", "pgfault", "pgmajfault", "pgfree", "pgsteal"}
        \subseteq Slots
<1>1. /\ vmem_table[24] = "pgpgin" /\ vmem_table[25] = "pgpgout"
      /\ vmem_table[50] = "pswpin" /\ vmem_table[51] = "pswpout"
      /\ vmem_table[20] = "pgfault" /\ vmem_table[23] = "pgmajfault"
      /\ vmem_table[21] = "pgfree" /\ vmem_table[41] = "pgsteal"
  BY DEF vmem_table
<1>2. DOMAIN vmem_table = 1 .. 52
  BY DEF vmem_table
<1>3. \A k \in 1 .. 52 \ 42 .. 49 : vmem_table[k] \in Slots
  BY <1>2, RowFound DEF Slots
<1> QED BY <1>1, <1>3

\* The sum over some names is that of the counts a line sets.
LEMMA SumOfIsSum ==
    ASSUME NEW names, IsFiniteSet(names), NEW values, NEW l,
           \A n \in names : procparser(n, 0, values, l) \in Nat
    PROVE  SumOf(names, values, l)
             = SumFunctionOnSet([n \in names |-> procparser(n, 0, values, l)], names)
<1> DEFINE f == [n \in names |-> procparser(n, 0, values, l)]
           Adds(h) == h = [s \in SUBSET names |->
                              IF s = {} THEN 0
                              ELSE procparser(First(s), 0, values, l) + h[s \ {First(s)}]]
           g == CHOOSE h : Adds(h)
<1>1. SumOf(names, values, l) = g[names]
  BY Zenon DEF SumOf, MapThenSumSet, MapThenFoldSet, First
<1>2. \A s \in SUBSET names : s # {} => f[First(s)] = procparser(First(s), 0, values, l)
  BY DEF First
<1>3. \A n \in names : f[n] \in Nat
  OBVIOUS
<1>4. ASSUME NEW h PROVE Adds(h) <=> IsSum(h, f, names)
  <2>1. \A s \in SUBSET names :
           (IF s = {} THEN 0 ELSE procparser(First(s), 0, values, l) + h[s \ {First(s)}])
           = (IF s = {} THEN 0 ELSE f[First(s)] + h[s \ {First(s)}])
    <3> HIDE DEF f
    <3> QED BY <1>2
  <2>2. [s \in SUBSET names |->
           IF s = {} THEN 0 ELSE procparser(First(s), 0, values, l) + h[s \ {First(s)}]]
         = [s \in SUBSET names |-> IF s = {} THEN 0 ELSE f[First(s)] + h[s \ {First(s)}]]
    <3> HIDE DEF f
    <3> QED BY <2>1, Zenon
  <2> HIDE DEF f
  <2> QED BY <2>2, Zenon DEF IsSum
<1> HIDE DEF f, Adds
<1>5. PICK h : IsSum(h, f, names)
  BY <1>3, SumExists
<1>6. Adds(g)
  BY <1>4, <1>5, Zenon
<1>7. IsSum(g, f, names)
  BY <1>4, <1>6
<1> HIDE DEF g
<1>8. PICK e \in [SUBSET names -> Nat] :
         IsSum(e, f, names) /\ \A s \in SUBSET names : SumFunctionOnSet(f, s) = e[s]
  BY <1>3, SumFunctionOfSubsets
<1>9. g[names] = e[names]
  BY <1>7, <1>8, SumUnique
<1>10. SumFunctionOnSet(f, names) = e[names]
  BY <1>8
<1> QED BY <1>1, <1>9, <1>10 DEF f

\* The names of the zones are few.
LEMMA FewZones ==
    ASSUME NEW a, NEW b, NEW c, NEW d
    PROVE  IsFiniteSet({a, b, c, d})
<1>1. IsFiniteSet({a}) /\ {a, b, c, d} = (({a} \cup {b}) \cup {c}) \cup {d}
  BY FS_Singleton
<1>2. IsFiniteSet({a} \cup {b})
  BY <1>1, FS_AddElement
<1>3. IsFiniteSet(({a} \cup {b}) \cup {c})
  BY <1>2, FS_AddElement
<1>4. IsFiniteSet((({a} \cup {b}) \cup {c}) \cup {d})
  BY <1>3, FS_AddElement
<1> QED BY <1>1, <1>4

\* So are the counters that are kept by zone.
LEMMA ZonesFinite ==
    /\ IsFiniteSet(ForAllZones("pgsteal"))
    /\ IsFiniteSet(ForAllZones("pgscan_direct")) /\ IsFiniteSet(ForAllZones("pgscan_kswapd"))
BY FewZones DEF ForAllZones

\* What a line sets is a count.
LEMMA ParsedCount ==
    ASSUME NEW values \in [Stats -> Nat], NEW l \in Layouts, NEW name
    PROVE  procparser(name, 0, values, l) \in Nat
BY RatesAssumption DEF procparser

\* A sum of counts is a count, and 0 if none of them is listed.
LEMMA SumOfType ==
    ASSUME NEW values \in [Stats -> Nat], NEW l \in Layouts, NEW names, IsFiniteSet(names)
    PROVE  SumOf(names, values, l) \in Nat /\ (names \cap l = {} => SumOf(names, values, l) = 0)
<1> DEFINE f == [n \in names |-> procparser(n, 0, values, l)]
<1>1. \A n \in names : procparser(n, 0, values, l) \in Nat
  BY ParsedCount
<1>2. \A n \in names : f[n] \in Nat /\ (names \cap l = {} => f[n] = 0)
  BY <1>1 DEF procparser
<1>3. SumOf(names, values, l) = SumFunctionOnSet(f, names)
  BY <1>1, SumOfIsSum
<1> HIDE DEF f
<1> QED BY <1>2, <1>3, SumType, SumZero

\* Both counters of a pair are counts, and grow with what the kernel has; what is
\* listed, itself or in an old line, is the kernel's count.
LEMMA PairCounts ==
    ASSUME NEW values \in [Stats -> Nat], NEW l \in Layouts,
           NEW in \in Stats \cap Slots, NEW out \in Stats \cap Slots, NEW line,
           in \in l <=> out \in l
    PROVE  /\ Pair(in, out, line, values, l)[1] = (IF {in, line} \cap l # {} THEN values[in] ELSE 0)
           /\ Pair(in, out, line, values, l)[2] = (IF {out, line} \cap l # {} THEN values[out] ELSE 0)
BY DEF Pair, procparser

\* What the getters return.
LEMMA Getters ==
    ASSUME NEW values \in [Stats -> Nat], NEW l \in Layouts
    PROVE  LET r == proc_vmem_read(values, l)
               shown(name, line) == IF {name, line} \cap l # {} THEN values[name] ELSE 0
           IN /\ r \in VmReading
              /\ r.pgpgin = shown("pgpgin", "page") /\ r.pgpgout = shown("pgpgout", "page")
              /\ r.pswpin = shown("pswpin", "swap") /\ r.pswpout = shown("pswpout", "swap")
              /\ r.pgfault = procparser("pgfault", 0, values, l)
              /\ r.pgmajfault = procparser("pgmajfault", 0, values, l)
              /\ r.pgfree = procparser("pgfree", 0, values, l)
              /\ "pgsteal" \in l => r.pgsteal = values["pgsteal"]
<1> DEFINE get(name) == procparser(name, 0, values, l)
           without32(counter) ==
               SumOf(ForAllZones(counter) \ {"pgscan_direct_dma32", "pgscan_kswapd_dma32"},
                     values, l)
           pgpg == Pair("pgpgin", "pgpgout", "page", values, l)
           pswp == Pair("pswpin", "pswpout", "swap", values, l)
           shown(name, line) == IF {name, line} \cap l # {} THEN values[name] ELSE 0
           steal == IF get("pgsteal") = 0 THEN SumOf(ForAllZones("pgsteal"), values, l)
                    ELSE get("pgsteal")
           d == without32("pgscan_direct")
           k == without32("pgscan_kswapd")
<1>1. proc_vmem_read(values, l) =
         [pgpgin |-> pgpg[1], pgpgout |-> pgpg[2], pswpin |-> pswp[1], pswpout |-> pswp[2],
          pgfault |-> get("pgfault"), pgmajfault |-> get("pgmajfault"),
          pgfree |-> get("pgfree"), pgsteal |-> steal, pgscand |-> d, pgscank |-> k]
  BY DEF proc_vmem_read
<1>2. /\ {"pgpgin", "pgpgout", "pswpin", "pswpout"} \subseteq Stats \cap Slots
      /\ "pgpgin" \in l <=> "pgpgout" \in l
      /\ "pswpin" \in l <=> "pswpout" \in l
  BY HaveSlots, RatesAssumption
<1>3. /\ pgpg[1] = shown("pgpgin", "page") /\ pgpg[2] = shown("pgpgout", "page")
      /\ pswp[1] = shown("pswpin", "swap") /\ pswp[2] = shown("pswpout", "swap")
  <2>1. {"pgpgin", "pgpgout", "pswpin", "pswpout"} \subseteq Stats
    BY <1>2
  <2> QED BY <1>2, PairCounts
<1>4. /\ pgpg[1] \in Nat /\ pgpg[2] \in Nat /\ pswp[1] \in Nat /\ pswp[2] \in Nat
  <2> HIDE DEF pgpg, pswp
  <2> QED BY <1>2, <1>3
<1>5. \A name : get(name) \in Nat
  BY ParsedCount
<1>6. d \in Nat /\ k \in Nat
  <2>1. \A counter : IsFiniteSet(ForAllZones(counter)) =>
          IsFiniteSet(ForAllZones(counter) \ {"pgscan_direct_dma32", "pgscan_kswapd_dma32"})
    BY FS_Subset
  <2> QED BY <2>1, ZonesFinite, SumOfType
<1>7. SumOf(ForAllZones("pgsteal"), values, l) \in Nat /\ steal \in Nat
  <2>1. SumOf(ForAllZones("pgsteal"), values, l) \in Nat
    BY ZonesFinite, SumOfType
  <2> QED BY <1>5, <2>1
<1>8. ASSUME "pgsteal" \in l PROVE steal = values["pgsteal"]
  <2>1. ForAllZones("pgsteal") \cap l = {}
    BY <1>8, RatesAssumption
  <2>2. SumOf(ForAllZones("pgsteal"), values, l) = 0
    BY <2>1, ZonesFinite, SumOfType
  <2>3. get("pgsteal") = values["pgsteal"]
    BY <1>8, HaveSlots DEF procparser
  <2> QED BY <2>2, <2>3
<1> HIDE DEF pgpg, pswp, steal, d, k, get, shown
<1>9. proc_vmem_read(values, l) \in VmReading
  BY <1>1, <1>4, <1>5, <1>6, <1>7 DEF VmReading
<1>10. /\ proc_vmem_read(values, l).pgpgin = shown("pgpgin", "page")
       /\ proc_vmem_read(values, l).pgpgout = shown("pgpgout", "page")
       /\ proc_vmem_read(values, l).pswpin = shown("pswpin", "swap")
       /\ proc_vmem_read(values, l).pswpout = shown("pswpout", "swap")
       /\ proc_vmem_read(values, l).pgfault = get("pgfault")
       /\ proc_vmem_read(values, l).pgmajfault = get("pgmajfault")
       /\ proc_vmem_read(values, l).pgfree = get("pgfree")
       /\ proc_vmem_read(values, l).pgsteal = steal
  BY <1>1, <1>3
<1> QED BY <1>8, <1>9, <1>10 DEF get, shown

-----------------------------------------------------------------------------
(* The columns *)

\* In a set of numbers there is one with as many below it as one likes.
LEMMA RankTaken ==
    ASSUME NEW S, S \subseteq Nat, IsFiniteSet(S)
    PROVE  \A n \in Nat : n < Cardinality(S) =>
             \E c \in S : Cardinality({o \in S : o < c}) = n
<1> DEFINE Below(c) == {o \in S : o < c}
           Has(n) == n < Cardinality(S) => \E c \in S : Cardinality(Below(c)) = n
           T == {n \in Nat : Has(n)}
<1>1. Cardinality(S) \in Nat /\ \A c : IsFiniteSet(Below(c)) /\ Cardinality(Below(c)) \in Nat
  <2>1. \A c : Below(c) \in SUBSET S
    OBVIOUS
  <2> HIDE DEF Below
  <2> QED BY <2>1, FS_Subset, FS_CardinalityType
<1>2. Has(0)
  <2> SUFFICES ASSUME 0 < Cardinality(S) PROVE \E c \in S : Cardinality(Below(c)) = 0
    BY Zenon
  <2>1. S # {}
    BY FS_EmptySet
  <2>2. PICK c \in S : \A o \in S : c <= o
    BY <2>1, LeastNumber
  <2>3. Below(c) = {}
    <3>1. \A o \in S : ~(o < c)
      BY <2>2
    <3> QED BY <3>1
  <2> HIDE DEF Below
  <2> QED BY <2>3, FS_EmptySet
<1>3. ASSUME NEW n \in Nat, Has(n) PROVE Has(n + 1)
  <2> SUFFICES ASSUME n + 1 < Cardinality(S) PROVE \E d \in S : Cardinality(Below(d)) = n + 1
    BY Zenon
  <2>1. PICK c \in S : Cardinality(Below(c)) = n
    BY <1>1, <1>3
  <2> DEFINE Above == {o \in S : c < o}
  <2>2. c \notin Below(c)
    OBVIOUS
  <2>3. IsFiniteSet(Below(c) \cup {c}) /\ Cardinality(Below(c) \cup {c}) = n + 1
    <3> HIDE DEF Below
    <3> QED BY <1>1, <2>1, <2>2, FS_AddElement
  <2>4. Above # {}
    <3> SUFFICES ASSUME Above = {} PROVE FALSE
      OBVIOUS
    <3>1. S = Below(c) \cup {c}
      <4>1. \A o \in S : o < c \/ o = c \/ c < o
        OBVIOUS
      <4> QED BY <4>1
    <3> HIDE DEF Below
    <3> QED BY <1>1, <2>3, <3>1
  <2>5. PICK d \in Above : \A o \in Above : d <= o
    <3>1. Above \subseteq Nat
      OBVIOUS
    <3> HIDE DEF Above
    <3> QED BY <2>4, <3>1, LeastNumber
  <2>6. d \in S /\ Below(d) = Below(c) \cup {c}
    <3>1. \A o \in S : o < d <=> (o < c \/ o = c)
      BY <2>5
    <3> QED BY <2>5, <3>1
  <2> HIDE DEF Below
  <2> QED BY <2>3, <2>6
<1>4. 0 \in T
  <2> HIDE DEF Has
  <2> QED BY <1>2
<1>5. \A n \in Nat : n \in T => n + 1 \in T
  <2> HIDE DEF Has
  <2> QED BY <1>3
<1> HIDE DEF T
<1>6. Nat \subseteq T
  BY <1>4, <1>5, Induction
<1> QED BY <1>6 DEF T

-----------------------------------------------------------------------------
(* The inductive invariant *)

\* The host and the place of the plugin, whichever it is.
RatesPlace ==
    /\ opt \in RatesOptions
    /\ stat \in [Stats -> Nat] /\ irq \in [CPU -> Nat] /\ online \subseteq CPU
    /\ listed \in Layouts /\ stat["full"] <= stat["some"]
    /\ plugged \in Nat /\ (plugged = 0 => online = CPU)
    /\ pc \in {"options", "read", "count", "columns", "full", "judge", "exited"}
    /\ pc \in {"count", "columns"} => Runs({"intr"})
    /\ pc = "full" => Runs({"pressure"}) /\ opt.resource # "cpu"
    /\ pc # "exited" => exit = RUNNING
    /\ pc \notin {"options", "exited"} \/ Judged => ~RatesBadOptions
    /\ DOMAIN buf = {0, 1} /\ DOMAIN seen = {0, 1} /\ tog \in {0, 1}
    /\ DOMAIN vintr = {0, 1} /\ ncpus \in [{0, 1} -> Nat]

\* The last reading is in the buffer of the toggle, the one before it in the other.
Counted ==
    /\ i \in Nat
    /\ i <= 1 => tog = 0 /\ buf[1] = NULL
    /\ i = 0 => buf[0] = NULL
    /\ i >= 1 => buf[tog] \in Nat /\ buf[tog] <= stat[Pattern]
    /\ i >= 2 => buf[1 - tog] \in Nat /\ buf[1 - tog] <= buf[tog]
    /\ pc = "options" => i = 0
    /\ pc \in {"count", "columns", "judge"} \/ Judged => i >= 1

\* A snapshot of which only the number of columns is known,
Pending(b) == pc = "columns" /\ b = Snapshot

\* and one that has been made.
Made(b) == ncpus[b] > 0 /\ ~Pending(b)

\* The n-th of all the CPUs,
Ranked(n) == CHOOSE c \in CPU : Cardinality({o \in CPU : o < c}) = n

\* and what is read of it from some counts.
Column(counts, n) ==
    IF n = 0 THEN counts[Ranked(n)] ELSE counts[Ranked(n)] % NineDigits

\* A snapshot shows what each CPU had served when it was taken.
Shown(b) ==
    /\ DOMAIN vintr[b] = 0 .. ncpus[b] - 1
    /\ seen[b].irq \in [CPU -> Nat] /\ \A c \in CPU : seen[b].irq[c] <= irq[c]
    /\ plugged = 0 => \A n \in 0 .. ncpus[b] - 1 : vintr[b][n] = Column(seen[b].irq, n)

\* The first snapshot is taken between the last two readings of the total.
BetweenReadings ==
    LET total == seen[0].stat["intr"]
    IN /\ i >= 1 /\ total \in Nat /\ total <= stat["intr"]
       /\ opt.count >= 2 =>
             \/ i = opt.count - 1 /\ buf[tog] <= total
             \/ i = opt.count /\ buf[1 - tog] <= total /\ total <= buf[tog]

\* The second one is taken after the last of them.
Snapped ==
    /\ pc = "read" => i = 0 \/ i < opt.count
    /\ pc \in {"count", "columns"} => SnapshotAfter(i - 1) # {}
    /\ \A b \in {0, 1} : ncpus[b] > 0 /\ plugged = 0 => ncpus[b] = Cardinality(CPU)
    /\ \A b \in {0, 1} : Made(b) => Shown(b)
    /\ Made(0) /\ Made(1) => \A c \in CPU : seen[0].irq[c] <= seen[1].irq[c]
    /\ ncpus[1] > 0 => opt.count >= 2 /\ i = opt.count
    /\ Made(0) => BetweenReadings

\* The buffers of check_paging hold what the kernel had.
VmemRead ==
    /\ i \in 0 .. 2
    /\ i = 0 => tog = 0 /\ buf[0] = NULL
    /\ i <= 1 => buf[1] = NULL
    /\ i = 1 => tog = 1
    /\ \A b \in {0, 1} : b < i => /\ seen[b].stat \in [Stats -> Nat]
                                  /\ buf[b] = proc_vmem_read(seen[b].stat, listed)
    /\ pc = "options" => i = 0
    /\ pc = "read" => i < 2
    /\ pc = "judge" \/ Judged => i = 2

\* Of a pair the line "some" has been read,
SomeRead(b) ==
    /\ buf[b] \in PressureReading /\ buf[b].some \in Nat /\ buf[b].full = NULL

\* or all there is.
PairRead(b) ==
    /\ buf[b] \in PressureReading /\ buf[b].some \in Nat
    /\ IF opt.resource = "cpu" THEN buf[b].full = NULL
       ELSE buf[b].full \in Nat /\ buf[b].full <= stat["full"]

\* Since "some" was first read "full" grew no more than "some".
Stalled ==
    /\ seen[0].stat \in [Stats -> Nat] /\ seen[0].stat["full"] <= stat["full"]
    /\ stat["full"] - seen[0].stat["full"] <= stat["some"] - seen[0].stat["some"]
    /\ buf[0].full # NULL => seen[0].stat["full"] <= buf[0].full

\* The pairs are read one after the other.
PressureRead ==
    /\ pc = "options" => tog = 0
    /\ pc \in {"options", "read"} /\ tog = 0 => buf[0] = NULL /\ buf[1] = NULL
    /\ pc = "full" /\ tog = 0 => SomeRead(0) /\ buf[1] = NULL /\ Stalled
    /\ pc = "read" /\ tog = 1 => PairRead(0) /\ buf[1] = NULL /\ Stalled
    /\ pc = "full" /\ tog = 1 => PairRead(0) /\ SomeRead(1) /\ Stalled
    /\ pc = "judge" \/ Judged => tog = 1 /\ PairRead(0) /\ PairRead(1) /\ Stalled

\* The inductive invariant of the rates.
RatesInv ==
    /\ RatesPlace
    /\ Runs({"cswch", "intr"}) => Counted
    /\ Runs({"intr"}) => Snapped
    /\ Runs({"paging"}) => VmemRead
    /\ Runs({"pressure"}) => PressureRead

\* What the constants are.
LEMMA RatesConstants ==
    /\ \A o \in RatesOptions : o.program \in RatesPrograms
    /\ IsFiniteSet(CPU) /\ CPU \subseteq Nat
    /\ \A S \in SUBSET CPU : IsFiniteSet(S) /\ Cardinality(S) \in Nat
    /\ NineDigits \in Nat \ {0} /\ {"ctxt", "intr", "some", "full"} \subseteq Stats
<1>1. \A S \in SUBSET CPU : IsFiniteSet(S) /\ Cardinality(S) \in Nat
  BY RatesAssumption, FS_Subset, FS_CardinalityType
<1> QED BY <1>1, RatesAssumption DEF RatesCommandLine

\* The invariant holds at first.
LEMMA RatesInitInv ==
    opt \in RatesOptions /\ PluginInit /\ RatesInit => RatesInv
<1> SUFFICES ASSUME opt \in RatesOptions, PluginInit, RatesInit PROVE RatesInv
  OBVIOUS
<1>1. Runs(RatesPrograms) /\ pc = "options" /\ exit = RUNNING /\ ~Judged
  BY RatesConstants DEF Runs, PluginInit, Judged
<1>2. /\ stat \in StatsAtBoot /\ irq \in IrqAtBoot /\ online = CPU /\ listed \in Layouts
      /\ plugged = 0 /\ i = 0 /\ tog = 0 /\ buf = [b \in {0, 1} |-> NULL]
      /\ vintr = [b \in {0, 1} |-> <<>>] /\ ncpus = [b \in {0, 1} |-> 0]
      /\ seen = [b \in {0, 1} |-> NULL]
  BY <1>1 DEF RatesInit, Either
<1>3. stat \in [Stats -> Nat] /\ irq \in [CPU -> Nat] /\ stat["full"] <= stat["some"]
  BY <1>2, RatesAssumption
<1>4. RatesPlace
  BY <1>1, <1>2, <1>3 DEF RatesPlace
<1>5. Counted
  BY <1>1, <1>2 DEF Counted
<1>6. Snapped
  BY <1>1, <1>2 DEF Snapped, Made
<1>7. VmemRead
  BY <1>1, <1>2 DEF VmemRead
<1>8. PressureRead
  BY <1>1, <1>2 DEF PressureRead
<1> QED BY <1>4, <1>5, <1>6, <1>7, <1>8 DEF RatesInv

\* The options do not change.
LEMMA SameOptions ==
    ASSUME [RatesNext]_<<main, ratesVars>>
    PROVE  /\ opt' = opt /\ listed' = listed
           /\ \A S : Runs(S)' <=> Runs(S)
           /\ RatesBadOptions' <=> RatesBadOptions
<1>1. opt' = opt /\ listed' = listed
  BY DEF RatesNext, RatesPlugin, RatesParseOptions, ReadCounter, CountOnline, ReadColumns, ReadVmem,
         ReadSome, ReadFull, ReadPressure, JudgeRate, CountersGrow, Hotplug, GiveUp, Exit, Goto, main,
         ratesVars, kernel, readings
<1> QED BY <1>1 DEF Runs, RatesBadOptions

\* The counters grow.
LEMMA GrowthOfCounters ==
    ASSUME RatesPlace, CountersGrow
    PROVE  /\ stat' \in [Stats -> Nat] /\ irq' \in [CPU -> Nat]
           /\ \A s \in Stats : stat[s] <= stat'[s]
           /\ \A c \in CPU : irq[c] <= irq'[c]
           /\ stat'["full"] - stat["full"] <= stat'["some"] - stat["some"]
           /\ stat'["full"] <= stat'["some"]
           /\ UNCHANGED <<pc, opt, exit, online, listed, plugged, i, tog, buf, vintr, ncpus, seen>>
<1>1. /\ stat \in [Stats -> Nat] /\ irq \in [CPU -> Nat] /\ stat["full"] <= stat["some"]
      /\ "full" \in Stats /\ "some" \in Stats
  BY RatesConstants DEF RatesPlace
<1>2. PICK g \in Growths : stat' = [s \in Stats |-> stat[s] + g[s]]
  BY DEF CountersGrow
<1>3. g \in [Stats -> Nat] /\ g["full"] <= g["some"]
  BY RatesAssumption
<1>4. /\ stat' \in [Stats -> Nat] /\ \A s \in Stats : stat[s] <= stat'[s]
      /\ stat'["full"] - stat["full"] <= stat'["some"] - stat["some"]
      /\ stat'["full"] <= stat'["some"]
  <2>1. \A s \in Stats : stat'[s] = stat[s] + g[s] /\ stat[s] \in Nat /\ g[s] \in Nat
    BY <1>1, <1>2, <1>3
  <2>2. stat' \in [Stats -> Nat] /\ \A s \in Stats : stat[s] <= stat'[s]
    BY <1>2, <2>1
  <2> DEFINE a == stat["full"]
             b == stat["some"]
             c == g["full"]
             d == g["some"]
  <2>3. /\ a \in Nat /\ b \in Nat /\ c \in Nat /\ d \in Nat /\ a <= b /\ c <= d
        /\ stat'["full"] = a + c /\ stat'["some"] = b + d
    BY <1>1, <1>3, <2>1
  <2> HIDE DEF a, b, c, d
  <2>4. stat'["full"] - a <= stat'["some"] - b /\ stat'["full"] <= stat'["some"]
    BY <2>3
  <2> QED BY <2>2, <2>4 DEF a, b
<1>5. irq' \in [CPU -> Nat] /\ \A c \in CPU : irq[c] <= irq'[c]
  <2>1. CASE Runs({"intr"})
    <3>1. PICK h \in IrqGrowths : irq' = [c \in CPU |-> IF c \in online THEN irq[c] + h[c] ELSE irq[c]]
      BY <2>1 DEF CountersGrow
    <3>2. h \in [CPU -> Nat]
      BY RatesAssumption
    <3> QED BY <1>1, <3>1, <3>2
  <2>2. CASE ~Runs({"intr"})
    BY <1>1, <2>2 DEF CountersGrow
  <2> QED BY <2>1, <2>2
<1> QED BY <1>4, <1>5 DEF CountersGrow, main, readings

\* The place is kept.
LEMMA RatesPlaceNext ==
    ASSUME RatesPlace, [RatesNext]_<<main, ratesVars>>
    PROVE  RatesPlace'
<1> USE DEF RatesPlace, GiveUp, Exit, Goto, main, kernel, readings, ratesVars, Judged
<1>0. /\ opt' = opt /\ listed' = listed
      /\ \A S : Runs(S)' <=> Runs(S)
      /\ RatesBadOptions' <=> RatesBadOptions
  BY SameOptions, Zenon
<1>1. CASE RatesParseOptions
  BY <1>0, <1>1 DEF RatesParseOptions
<1>2. CASE ReadCounter
  <2>1. RatesBadOptions' <=> RatesBadOptions
    BY <1>0
  <2>2. /\ UNCHANGED <<opt, stat, irq, online, listed, plugged, seen, vintr, ncpus>>
        /\ DOMAIN buf' = DOMAIN buf /\ tog' \in {0, 1}
        /\ pc = "read" /\ pc' \in {"read", "count", "judge", "exited"}
        /\ pc' = "count" => Runs({"intr"})
        /\ pc' # "exited" => exit' = exit
        /\ ~Judged'
    BY <1>2 DEF ReadCounter, Loop, STATE_UNKNOWN, RUNNING, Statuses
  <2> QED BY <1>0, <2>1, <2>2
<1>3. CASE CountOnline
  <2>1. Cardinality(online) \in Nat
    BY RatesConstants
  <2>2. /\ UNCHANGED <<opt, stat, irq, online, listed, plugged, seen, vintr, buf, tog>>
        /\ ncpus' \in [{0, 1} -> Nat]
        /\ pc = "count" /\ pc' \in {"columns", "read", "judge"} /\ exit' = exit /\ ~Judged'
    BY <1>3, <2>1 DEF CountOnline, Loop
  <2> QED BY <1>0, <2>2
<1>4. CASE ReadColumns
  <2>1. /\ UNCHANGED <<opt, stat, irq, online, listed, plugged, ncpus, buf, tog>>
        /\ DOMAIN vintr' = DOMAIN vintr /\ DOMAIN seen' = DOMAIN seen
        /\ pc = "columns" /\ pc' \in {"read", "judge"} /\ exit' = exit /\ ~Judged'
    BY <1>4 DEF ReadColumns, See, Loop
  <2> QED BY <1>0, <2>1
<1>5. CASE ReadVmem
  <2>1. /\ UNCHANGED <<opt, stat, irq, online, listed, plugged, ncpus, vintr>>
        /\ DOMAIN buf' = DOMAIN buf /\ DOMAIN seen' = DOMAIN seen /\ tog' \in {0, 1}
        /\ pc = "read" /\ pc' \in {"read", "judge", "exited"} /\ ~Judged'
        /\ pc' # "exited" => exit' = exit
    BY <1>5 DEF ReadVmem, See
  <2> QED BY <1>0, <2>1
<1>6. ASSUME NEW line, NEW next, ReadPressure(line, next), pc \in {"read", "full"},
             next \in {"read", "judge"} \/ (next = "full" /\ Runs({"pressure"}) /\ opt.resource # "cpu")
      PROVE  RatesPlace'
  <2>1. /\ UNCHANGED <<opt, stat, irq, online, listed, plugged, ncpus, vintr>>
        /\ DOMAIN buf' = DOMAIN buf /\ DOMAIN seen' = DOMAIN seen /\ tog' \in {0, 1}
        /\ pc' \in {next, "exited"} /\ ~Judged' /\ (pc' # "exited" => exit' = exit)
    BY <1>6 DEF ReadPressure, See
  <2> QED BY <1>0, <1>6, <2>1
<1>7. CASE ReadSome
  <2>1. AfterPair \in {"read", "judge"}
    BY DEF AfterPair
  <2> QED BY <1>6, <1>7, <2>1 DEF ReadSome
<1>8. CASE ReadFull
  <2>1. AfterPair \in {"read", "judge"}
    BY DEF AfterPair
  <2> QED BY <1>6, <1>8, <2>1 DEF ReadFull
<1>9. CASE JudgeRate
  BY <1>0, <1>9 DEF JudgeRate
<1>10. CASE CountersGrow
  <2>1. /\ stat' \in [Stats -> Nat] /\ irq' \in [CPU -> Nat] /\ stat'["full"] <= stat'["some"]
        /\ UNCHANGED <<pc, opt, exit, online, listed, plugged, i, tog, buf, vintr, ncpus, seen>>
    BY <1>10, GrowthOfCounters, Zenon
  <2> QED BY <1>0, <2>1
<1>11. CASE Hotplug
  <2>1. /\ UNCHANGED <<pc, opt, exit, stat, irq, listed, tog, buf, vintr, ncpus, seen>>
        /\ online' \subseteq CPU /\ plugged' = plugged + 1
    BY <1>11 DEF Hotplug
  <2> QED BY <1>0, <2>1
<1>12. CASE UNCHANGED <<main, ratesVars>>
  BY <1>0, <1>12
<1> QED BY <1>1, <1>2, <1>3, <1>4, <1>5, <1>7, <1>8, <1>9, <1>10, <1>11, <1>12 DEF RatesNext, RatesPlugin

\* The counter of check_cswch and check_intr.
LEMMA PatternCounts == Pattern \in Stats /\ Pattern \in {"ctxt", "intr"}
BY RatesConstants DEF Pattern

\* The readings of check_cswch and check_intr stay in order.
LEMMA CountedNext ==
    ASSUME RatesPlace, Runs({"cswch", "intr"}), Counted, [RatesNext]_<<main, ratesVars>>
    PROVE  Counted'
<1> USE DEF Counted, GiveUp, Exit, Goto, main, kernel, readings, ratesVars, Judged
<1>0. /\ tog \in {0, 1} /\ DOMAIN buf = {0, 1} /\ stat \in [Stats -> Nat]
      /\ Pattern \in Stats /\ Pattern' = Pattern
      /\ pc # "exited" => exit = RUNNING
      /\ ~Runs({"paging"}) /\ ~Runs({"pressure"})
      /\ opt.program \in RatesPrograms
  <2>1. Pattern' = Pattern /\ Pattern \in Stats
    BY SameOptions, PatternCounts, Zenon DEF Pattern
  <2> QED BY <2>1, RatesConstants DEF RatesPlace, Runs
<1>1. CASE RatesParseOptions
  BY <1>0, <1>1 DEF RatesParseOptions, STATE_UNKNOWN, Statuses
<1>2. CASE ReadCounter
  <2>1. CASE Pattern \notin listed
    BY <1>0, <1>2, <2>1 DEF ReadCounter
  <2>2. CASE Pattern \in listed
    <3> DEFINE t == IF i = 0 THEN 0 ELSE 1 - tog
    <3>1. /\ buf' = [buf EXCEPT ![t] = stat[Pattern]] /\ tog' = t /\ i' = i + 1 /\ stat' = stat
          /\ pc' \in {"read", "judge", "count"} /\ exit' = exit /\ pc = "read"
      BY <1>2, <2>2 DEF ReadCounter, Loop
    <3>2. t \in {0, 1} /\ i \in Nat /\ (i = 0 => t = 0) /\ (i >= 1 => t = 1 - tog)
      BY <1>0
    <3>3. 1 - t \in {0, 1} /\ 1 - t # t /\ (i >= 1 => 1 - t = tog)
      BY <1>0, <3>2
    <3> HIDE DEF t
    <3>4. buf'[t] = stat[Pattern] /\ buf'[1 - t] = buf[1 - t]
      BY <1>0, <3>1, <3>2, <3>3
    <3>5. stat[Pattern] \in Nat /\ stat'[Pattern'] = stat[Pattern]
      BY <1>0, <3>1
    <3>6. i = 0 => t = 0 /\ buf'[1] = buf[1] /\ i' = 1
      BY <3>1, <3>2, <3>4
    <3>7. i >= 1 => i' >= 2
      BY <3>1, <3>2
    <3>8. i = 0 \/ i >= 1
      BY <3>2
    <3> QED BY <1>0, <3>1, <3>2, <3>3, <3>4, <3>5, <3>6, <3>7, <3>8
  <2> QED BY <2>1, <2>2
<1>3. CASE CountOnline
  BY <1>0, <1>3 DEF CountOnline, Loop
<1>4. CASE ReadColumns
  BY <1>0, <1>4 DEF ReadColumns, Loop
<1>5. CASE JudgeRate
  BY <1>0, <1>5 DEF JudgeRate
<1>6. CASE CountersGrow
  <2>1. /\ stat' \in [Stats -> Nat] /\ stat[Pattern] <= stat'[Pattern]
        /\ UNCHANGED <<pc, opt, exit, i, tog, buf>>
    BY <1>0, <1>6, GrowthOfCounters, Zenon
  <2>2. stat'[Pattern] \in Nat /\ stat[Pattern] \in Nat
    BY <1>0, <2>1
  <2> QED BY <1>0, <2>1, <2>2
<1>7. CASE Hotplug
  BY <1>0, <1>7 DEF Hotplug
<1>8. CASE UNCHANGED <<main, ratesVars>>
  BY <1>0, <1>8
<1>9. ~ReadVmem /\ ~ReadSome /\ ~ReadFull
  BY <1>0 DEF ReadVmem, ReadSome, ReadFull, RatesPlace
<1> QED BY <1>1, <1>2, <1>3, <1>4, <1>5, <1>6, <1>7, <1>8, <1>9 DEF RatesNext, RatesPlugin

\* The readings of check_paging are what the kernel had.
LEMMA VmemReadNext ==
    ASSUME RatesPlace, Runs({"paging"}), VmemRead, [RatesNext]_<<main, ratesVars>>
    PROVE  VmemRead'
<1> USE DEF VmemRead, GiveUp, Exit, Goto, main, kernel, readings, ratesVars, Judged
<1>0. /\ tog \in {0, 1} /\ DOMAIN buf = {0, 1} /\ DOMAIN seen = {0, 1} /\ stat \in [Stats -> Nat]
      /\ pc # "exited" => exit = RUNNING
      /\ ~Runs({"cswch", "intr"}) /\ ~Runs({"intr"}) /\ ~Runs({"pressure"})
      /\ pc \notin {"count", "columns", "full"}
      /\ listed' = listed
  BY RatesConstants, SameOptions DEF RatesPlace, Runs
<1>1. CASE RatesParseOptions
  BY <1>0, <1>1 DEF RatesParseOptions, STATE_UNKNOWN, Statuses
<1>2. CASE ReadVmem
  <2>1. CASE "vmstat" \notin listed
    BY <1>0, <1>2, <2>1 DEF ReadVmem
  <2>2. CASE "vmstat" \in listed
    <3>1. PICK r : r = proc_vmem_read(stat, listed)
      OBVIOUS
    <3>2. PICK k : k = [stat |-> stat, irq |-> irq, online |-> online]
      OBVIOUS
    <3>3. /\ buf' = [buf EXCEPT ![tog] = r] /\ seen' = [seen EXCEPT ![tog] = k]
          /\ tog' = 1 - tog /\ i' = i + 1 /\ stat' = stat
          /\ pc' = (IF i + 1 < 2 THEN "read" ELSE "judge") /\ pc = "read" /\ exit' = exit
      BY <1>2, <2>2, <3>1, <3>2 DEF ReadVmem, See
    <3>4. k.stat = stat
      BY <3>2
    <3>5. CASE i = 0
      <4>1. i' = 1 /\ tog' = 1 /\ buf'[0] = r /\ buf'[1] = NULL /\ seen'[0] = k
        BY <1>0, <3>3, <3>5
      <4>2. \A b \in {0, 1} : b < i' => b = 0
        BY <4>1
      <4>3. \A b \in {0, 1} : b < i' => /\ seen'[b].stat \in [Stats -> Nat]
                                        /\ buf'[b] = proc_vmem_read(seen'[b].stat, listed')
        BY <1>0, <3>1, <3>4, <4>1, <4>2
      <4> QED BY <1>0, <3>3, <3>5, <4>1, <4>3
    <3>6. CASE i = 1
      <4>1. i' = 2 /\ buf'[0] = buf[0] /\ buf'[1] = r /\ seen'[0] = seen[0] /\ seen'[1] = k
        BY <1>0, <3>3, <3>6
      <4>3. \A b \in {0, 1} : /\ seen'[b].stat \in [Stats -> Nat]
                              /\ buf'[b] = proc_vmem_read(seen'[b].stat, listed')
        BY <1>0, <3>1, <3>4, <3>6, <4>1
      <4> QED BY <1>0, <3>3, <3>6, <4>1, <4>3
    <3> QED BY <3>3, <3>5, <3>6
  <2> QED BY <2>1, <2>2
<1>5. CASE JudgeRate
  BY <1>0, <1>5 DEF JudgeRate
<1>6. CASE CountersGrow
  BY <1>0, <1>6 DEF CountersGrow
<1>8. CASE UNCHANGED <<main, ratesVars>>
  BY <1>0, <1>8
<1>9. ~ReadCounter /\ ~CountOnline /\ ~ReadColumns /\ ~ReadSome /\ ~ReadFull /\ ~Hotplug
  BY <1>0 DEF ReadCounter, CountOnline, ReadColumns, ReadSome, ReadFull, Hotplug
<1> QED BY <1>1, <1>2, <1>5, <1>6, <1>8, <1>9 DEF RatesNext, RatesPlugin

\* What a line of a file of pressures does to a buffer.
LEMMA LineRead ==
    ASSUME NEW value \in Nat
    PROVE  /\ [NoReading EXCEPT !["some"] = value] = [some |-> value, full |-> NULL]
           /\ \A r \in PressureReading :
                 [r EXCEPT !["full"] = value] = [some |-> r.some, full |-> value]
           /\ NULL \notin PressureReading
           /\ [some |-> value, full |-> NULL] \in PressureReading
           /\ \A r \in PressureReading : [some |-> r.some, full |-> value] \in PressureReading
BY RatesAssumption DEF NoReading, PressureReading

\* Reading "some".
LEMMA SomeIsRead ==
    ASSUME RatesPlace, Runs({"pressure"}), PressureRead, ReadSome
    PROVE  PressureRead'
<1> USE DEF GiveUp, Exit, Goto, main, kernel, readings, ratesVars, Judged
<1>0. /\ tog \in {0, 1} /\ DOMAIN buf = {0, 1} /\ DOMAIN seen = {0, 1}
      /\ stat \in [Stats -> Nat] /\ stat["full"] <= stat["some"]
      /\ stat["full"] \in Nat /\ stat["some"] \in Nat
      /\ pc = "read" /\ exit = RUNNING /\ opt' = opt
  BY RatesConstants, SameOptions DEF RatesPlace, ReadSome, RatesNext, RatesPlugin
<1>1. CASE Files[opt.resource] \notin listed
  <2>1. pc' = "exited" /\ exit' = STATE_UNKNOWN
    BY <1>1 DEF ReadSome, ReadPressure
  <2> QED BY <2>1 DEF PressureRead
<1>2. CASE Files[opt.resource] \in listed
  <2> DEFINE next == IF opt.resource = "cpu" THEN AfterPair ELSE "full"
             r == [some |-> stat["some"], full |-> NULL]
             k == [stat |-> stat, irq |-> irq, online |-> online]
  <2>1. buf[tog] = NULL /\ (tog = 1 => PairRead(0) /\ Stalled) /\ (tog = 0 => buf[1] = NULL)
    BY <1>0 DEF PressureRead
  <2>2. r \in PressureReading /\ r.some = stat["some"] /\ r.full = NULL
    BY <1>0, LineRead
  <2>3. k.stat = stat
    OBVIOUS
  <2>4. /\ buf' = [buf EXCEPT ![tog] = r] /\ seen' = [seen EXCEPT ![tog] = k]
        /\ tog' = (IF next = "full" THEN tog ELSE 1) /\ pc' = next
        /\ stat' = stat /\ exit' = exit
    BY <1>0, <1>2, <2>1, LineRead DEF ReadSome, ReadPressure, See
  <2> HIDE DEF r, k
  <2>5. buf'[tog] = r /\ buf'[1 - tog] = buf[1 - tog] /\ seen'[tog] = k
        /\ seen'[1 - tog] = seen[1 - tog]
    BY <1>0, <2>4
  <2>6. CASE tog = 0
    <3>1. buf'[0] = r /\ buf'[1] = NULL /\ seen'[0] = k
      BY <2>1, <2>5, <2>6
    <3>2. Stalled'
      BY <1>0, <2>2, <2>3, <2>4, <3>1 DEF Stalled
    <3>3. CASE opt.resource = "cpu"
      <4>1. pc' = "read" /\ tog' = 1
        BY <2>4, <2>6, <3>3 DEF AfterPair
      <4>2. PairRead(0)'
        BY <1>0, <2>2, <3>1, <3>3 DEF PairRead
      <4> QED BY <1>0, <2>4, <3>1, <3>2, <4>1, <4>2 DEF PressureRead
    <3>4. CASE opt.resource # "cpu"
      <4>1. pc' = "full" /\ tog' = 0
        BY <2>4, <2>6, <3>4 DEF AfterPair
      <4>2. SomeRead(0)'
        BY <1>0, <2>2, <3>1, <3>4 DEF SomeRead
      <4> QED BY <1>0, <2>4, <3>1, <3>2, <4>1, <4>2 DEF PressureRead
    <3> QED BY <3>3, <3>4
  <2>7. CASE tog = 1
    <3>1. buf'[1] = r /\ buf'[0] = buf[0] /\ seen'[0] = seen[0]
      BY <2>1, <2>5, <2>7
    <3>2. Stalled' /\ PairRead(0)'
      BY <1>0, <2>1, <2>4, <2>7, <3>1 DEF Stalled, PairRead
    <3>3. CASE opt.resource = "cpu"
      <4>1. pc' = "judge" /\ tog' = 1
        BY <2>4, <2>7, <3>3 DEF AfterPair
      <4>2. PairRead(1)'
        BY <1>0, <2>2, <3>1, <3>3 DEF PairRead
      <4> QED BY <1>0, <2>4, <3>1, <3>2, <4>1, <4>2 DEF PressureRead
    <3>4. CASE opt.resource # "cpu"
      <4>1. pc' = "full" /\ tog' = 1
        BY <2>4, <2>7, <3>4 DEF AfterPair
      <4>2. SomeRead(1)'
        BY <1>0, <2>2, <3>1, <3>4 DEF SomeRead
      <4> QED BY <1>0, <2>4, <3>1, <3>2, <4>1, <4>2 DEF PressureRead
    <3> QED BY <3>3, <3>4
  <2> QED BY <1>0, <2>6, <2>7
<1> QED BY <1>1, <1>2

\* Reading "full".
LEMMA FullIsRead ==
    ASSUME RatesPlace, Runs({"pressure"}), PressureRead, ReadFull
    PROVE  PressureRead'
<1> USE DEF GiveUp, Exit, Goto, main, kernel, readings, ratesVars, Judged
<1>0. /\ tog \in {0, 1} /\ DOMAIN buf = {0, 1} /\ DOMAIN seen = {0, 1}
      /\ stat \in [Stats -> Nat] /\ stat["full"] <= stat["some"]
      /\ stat["full"] \in Nat /\ stat["some"] \in Nat
      /\ pc = "full" /\ exit = RUNNING /\ opt' = opt /\ opt.resource # "cpu"
  BY RatesConstants, SameOptions DEF RatesPlace, ReadFull, RatesNext, RatesPlugin
<1>1. CASE Files[opt.resource] \notin listed
  <2>1. pc' = "exited" /\ exit' = STATE_UNKNOWN
    BY <1>1 DEF ReadFull, ReadPressure
  <2> QED BY <2>1 DEF PressureRead
<1>2. CASE Files[opt.resource] \in listed
  <2> DEFINE r == [some |-> buf[tog].some, full |-> stat["full"]]
  <2>1. /\ SomeRead(tog) /\ Stalled /\ (tog = 1 => PairRead(0))
        /\ (tog = 0 => buf[1] = NULL)
    BY <1>0 DEF PressureRead
  <2>2. r \in PressureReading /\ r.some \in Nat /\ r.full = stat["full"] /\ buf[tog] # NULL
    BY <1>0, <2>1, LineRead DEF SomeRead
  <2>4. /\ buf' = [buf EXCEPT ![tog] = r] /\ seen' = seen
        /\ tog' = 1 /\ pc' = AfterPair /\ stat' = stat /\ exit' = exit
    BY <1>0, <1>2, <2>1, <2>2, LineRead DEF ReadFull, ReadPressure, SomeRead, AfterPair
  <2> HIDE DEF r
  <2>5. buf'[tog] = r /\ buf'[1 - tog] = buf[1 - tog]
    BY <1>0, <2>4
  <2>6. CASE tog = 0
    <3>1. buf'[0] = r /\ buf'[1] = NULL
      BY <2>1, <2>5, <2>6
    <3>2. Stalled'
      BY <1>0, <2>1, <2>2, <2>4, <3>1 DEF Stalled
    <3>3. pc' = "read" /\ PairRead(0)'
      BY <1>0, <2>2, <2>4, <2>6, <3>1 DEF PairRead, AfterPair
    <3> QED BY <1>0, <2>4, <3>1, <3>2, <3>3 DEF PressureRead
  <2>7. CASE tog = 1
    <3>1. buf'[1] = r /\ buf'[0] = buf[0]
      BY <2>1, <2>5, <2>7
    <3>2. Stalled' /\ PairRead(0)'
      BY <1>0, <2>1, <2>4, <2>7, <3>1 DEF Stalled, PairRead
    <3>3. pc' = "judge" /\ PairRead(1)'
      BY <1>0, <2>2, <2>4, <2>7, <3>1 DEF PairRead, AfterPair
    <3> QED BY <1>0, <2>4, <3>1, <3>2, <3>3 DEF PressureRead
  <2> QED BY <1>0, <2>6, <2>7
<1> QED BY <1>1, <1>2

\* The pressures are read in order, whatever the kernel does meanwhile.
LEMMA PressureReadNext ==
    ASSUME RatesPlace, Runs({"pressure"}), PressureRead, [RatesNext]_<<main, ratesVars>>
    PROVE  PressureRead'
<1> USE DEF GiveUp, Exit, Goto, main, kernel, readings, ratesVars, Judged
<1>0. /\ stat \in [Stats -> Nat] /\ "full" \in Stats /\ "some" \in Stats
      /\ pc # "exited" => exit = RUNNING
      /\ ~Runs({"cswch", "intr"}) /\ ~Runs({"intr"}) /\ ~Runs({"paging"})
      /\ pc \notin {"count", "columns"}
      /\ opt' = opt
  BY RatesConstants, SameOptions DEF RatesPlace, Runs
<1>1. CASE RatesParseOptions
  BY <1>0, <1>1 DEF RatesParseOptions, STATE_UNKNOWN, Statuses, PressureRead
<1>2. CASE JudgeRate
  <2>1. /\ UNCHANGED <<tog, buf, seen, stat>> /\ pc = "judge" /\ pc' = "exited"
    BY <1>2 DEF JudgeRate
  <2>2. tog = 1 /\ PairRead(0) /\ PairRead(1) /\ Stalled
    BY <2>1 DEF PressureRead
  <2>3. PairRead(0)' /\ PairRead(1)' /\ Stalled'
    BY <1>0, <2>1, <2>2 DEF PairRead, Stalled
  <2> QED BY <2>1, <2>2, <2>3 DEF PressureRead
<1>3. CASE CountersGrow
  <2>1. /\ stat' \in [Stats -> Nat] /\ stat["full"] <= stat'["full"]
        /\ stat'["full"] - stat["full"] <= stat'["some"] - stat["some"]
        /\ UNCHANGED <<pc, opt, exit, tog, buf, seen>>
    BY <1>0, <1>3, GrowthOfCounters, Zenon
  <2>2. \A b \in {0, 1} : (PairRead(b) => PairRead(b)') /\ (SomeRead(b) => SomeRead(b)')
    <3> SUFFICES ASSUME NEW b \in {0, 1}
                 PROVE  (PairRead(b) => PairRead(b)') /\ (SomeRead(b) => SomeRead(b)')
      BY Zenon
    <3> DEFINE x == stat["full"]
               y == stat'["full"]
               z == buf[b].full
    <3>1. x \in Nat /\ y \in Nat /\ x <= y /\ buf' = buf /\ opt' = opt
      BY <1>0, <2>1
    <3>2. z \in Nat /\ z <= x => z <= y
      <4> HIDE DEF x, y, z
      <4> QED BY <3>1
    <3> QED BY <3>1, <3>2 DEF PairRead, SomeRead
  <2>3. Stalled => Stalled'
    <3> SUFFICES ASSUME Stalled PROVE Stalled'
      OBVIOUS
    <3> DEFINE x == stat["full"]
               y == stat'["full"]
               u == stat["some"]
               v == stat'["some"]
               a == seen[0].stat["full"]
               c == seen[0].stat["some"]
    <3>1. /\ x \in Nat /\ y \in Nat /\ u \in Nat /\ v \in Nat /\ a \in Nat /\ c \in Nat
          /\ x <= y /\ y - x <= v - u /\ a <= x /\ x - a <= u - c
      BY <1>0, <2>1 DEF Stalled
    <3>2. a <= y /\ y - a <= v - c
      <4> HIDE DEF x, y, u, v, a, c
      <4> QED BY <3>1
    <3>3. UNCHANGED <<seen, buf>>
      BY <2>1
    <3> QED BY <3>2, <3>3 DEF Stalled
  <2>4. UNCHANGED <<pc, tog, buf, exit>>
    BY <2>1
  <2> QED BY <2>2, <2>3, <2>4 DEF PressureRead
<1>4. CASE UNCHANGED <<main, ratesVars>>
  <2>1. UNCHANGED <<pc, exit, opt, tog, buf, seen, stat>>
    BY <1>4
  <2> QED BY <2>1 DEF PressureRead, PairRead, SomeRead, Stalled
<1>5. ~ReadCounter /\ ~CountOnline /\ ~ReadColumns /\ ~ReadVmem /\ ~Hotplug
  BY <1>0 DEF ReadCounter, CountOnline, ReadColumns, ReadVmem, Hotplug
<1> QED BY <1>1, <1>2, <1>3, <1>4, <1>5, SomeIsRead, FullIsRead DEF RatesNext, RatesPlugin

\* Which snapshot follows a reading.
LEMMA SnapshotIs ==
    ASSUME NEW k \in Nat, opt.count \in Int, SnapshotAfter(k) # {}
    PROVE  LET snapshot == CHOOSE b \in SnapshotAfter(k) : TRUE
           IN \/ snapshot = 0 /\ (opt.count <= 1 \/ k + 1 = opt.count - 1)
              \/ snapshot = 1 /\ opt.count >= 2 /\ k + 1 = opt.count
<1> DEFINE b == CHOOSE x \in SnapshotAfter(k) : TRUE
<1>1. b \in SnapshotAfter(k)
  OBVIOUS
<1> HIDE DEF b
<1>2. \/ b = 0 /\ (opt.count <= 1 \/ k + 1 = opt.count - 1)
      \/ b = 1 /\ opt.count >= 2 /\ k + 1 = opt.count
  BY <1>1 DEF SnapshotAfter
<1> QED BY <1>2 DEF b

\* A snapshot stays what it is while the counts grow and the CPUs come and go.
LEMMA ShownKept ==
    ASSUME NEW b \in {0, 1}, Shown(b), vintr'[b] = vintr[b], seen'[b] = seen[b], ncpus'[b] = ncpus[b],
           irq \in [CPU -> Nat], irq' \in [CPU -> Nat], \A c \in CPU : irq[c] <= irq'[c],
           plugged' = 0 => plugged = 0
    PROVE  Shown(b)'
<1>1. PICK v : v = vintr[b]
  OBVIOUS
<1>2. PICK n : n = ncpus[b]
  OBVIOUS
<1>3. PICK s : s = seen[b].irq
  OBVIOUS
<1>4. /\ DOMAIN v = 0 .. n - 1
      /\ s \in [CPU -> Nat] /\ \A c \in CPU : s[c] <= irq[c]
      /\ plugged = 0 => \A x \in 0 .. n - 1 : v[x] = Column(s, x)
  BY <1>1, <1>2, <1>3 DEF Shown
<1>5. \A c \in CPU : s[c] <= irq'[c]
  BY <1>4
<1>6. vintr'[b] = v /\ ncpus'[b] = n /\ seen'[b].irq = s
  BY <1>1, <1>2, <1>3
<1> QED BY <1>4, <1>5, <1>6, Zenon DEF Shown

\* While only the counts grow and the CPUs come and go, the snapshots stay in order.
LEMMA SnappedKept ==
    ASSUME RatesPlace, Snapped, UNCHANGED <<opt, i, tog, buf, vintr, ncpus, seen>>,
           pc' = pc \/ (pc \notin {"columns"} /\ pc' \notin {"read", "count", "columns"})
                    \/ (pc # "columns" /\ pc' = "read" /\ (i = 0 \/ i < opt.count)),
           irq' \in [CPU -> Nat], \A c \in CPU : irq[c] <= irq'[c],
           stat'["intr"] \in Nat, stat["intr"] \in Nat, stat["intr"] <= stat'["intr"],
           plugged' = 0 => plugged = 0
    PROVE  Snapped'
<1>1. irq \in [CPU -> Nat]
  BY DEF RatesPlace
<1>2. \A b \in {0, 1} : Shown(b) => Shown(b)'
  BY <1>1, ShownKept
<1>3. Snapshot' = Snapshot
  BY DEF Snapshot, SnapshotAfter
<1>4. \A b \in {0, 1} : Made(b)' <=> Made(b)
  BY <1>3 DEF Made, Pending
<1>5. BetweenReadings => BetweenReadings'
  <2>1. PICK t : t = seen[0].stat["intr"]
    OBVIOUS
  <2>2. t \in Nat /\ t <= stat["intr"] => t <= stat'["intr"]
    <3>1. PICK x : x = stat["intr"]
      OBVIOUS
    <3>2. PICK y : y = stat'["intr"]
      OBVIOUS
    <3> QED BY <3>1, <3>2
  <2> QED BY <2>1, <2>2 DEF BetweenReadings
<1>6. SnapshotAfter(i - 1)' = SnapshotAfter(i - 1)
  BY DEF SnapshotAfter
<1> QED BY <1>2, <1>3, <1>4, <1>5, <1>6 DEF Snapped

\* A reading of the total follows the first snapshot.
LEMMA SnappedReading ==
    ASSUME RatesPlace, Runs({"intr"}), Counted, Snapped, ReadCounter
    PROVE  Snapped'
<1> USE DEF GiveUp, Exit, Goto, main, kernel, readings, ratesVars
<1>0. /\ tog \in {0, 1} /\ DOMAIN buf = {0, 1} /\ stat \in [Stats -> Nat] /\ irq \in [CPU -> Nat]
      /\ Pattern = "intr" /\ "intr" \in Stats /\ pc = "read" /\ i \in Nat
      /\ opt.count \in Int /\ Runs({"cswch", "intr"}) /\ ~Runs({"cswch"})
  BY RatesConstants, RatesAssumption DEF RatesPlace, Counted, ReadCounter, Pattern, Runs, RatesCommandLine
<1>1. CASE Pattern \notin listed
  <2>1. UNCHANGED <<opt, i, tog, buf, vintr, ncpus, seen, irq, stat, plugged>> /\ pc' = "exited"
    BY <1>1 DEF ReadCounter
  <2>2. stat["intr"] \in Nat /\ \A c \in CPU : irq[c] \in Nat
    BY <1>0
  <2>3. stat["intr"] <= stat'["intr"] /\ \A c \in CPU : irq[c] <= irq'[c]
    BY <2>1, <2>2
  <2> QED BY <1>0, <2>1, <2>2, <2>3, SnappedKept
<1>2. CASE Pattern \in listed
  <2> DEFINE t == IF i = 0 THEN 0 ELSE 1 - tog
  <2>1. /\ buf' = [buf EXCEPT ![t] = stat["intr"]] /\ tog' = t /\ i' = i + 1
        /\ pc' = (IF SnapshotAfter(i) # {} THEN "count" ELSE Loop(i + 1))
        /\ UNCHANGED <<opt, vintr, ncpus, seen, stat, irq, plugged>>
    BY <1>0, <1>2 DEF ReadCounter
  <2>2. /\ pc' = "count" => SnapshotAfter(i) # {}
        /\ pc' = "read" => i + 1 < opt.count
        /\ pc' # "columns"
    BY <2>1 DEF Loop
  <2>3. SnapshotAfter(i - 1)' = SnapshotAfter(i)
    <3>1. i' - 1 = i
      BY <1>0, <2>1
    <3> QED BY <2>1, <3>1 DEF SnapshotAfter
  <2>4. \A b \in {0, 1} : (Made(b) <=> ncpus[b] > 0) /\ (Made(b)' <=> ncpus[b] > 0)
    BY <1>0, <2>1, <2>2 DEF Made, Pending
  <2>5. \A b \in {0, 1} : Shown(b) => Shown(b)'
    <3>1. \A c \in CPU : irq[c] <= irq'[c]
      BY <1>0, <2>1
    <3> QED BY <1>0, <2>1, <3>1, ShownKept
  <2>6. ncpus[1] > 0 => FALSE
    BY <1>0 DEF Snapped
  <2>7. BetweenReadings => BetweenReadings'
    <3> SUFFICES ASSUME BetweenReadings PROVE BetweenReadings'
      OBVIOUS
    <3> DEFINE total == seen[0].stat["intr"]
               now == stat["intr"]
               last == buf[tog]
    <3>1. /\ i >= 1 /\ total \in Nat /\ total <= now /\ now \in Nat
          /\ opt.count >= 2 => i = opt.count - 1 /\ last <= total
      BY <1>0 DEF BetweenReadings, Snapped
    <3>2. t \in {0, 1} /\ 1 - t = tog /\ t # tog
      BY <1>0, <3>1
    <3>3. buf'[tog'] = now /\ buf'[1 - tog'] = last /\ seen'[0].stat["intr"] = total
          /\ stat'["intr"] = now /\ opt' = opt
      <4> HIDE DEF t
      <4> QED BY <1>0, <2>1, <3>2
    <3>4. i' >= 1 /\ (opt.count >= 2 => i' = opt.count)
      BY <1>0, <2>1, <3>1
    <3> HIDE DEF total, now, last
    <3> QED BY <3>1, <3>3, <3>4 DEF BetweenReadings
  <2>8. /\ pc' = "read" => i' = 0 \/ i' < opt.count
        /\ UNCHANGED <<ncpus, plugged, seen, opt>>
    BY <2>1, <2>2
  <2> QED BY <2>2, <2>3, <2>4, <2>5, <2>6, <2>7, <2>8, Zenon DEF Snapped
<1> QED BY <1>1, <1>2

\* The columns of a snapshot are counted.
LEMMA SnappedOnline ==
    ASSUME RatesPlace, Runs({"intr"}), Counted, Snapped, CountOnline
    PROVE  Snapped'
<1> USE DEF GiveUp, Exit, Goto, main, kernel, readings, ratesVars
<1>0. /\ stat \in [Stats -> Nat] /\ irq \in [CPU -> Nat] /\ "intr" \in Stats
      /\ pc = "count" /\ i \in Nat /\ i >= 1 /\ opt.count \in Int /\ ncpus \in [{0, 1} -> Nat]
      /\ online \subseteq CPU /\ (plugged = 0 => online = CPU) /\ Cardinality(online) \in Nat
      /\ SnapshotAfter(i - 1) # {}
  BY RatesConstants, RatesAssumption DEF RatesPlace, Counted, Snapped, CountOnline, Runs, RatesCommandLine
<1>1. stat["intr"] \in Nat /\ stat["intr"] <= stat["intr"] /\ \A c \in CPU : irq[c] <= irq[c]
  BY <1>0
<1>2. CASE "interrupts" \notin listed
  <2>1. UNCHANGED <<opt, i, tog, buf, vintr, ncpus, seen, irq, stat, plugged>> /\ pc' = Loop(i)
    BY <1>2 DEF CountOnline
  <2> QED BY <1>0, <1>1, <2>1, SnappedKept DEF Loop
<1>3. CASE "interrupts" \in listed
  <2>1. /\ ncpus' = [ncpus EXCEPT ![Snapshot] = Cardinality(online)] /\ pc' = "columns"
        /\ UNCHANGED <<opt, i, tog, buf, vintr, seen, irq, stat, plugged>>
    BY <1>3 DEF CountOnline
  <2>2. \/ Snapshot = 0 /\ (opt.count <= 1 \/ i = opt.count - 1)
        \/ Snapshot = 1 /\ opt.count >= 2 /\ i = opt.count
    <3>1. i - 1 \in Nat /\ (i - 1) + 1 = i
      BY <1>0
    <3> QED BY <1>0, <3>1, SnapshotIs DEF Snapshot
  <2>3. Snapshot' = Snapshot /\ SnapshotAfter(i - 1)' = SnapshotAfter(i - 1)
    BY <2>1 DEF Snapshot, SnapshotAfter
  <2>4. \A b \in {0, 1} : Made(b)' => Made(b) /\ b # Snapshot /\ ncpus'[b] = ncpus[b]
    BY <1>0, <2>1, <2>3 DEF Made, Pending
  <2>5. \A b \in {0, 1} : Made(b)' => Shown(b)'
    <3> SUFFICES ASSUME NEW b \in {0, 1}, Made(b)' PROVE Shown(b)'
      BY Zenon
    <3>1. Shown(b) /\ ncpus'[b] = ncpus[b]
      BY <2>4 DEF Snapped
    <3>2. vintr'[b] = vintr[b] /\ seen'[b] = seen[b] /\ irq' = irq /\ plugged' = plugged
      BY <2>1
    <3> QED BY <1>0, <1>1, <3>1, <3>2, ShownKept
  <2>6. \A b \in {0, 1} : ncpus'[b] > 0 /\ plugged' = 0 => ncpus'[b] = Cardinality(CPU)
    BY <1>0, <2>1, <2>2 DEF Snapped
  <2>7. ncpus'[1] > 0 => opt.count >= 2 /\ i = opt.count
    BY <1>0, <2>1, <2>2 DEF Snapped
  <2>8. Made(0)' => BetweenReadings'
    <3>1. BetweenReadings' <=> BetweenReadings
      BY <2>1 DEF BetweenReadings
    <3> QED BY <2>4, <3>1 DEF Snapped
  <2>9. Made(0)' /\ Made(1)' => \A c \in CPU : seen[0].irq[c] <= seen[1].irq[c]
    BY <2>4 DEF Snapped
  <2>10. pc' = "columns" /\ UNCHANGED <<opt, i, seen>>
    BY <2>1
  <2> QED BY <1>0, <2>3, <2>5, <2>6, <2>7, <2>8, <2>9, <2>10, Zenon DEF Snapped
<1> QED BY <1>2, <1>3

\* When all the CPUs are online, the column of a CPU is that of its rank.
LEMMA ColumnsAreRanked ==
    ASSUME RatesPlace, online = CPU, NEW n \in Nat
    PROVE  CpuOf(n) = Ranked(n) /\ strtoul(n) = Column(irq, n)
<1>1. CpuOf(n) = Ranked(n)
  BY DEF CpuOf, Ranked
<1> QED BY <1>1 DEF strtoul, Column

\* The columns of a snapshot are read.
LEMMA SnappedColumns ==
    ASSUME RatesPlace, Runs({"intr"}), Counted, Snapped, ReadColumns
    PROVE  Snapped'
<1> USE DEF Goto, main, kernel, readings, ratesVars
<1>0. /\ stat \in [Stats -> Nat] /\ irq \in [CPU -> Nat] /\ "intr" \in Stats
      /\ pc = "columns" /\ i \in Nat /\ i >= 1 /\ opt.count \in Int /\ ncpus \in [{0, 1} -> Nat]
      /\ online \subseteq CPU /\ (plugged = 0 => online = CPU) /\ Cardinality(online) \in Nat
      /\ SnapshotAfter(i - 1) # {} /\ DOMAIN vintr = {0, 1} /\ DOMAIN seen = {0, 1}
      /\ Pattern = "intr"
  BY RatesConstants, RatesAssumption
     DEF RatesPlace, Counted, Snapped, ReadColumns, Runs, RatesCommandLine, Pattern
<1>1. stat["intr"] \in Nat /\ \A c \in CPU : irq[c] <= irq[c]
  BY <1>0
<1>2. PICK junk \in Junk :
        vintr' = [vintr EXCEPT ![Snapshot] =
             [n \in 0 .. ncpus[Snapshot] - 1 |->
                 IF n < Cardinality(online) THEN strtoul(n) ELSE junk]]
  BY DEF ReadColumns
<1> DEFINE v == [n \in 0 .. ncpus[Snapshot] - 1 |->
                    IF n < Cardinality(online) THEN strtoul(n) ELSE junk]
           k == [stat |-> stat, irq |-> irq, online |-> online]
<1>3. /\ vintr' = [vintr EXCEPT ![Snapshot] = v] /\ seen' = [seen EXCEPT ![Snapshot] = k]
      /\ pc' = Loop(i) /\ UNCHANGED <<opt, stat, irq, plugged, i, tog, buf, ncpus>>
  BY <1>2 DEF ReadColumns, See
<1>4. k.stat = stat /\ k.irq = irq
  OBVIOUS
<1>5. /\ DOMAIN v = 0 .. ncpus[Snapshot] - 1
      /\ ncpus[Snapshot] > 0 /\ plugged = 0 =>
           \A n \in 0 .. ncpus[Snapshot] - 1 : v[n] = Column(irq, n)
  <2>1. DOMAIN v = 0 .. ncpus[Snapshot] - 1
    OBVIOUS
  <2>2. ASSUME ncpus[Snapshot] > 0, plugged = 0, NEW n \in 0 .. ncpus[Snapshot] - 1
        PROVE  v[n] = Column(irq, n)
    <3>1. Snapshot \in {0, 1}
      <4>1. i - 1 \in Nat
        BY <1>0
      <4> QED BY <1>0, <4>1, SnapshotIs DEF Snapshot
    <3>2. ncpus[Snapshot] = Cardinality(CPU) /\ online = CPU
      BY <1>0, <2>2, <3>1 DEF Snapped
    <3>3. n \in Nat /\ n < Cardinality(online)
      BY <1>0, <2>2, <3>1, <3>2
    <3>4. v[n] = strtoul(n)
      BY <2>2, <3>3
    <3> HIDE DEF v
    <3> QED BY <3>2, <3>3, <3>4, ColumnsAreRanked
  <2> HIDE DEF v
  <2> QED BY <2>1, <2>2
<1> HIDE DEF v, k
<1>6. \/ Snapshot = 0 /\ (opt.count <= 1 \/ i = opt.count - 1)
      \/ Snapshot = 1 /\ opt.count >= 2 /\ i = opt.count
  <2>1. i - 1 \in Nat /\ (i - 1) + 1 = i
    BY <1>0
  <2> QED BY <1>0, <2>1, SnapshotIs DEF Snapshot
<1>7. vintr'[Snapshot] = v /\ seen'[Snapshot] = k
  BY <1>0, <1>3, <1>6
<1>8. \A b \in {0, 1} : b # Snapshot => vintr'[b] = vintr[b] /\ seen'[b] = seen[b]
  BY <1>0, <1>3
<1>9. \A b \in {0, 1} : (b # Snapshot => (Made(b) <=> ncpus[b] > 0)) /\ (Made(b)' <=> ncpus[b] > 0)
  <2>1. pc' # "columns"
    BY <1>3 DEF Loop
  <2> QED BY <1>0, <1>3, <2>1 DEF Made, Pending
<1>10. \A b \in {0, 1} : Made(b)' => Shown(b)'
  <2> SUFFICES ASSUME NEW b \in {0, 1}, Made(b)' PROVE Shown(b)'
    BY Zenon
  <2>1. CASE b = Snapshot
    <3>1. vintr'[b] = v /\ seen'[b].irq = irq /\ ncpus' = ncpus /\ irq' = irq /\ plugged' = plugged
      BY <1>3, <1>4, <1>7, <2>1
    <3>2. ncpus[b] > 0
      BY <1>9
    <3> QED BY <1>0, <1>1, <1>5, <2>1, <3>1, <3>2 DEF Shown
  <2>2. CASE b # Snapshot
    <3>1. Shown(b)
      BY <1>9, <2>2 DEF Snapped
    <3>2. /\ vintr'[b] = vintr[b] /\ seen'[b] = seen[b] /\ ncpus' = ncpus
          /\ irq' = irq /\ plugged' = plugged
      BY <1>3, <1>8, <2>2
    <3> QED BY <1>0, <1>1, <3>1, <3>2, ShownKept
  <2> QED BY <2>1, <2>2
<1>11. Made(0)' => BetweenReadings'
  <2>1. CASE Snapshot = 0
    <3>1. seen'[0].stat = stat
      BY <1>4, <1>7, <2>1
    <3>2. buf[tog] \in Nat /\ buf[tog] <= stat["intr"]
      BY <1>0 DEF Counted
    <3>3. opt.count >= 2 => i = opt.count - 1
      BY <1>0, <1>6, <2>1
    <3> QED BY <1>0, <1>1, <1>3, <3>1, <3>2, <3>3 DEF BetweenReadings
  <2>2. CASE Snapshot = 1
    <3>1. Made(0)' => Made(0)
      BY <1>9, <2>2
    <3>2. BetweenReadings' <=> BetweenReadings
      BY <1>3, <1>8, <2>2 DEF BetweenReadings
    <3> QED BY <3>1, <3>2 DEF Snapped
  <2> QED BY <1>6, <2>1, <2>2
<1>12. Made(0)' /\ Made(1)' => \A c \in CPU : seen'[0].irq[c] <= seen'[1].irq[c]
  <2>1. CASE Snapshot = 0
    <3>1. ncpus[1] > 0 => FALSE
      BY <1>0, <1>6, <2>1 DEF Snapped
    <3> QED BY <1>9, <3>1
  <2>2. CASE Snapshot = 1
    <3>1. Made(0)' => Shown(0)
      BY <1>9, <2>2 DEF Snapped
    <3>2. seen'[1].irq = irq /\ seen'[0] = seen[0]
      BY <1>4, <1>7, <1>8, <2>2
    <3> QED BY <3>1, <3>2 DEF Shown
  <2> QED BY <1>6, <2>1, <2>2
<1>13. /\ pc' = "read" => i' < opt'.count
       /\ pc' \notin {"count", "columns"}
       /\ UNCHANGED <<ncpus, plugged, opt, i>>
  BY <1>3 DEF Loop
<1> QED BY <1>10, <1>11, <1>12, <1>13, Zenon DEF Snapped

\* The snapshots stay in order.
LEMMA SnappedNext ==
    ASSUME RatesPlace, Runs({"intr"}), Counted, Snapped, [RatesNext]_<<main, ratesVars>>
    PROVE  Snapped'
<1> USE DEF GiveUp, Exit, Goto, main, kernel, readings, ratesVars
<1>0. /\ stat \in [Stats -> Nat] /\ irq \in [CPU -> Nat] /\ "intr" \in Stats
      /\ ~Runs({"paging"}) /\ ~Runs({"pressure"}) /\ plugged \in Nat
  BY RatesConstants DEF RatesPlace, Runs
<1>1. stat["intr"] \in Nat /\ stat["intr"] <= stat["intr"] /\ \A c \in CPU : irq[c] <= irq[c]
  BY <1>0
<1>2. CASE RatesParseOptions
  <2>1. /\ UNCHANGED <<opt, stat, irq, plugged, i, tog, buf, vintr, ncpus, seen>>
        /\ pc = "options" /\ pc' \in {"read", "exited"} /\ i = 0
    BY <1>2 DEF RatesParseOptions, Counted
  <2> QED BY <1>0, <1>1, <2>1, SnappedKept
<1>3. CASE JudgeRate
  <2>1. /\ UNCHANGED <<opt, stat, irq, plugged, i, tog, buf, vintr, ncpus, seen>>
        /\ pc = "judge" /\ pc' = "exited"
    BY <1>3 DEF JudgeRate
  <2> QED BY <1>0, <1>1, <2>1, SnappedKept
<1>4. CASE CountersGrow
  <2>1. /\ stat' \in [Stats -> Nat] /\ irq' \in [CPU -> Nat]
        /\ \A s \in Stats : stat[s] <= stat'[s]
        /\ \A c \in CPU : irq[c] <= irq'[c]
        /\ UNCHANGED <<pc, opt, plugged, i, tog, buf, vintr, ncpus, seen>>
    BY <1>4, GrowthOfCounters, Zenon
  <2>2. stat'["intr"] \in Nat /\ stat["intr"] <= stat'["intr"]
    BY <1>0, <2>1
  <2> QED BY <1>1, <2>1, <2>2, SnappedKept
<1>5. CASE Hotplug
  <2>1. /\ UNCHANGED <<pc, opt, stat, irq, i, tog, buf, vintr, ncpus, seen>>
        /\ plugged' # 0
    BY <1>0, <1>5 DEF Hotplug
  <2> QED BY <1>0, <1>1, <2>1, SnappedKept
<1>6. CASE UNCHANGED <<main, ratesVars>>
  <2>1. UNCHANGED <<pc, opt, stat, irq, plugged, i, tog, buf, vintr, ncpus, seen>>
    BY <1>6
  <2> QED BY <1>0, <1>1, <2>1, SnappedKept
<1>7. ~ReadVmem /\ ~ReadSome /\ ~ReadFull
  BY <1>0 DEF ReadVmem, ReadSome, ReadFull, RatesPlace
<1> QED BY <1>2, <1>3, <1>4, <1>5, <1>6, <1>7, SnappedReading, SnappedOnline, SnappedColumns
        DEF RatesNext, RatesPlugin

\* The invariant is inductive.
LEMMA RatesInvNext ==
    ASSUME RatesInv, [RatesNext]_<<main, ratesVars>>
    PROVE  RatesInv'
<1>1. \A S : Runs(S)' <=> Runs(S)
  BY SameOptions, Zenon
<1>2. RatesPlace'
  BY RatesPlaceNext DEF RatesInv
<1>3. Runs({"intr"}) => Runs({"cswch", "intr"})
  BY DEF Runs
<1>4. /\ Runs({"cswch", "intr"}) => Counted'
      /\ Runs({"intr"}) => Snapped'
      /\ Runs({"paging"}) => VmemRead'
      /\ Runs({"pressure"}) => PressureRead'
  BY <1>3, CountedNext, SnappedNext, VmemReadNext, PressureReadNext DEF RatesInv
<1> QED BY <1>1, <1>2, <1>4, Zenon DEF RatesInv

\* The invariant holds in every run.
LEMMA RatesInvariant == RatesSpec => []RatesInv
<1>1. RatesInv /\ [RatesNext]_<<main, ratesVars>> => RatesInv'
  BY RatesInvNext
<1> QED BY RatesInitInv, <1>1, PTL DEF RatesSpec

-----------------------------------------------------------------------------
(* The properties *)

\* With the same CPUs online, a column that is printed is the growth per second of the
\* interrupts of its CPU between the last two readings of the total.
THEOREM RatesOfCPUs == RatesSpec => []CpuRatesExact
<1> SUFFICES ASSUME RatesInv PROVE CpuRatesExact
  BY RatesInvariant, PTL
<1> SUFFICES ASSUME Judged, Runs({"intr"}), NEW n \in PrintedColumns
             PROVE  /\ n \in DOMAIN vintr[0] \cap DOMAIN vintr[1]
                    /\ LET c == CpuOf(n)
                       IN /\ plugged = 0
                          /\ n = 0 \/ seen[1].irq[c] < NineDigits
                          => /\ intr_cpu(n) = (seen[1].irq[c] - seen[0].irq[c]) \div opt.delay
                             /\ buf[1 - tog] <= seen[0].stat["intr"]
                             /\ seen[0].stat["intr"] <= buf[tog]
  BY Zenon DEF CpuRatesExact
<1>0. /\ pc = "exited" /\ ncpus \in [{0, 1} -> Nat] /\ Snapped /\ Counted /\ opt.count \in Int
      /\ (plugged = 0 => online = CPU)
  BY RatesAssumption DEF RatesInv, RatesPlace, Judged, Runs, RatesCommandLine
<1>1. n \in Nat /\ n < ncpus[0] /\ n < ncpus[1]
  BY <1>0 DEF PrintedColumns
<1>2. Made(0) /\ Made(1)
  BY <1>0, <1>1 DEF Made, Pending
<1>3. Shown(0) /\ Shown(1) /\ \A c \in CPU : seen[0].irq[c] <= seen[1].irq[c]
  BY <1>2, <1>0 DEF Snapped
<1>4. n \in DOMAIN vintr[0] \cap DOMAIN vintr[1]
  BY <1>0, <1>1, <1>3 DEF Shown
<1> DEFINE c == CpuOf(n)
<1>5. ASSUME plugged = 0, n = 0 \/ seen[1].irq[c] < NineDigits
      PROVE  /\ intr_cpu(n) = (seen[1].irq[c] - seen[0].irq[c]) \div opt.delay
             /\ buf[1 - tog] <= seen[0].stat["intr"]
             /\ seen[0].stat["intr"] <= buf[tog]
  <2>1. online = CPU /\ ncpus[0] = Cardinality(CPU)
    BY <1>0, <1>1, <1>5 DEF Snapped
  <2>2. c \in CPU /\ c = Ranked(n)
    <3>1. \E x \in CPU : Cardinality({o \in CPU : o < x}) = n
      <4>1. \A m \in Nat : m < Cardinality(CPU) =>
               \E x \in CPU : Cardinality({o \in CPU : o < x}) = m
        BY RankTaken, RatesConstants
      <4> QED BY <1>1, <2>1, <4>1
    <3>2. c = Ranked(n)
      BY <2>1 DEF CpuOf, Ranked
    <3> QED BY <3>1, <3>2 DEF Ranked
  <2> HIDE DEF c
  <2>3. \A b \in {0, 1} : /\ vintr[b][n] = Column(seen[b].irq, n)
                          /\ seen[b].irq[c] \in Nat
    BY SMTT(30), <1>0, <1>1, <1>3, <1>5, <2>2 DEF Shown
  <2>4. \A b \in {0, 1} : vintr[b][n] = seen[b].irq[c]
    <3> DEFINE x == seen[0].irq[c]
               y == seen[1].irq[c]
    <3>1. x \in Nat /\ y \in Nat /\ x <= y /\ (n = 0 \/ y < NineDigits)
      BY <1>3, <1>5, <2>2, <2>3
    <3>2. NineDigits \in Nat \ {0}
      BY RatesConstants
    <3>3. n # 0 => x % NineDigits = x /\ y % NineDigits = y
      <4> HIDE DEF x, y
      <4>1. n # 0 => x \in 0 .. NineDigits - 1 /\ y \in 0 .. NineDigits - 1
        BY <3>1, <3>2
      <4>2. \A r \in 0 .. NineDigits - 1 : r % NineDigits = r
        BY <3>2
      <4> QED BY <4>1, <4>2
    <3> QED BY <2>2, <2>3, <3>3 DEF Column
  <2>5. intr_cpu(n) = (seen[1].irq[c] - seen[0].irq[c]) \div opt.delay
    BY <2>4 DEF intr_cpu
  <2>6. BetweenReadings /\ opt.count >= 2 /\ i = opt.count
    BY <1>0, <1>1, <1>2 DEF Snapped
  <2>7. buf[1 - tog] <= seen[0].stat["intr"] /\ seen[0].stat["intr"] <= buf[tog]
    BY <1>0, <2>6 DEF BetweenReadings
  <2> QED BY <2>5, <2>7
<1> QED BY <1>4, <1>5

\* What check_paging shows under the name of a counter is the growth of that counter.
THEOREM PagesAsCounted == RatesSpec => []PagingExact
<1> SUFFICES ASSUME RatesInv PROVE PagingExact
  BY RatesInvariant, PTL
<1> SUFFICES ASSUME Judged, Runs({"paging"}), NEW name \in DOMAIN PagingLines,
                    {name, PagingLines[name]} \cap listed # {}
             PROVE  Paging[name] = seen[1].stat[name] - seen[0].stat[name]
  BY Zenon DEF PagingExact
<1>1. VmemRead /\ i = 2 /\ listed \in Layouts
  BY DEF RatesInv, RatesPlace, VmemRead
<1>2. \A b \in {0, 1} : /\ seen[b].stat \in [Stats -> Nat]
                        /\ buf[b] = proc_vmem_read(seen[b].stat, listed)
  BY <1>1 DEF VmemRead
<1>3. ASSUME NEW values \in [Stats -> Nat], NEW l \in Layouts, {name, PagingLines[name]} \cap l # {}
      PROVE  /\ name \in DOMAIN proc_vmem_read(values, l)
             /\ proc_vmem_read(values, l)[name] = values[name]
  <2>1. PICK r : r = proc_vmem_read(values, l)
    OBVIOUS
  <2>2. /\ r \in VmReading
        /\ r.pgpgin = (IF {"pgpgin", "page"} \cap l # {} THEN values["pgpgin"] ELSE 0)
        /\ r.pgpgout = (IF {"pgpgout", "page"} \cap l # {} THEN values["pgpgout"] ELSE 0)
        /\ r.pswpin = (IF {"pswpin", "swap"} \cap l # {} THEN values["pswpin"] ELSE 0)
        /\ r.pswpout = (IF {"pswpout", "swap"} \cap l # {} THEN values["pswpout"] ELSE 0)
        /\ r.pgfault = procparser("pgfault", 0, values, l)
        /\ r.pgmajfault = procparser("pgmajfault", 0, values, l)
        /\ r.pgfree = procparser("pgfree", 0, values, l)
        /\ "pgsteal" \in l => r.pgsteal = values["pgsteal"]
    BY <2>1, Getters
  <2>3. "none" \notin l
    BY RatesAssumption
  <2>4. \A x : x \in l \cap Slots => procparser(x, 0, values, l) = values[x]
    BY DEF procparser
  <2>5. name \in DOMAIN r
    BY <2>2 DEF VmReading, PagingLines
  <2>6. name \in {"pgpgin", "pgpgout", "pswpin", "pswpout", "pgfault", "pgmajfault", "pgfree", "pgsteal"}
    BY DEF PagingLines
  <2>7. /\ name \in {"pgpgin", "pgpgout"} => PagingLines[name] = "page"
        /\ name \in {"pswpin", "pswpout"} => PagingLines[name] = "swap"
        /\ name \in {"pgfault", "pgmajfault", "pgfree", "pgsteal"} => PagingLines[name] = "none"
    BY DEF PagingLines
  <2>8. PICK line : line = PagingLines[name]
    OBVIOUS
  <2>9. {name, line} \cap l # {}
    BY <1>3, <2>8
  <2>10. CASE name \in {"pgpgin", "pgpgout", "pswpin", "pswpout"}
    <3>1. CASE name \in {"pgpgin", "pgpgout"}
      BY <2>1, <2>2, <2>5, <2>7, <2>8, <2>9, <3>1
    <3>2. CASE name \in {"pswpin", "pswpout"}
      BY <2>1, <2>2, <2>5, <2>7, <2>8, <2>9, <3>2
    <3> QED BY <2>10, <3>1, <3>2
  <2>11. CASE name \in {"pgfault", "pgmajfault", "pgfree", "pgsteal"}
    <3>1. name \in l \cap Slots
      BY <2>3, <2>7, <2>8, <2>9, <2>11, HaveSlots
    <3> QED BY <2>1, <2>2, <2>4, <2>5, <2>11, <3>1
  <2> QED BY <2>6, <2>10, <2>11
<1>4. \A b \in {0, 1} : name \in DOMAIN buf[b] /\ buf[b][name] = seen[b].stat[name]
  BY <1>1, <1>2, <1>3
<1> QED BY <1>4 DEF Paging

\* What check_pressure shows as "full" is within what "some" grew.
THEOREM FullIsWithinSome == RatesSpec => []FullWithinSome
<1> SUFFICES ASSUME RatesInv PROVE FullWithinSome
  BY RatesInvariant, PTL
<1> SUFFICES ASSUME Judged, Runs({"pressure"}), opt.resource # "cpu"
             PROVE  Starvation("full") * opt.delay <= stat["some"] - seen[0].stat["some"]
  BY Zenon DEF FullWithinSome
<1>1. /\ PairRead(0) /\ PairRead(1) /\ Stalled /\ stat \in [Stats -> Nat]
      /\ {"full", "some"} \subseteq Stats /\ NULL \notin Nat
  BY RatesConstants, RatesAssumption DEF RatesInv, PressureRead, RatesPlace
<1>2. opt.delay \in Nat \ {0}
  <2>1. opt.delay \in Int
    BY RatesAssumption DEF RatesInv, RatesPlace, RatesCommandLine
  <2>2. ~(opt.delay < 1)
    BY DEF RatesInv, RatesPlace, RatesBadOptions, BadDelay, Runs
  <2> QED BY <2>1, <2>2
<1> DEFINE x == buf[1].full - buf[0].full
           grew == stat["some"] - seen[0].stat["some"]
<1>3. x \in Int /\ grew \in Int /\ x <= grew
  <2> DEFINE f1 == buf[1].full
             f0 == buf[0].full
             s == stat["full"]
             z == seen[0].stat["full"]
  <2>1. f1 \in Nat /\ f0 \in Nat /\ f1 <= s /\ s \in Nat /\ z \in Nat /\ z <= f0 /\ s - z <= grew
    BY <1>1 DEF PairRead, Stalled
  <2>2. grew \in Int
    BY <1>1 DEF Stalled
  <2> HIDE DEF f1, f0, s, z, grew
  <2>3. f1 - f0 \in Int /\ f1 - f0 <= grew
    BY <2>1, <2>2
  <2> QED BY <2>2, <2>3 DEF f1, f0
<1>4. Starvation("full") = x \div opt.delay
  BY <1>1 DEF Starvation, PairRead, PressureReading
<1> HIDE DEF x, grew
<1>5. (x \div opt.delay) * opt.delay <= x
  <2>1. x = (x \div opt.delay) * opt.delay + (x % opt.delay) /\ x % opt.delay \in 0 .. opt.delay - 1
        /\ x \div opt.delay \in Int
    BY <1>2, <1>3, DivMod
  <2>2. PICK q \in Int : q = x \div opt.delay
    BY <2>1
  <2>3. PICK d \in Nat : d = opt.delay
    BY <1>2
  <2>4. x = q * d + (x % d) /\ x % d \in Nat /\ q * d \in Int
    BY <2>1, <2>2, <2>3
  <2>5. PICK p \in Int : p = q * d
    BY <2>4
  <2>6. PICK r \in Nat : r = x % d
    BY <2>4
  <2>7. x = p + r
    BY <2>4, <2>5, <2>6
  <2>8. p <= x
    BY <2>7
  <2> QED BY <2>2, <2>3, <2>5, <2>8
<1>6. (x \div opt.delay) * opt.delay \in Int
  BY <1>2, <1>3, DivMod
<1>7. (x \div opt.delay) * opt.delay <= grew
  <2>1. PICK p \in Int : p = (x \div opt.delay) * opt.delay
    BY <1>6
  <2> QED BY <1>3, <1>5, <2>1
<1> QED BY <1>4, <1>7 DEF grew

\* What is judged of a reading of check_paging is a number that grows with the counters.
LEMMA PagingJudged ==
    ASSUME Runs({"paging"}), NEW values \in [Stats -> Nat], NEW l \in Layouts,
           NEW more \in [Stats -> Nat], \A s \in Stats : values[s] <= more[s]
    PROVE  /\ proc_vmem_read(values, l) # NULL
           /\ JudgedOf(proc_vmem_read(values, l)) \in Nat
           /\ JudgedOf(proc_vmem_read(values, l)) <= JudgedOf(proc_vmem_read(more, l))
           /\ JudgedOf(proc_vmem_read(values, l)) =
                (IF opt.swapping_only THEN proc_vmem_read(values, l).pswpin
                                           + proc_vmem_read(values, l).pswpout
                                      ELSE proc_vmem_read(values, l).pgmajfault)
<1>1. ~Runs({"cswch", "intr"}) /\ ~Runs({"pressure"})
  BY DEF Runs
<1>2. ASSUME NEW v \in [Stats -> Nat]
      PROVE  /\ proc_vmem_read(v, l) # NULL
             /\ proc_vmem_read(v, l).pswpin = (IF {"pswpin", "swap"} \cap l # {} THEN v["pswpin"] ELSE 0)
             /\ proc_vmem_read(v, l).pswpout = (IF {"pswpout", "swap"} \cap l # {} THEN v["pswpout"] ELSE 0)
             /\ proc_vmem_read(v, l).pgmajfault = procparser("pgmajfault", 0, v, l)
             /\ proc_vmem_read(v, l).pswpin \in Nat /\ proc_vmem_read(v, l).pswpout \in Nat
             /\ proc_vmem_read(v, l).pgmajfault \in Nat
  <2>1. PICK r : r = proc_vmem_read(v, l)
    OBVIOUS
  <2>2. /\ r \in VmReading
        /\ r.pswpin = (IF {"pswpin", "swap"} \cap l # {} THEN v["pswpin"] ELSE 0)
        /\ r.pswpout = (IF {"pswpout", "swap"} \cap l # {} THEN v["pswpout"] ELSE 0)
        /\ r.pgmajfault = procparser("pgmajfault", 0, v, l)
    BY <2>1, Getters
  <2>3. r # NULL /\ v["pswpin"] \in Nat /\ v["pswpout"] \in Nat
    BY <2>2, RatesAssumption
  <2>4. procparser("pgmajfault", 0, v, l) \in Nat
    BY ParsedCount
  <2> QED BY <2>1, <2>2, <2>3, <2>4
<1>3. ASSUME NEW r, r # NULL
      PROVE  JudgedOf(r) = (IF opt.swapping_only THEN r.pswpin + r.pswpout ELSE r.pgmajfault)
  BY <1>1, <1>3, Zenon DEF JudgedOf
<1>4. procparser("pgmajfault", 0, values, l) <= procparser("pgmajfault", 0, more, l)
  <2>1. "pgmajfault" \in l \cap Slots => "pgmajfault" \in Stats
    BY RatesAssumption
  <2> QED BY <2>1 DEF procparser
<1>5. PICK a : a = proc_vmem_read(values, l)
  OBVIOUS
<1>6. PICK b : b = proc_vmem_read(more, l)
  OBVIOUS
<1>7. a.pswpin <= b.pswpin /\ a.pswpout <= b.pswpout /\ a.pgmajfault <= b.pgmajfault
  <2>1. {"pswpin", "pswpout"} \subseteq Stats
    BY RatesAssumption
  <2> QED BY <1>2, <1>4, <1>5, <1>6, <2>1
<1>8. /\ a # NULL /\ a.pswpin \in Nat /\ a.pswpout \in Nat /\ a.pgmajfault \in Nat
      /\ b # NULL /\ b.pswpin \in Nat /\ b.pswpout \in Nat /\ b.pgmajfault \in Nat
  BY <1>2, <1>5, <1>6
<1>9. JudgedOf(a) \in Nat /\ JudgedOf(a) <= JudgedOf(b)
  <2>1. JudgedOf(a) = (IF opt.swapping_only THEN a.pswpin + a.pswpout ELSE a.pgmajfault)
        /\ JudgedOf(b) = (IF opt.swapping_only THEN b.pswpin + b.pswpout ELSE b.pgmajfault)
    BY <1>3, <1>8
  <2> DEFINE p == a.pswpin + a.pswpout
             q == b.pswpin + b.pswpout
  <2>2. p \in Nat /\ p <= q
    BY <1>7, <1>8
  <2> HIDE DEF p, q
  <2>3. JudgedOf(a) = (IF opt.swapping_only THEN p ELSE a.pgmajfault)
        /\ JudgedOf(b) = (IF opt.swapping_only THEN q ELSE b.pgmajfault)
    BY <2>1 DEF p, q
  <2> QED BY <1>7, <1>8, <2>2, <2>3
<1>10. JudgedOf(a) = (IF opt.swapping_only THEN a.pswpin + a.pswpout ELSE a.pgmajfault)
  BY <1>3, <1>8
<1> QED BY <1>5, <1>6, <1>8, <1>9, <1>10

\* The counter that is judged.
LEMMA JudgedCounterIs ==
    /\ Runs({"cswch", "intr"}) => JudgedCounter = stat[Pattern]
    /\ Runs({"paging"}) => JudgedCounter = JudgedOf(proc_vmem_read(stat, listed))
    /\ Runs({"pressure"}) => JudgedCounter = stat[IF opt.full THEN "full" ELSE "some"]
<1>1. /\ Runs({"cswch", "intr"}) => ~Runs({"paging"}) /\ ~Runs({"pressure"})
      /\ Runs({"paging"}) => ~Runs({"cswch", "intr"}) /\ ~Runs({"pressure"})
      /\ Runs({"pressure"}) => ~Runs({"cswch", "intr"}) /\ ~Runs({"paging"})
  BY DEF Runs
<1> QED BY <1>1, Zenon DEF JudgedCounter

\* It is a number, and it grows.
LEMMA JudgedCounterGrows ==
    ASSUME RatesPlace, stat' \in [Stats -> Nat], \A s \in Stats : stat[s] <= stat'[s],
           opt' = opt, listed' = listed
    PROVE  JudgedCounter \in Nat /\ JudgedCounter' \in Nat /\ JudgedCounter <= JudgedCounter'
<1>0. /\ stat \in [Stats -> Nat] /\ listed \in Layouts /\ {"full", "some"} \subseteq Stats
      /\ opt.program \in RatesPrograms /\ Pattern \in Stats
  BY RatesConstants, PatternCounts DEF RatesPlace
<1>1. \A S : Runs(S)' <=> Runs(S)
  BY DEF Runs
<1>2. PICK values \in [Stats -> Nat] : values = stat'
  OBVIOUS
<1>3. CASE Runs({"cswch", "intr"})
  <2>1. JudgedCounter = stat[Pattern]
    BY <1>3, JudgedCounterIs
  <2>2. JudgedCounter' = values[Pattern]
    <3>1. Runs({"cswch", "intr"})' /\ ~Runs({"paging"})' /\ ~Runs({"pressure"})'
      BY <1>1, <1>3 DEF Runs
    <3>2. Pattern' = Pattern
      BY <1>1 DEF Pattern
    <3>3. JudgedCounter' = stat'[Pattern']
      BY <3>1, Zenon DEF JudgedCounter
    <3> QED BY <1>2, <3>2, <3>3
  <2> QED BY <1>0, <1>2, <2>1, <2>2
<1>4. CASE Runs({"pressure"})
  <2>1. JudgedCounter = stat[IF opt.full THEN "full" ELSE "some"]
    BY <1>4, JudgedCounterIs
  <2>2. JudgedCounter' = values[IF opt.full THEN "full" ELSE "some"]
    <3>1. Runs({"pressure"})' /\ ~Runs({"cswch", "intr"})' /\ ~Runs({"paging"})'
      BY <1>1, <1>4 DEF Runs
    <3>3. JudgedCounter' = stat'[IF opt'.full THEN "full" ELSE "some"]
      BY <3>1, Zenon DEF JudgedCounter
    <3> QED BY <1>2, <3>3
  <2>3. (IF opt.full THEN "full" ELSE "some") \in Stats
    BY <1>0
  <2> QED BY <1>0, <1>2, <2>1, <2>2, <2>3
<1>5. CASE Runs({"paging"})
  <2>1. JudgedCounter = JudgedOf(proc_vmem_read(stat, listed))
    BY <1>5, JudgedCounterIs
  <2>2. JudgedCounter' = JudgedOf(proc_vmem_read(values, listed))
    <3>1. Runs({"paging"})' /\ ~Runs({"cswch", "intr"})' /\ ~Runs({"pressure"})'
      BY <1>1, <1>5 DEF Runs
    <3>2. PICK r : r = proc_vmem_read(values, listed)
      OBVIOUS
    <3>3. JudgedCounter' = JudgedOf(proc_vmem_read(stat, listed))'
      BY <3>1, Zenon DEF JudgedCounter
    <3>4. JudgedOf(proc_vmem_read(stat, listed))' =
            (IF r = NULL THEN NULL
             ELSE IF opt.swapping_only THEN r.pswpin + r.pswpout ELSE r.pgmajfault)
      <4>1. proc_vmem_read(stat', listed') = r
        BY <1>2, <3>2
      <4> QED BY <1>1, <3>1, <4>1, Zenon DEF JudgedOf
    <3>5. r # NULL /\ JudgedOf(r) = (IF opt.swapping_only THEN r.pswpin + r.pswpout ELSE r.pgmajfault)
      <4>1. \A s \in Stats : values[s] <= values[s]
        OBVIOUS
      <4> QED BY <1>0, <1>2, <1>5, <3>2, <4>1, PagingJudged
    <3> QED BY <3>2, <3>3, <3>4, <3>5
  <2>3. \A s \in Stats : values[s] <= values[s] /\ stat[s] <= values[s]
    BY <1>2
  <2>4. /\ JudgedOf(proc_vmem_read(stat, listed)) \in Nat
        /\ JudgedOf(proc_vmem_read(stat, listed)) <= JudgedOf(proc_vmem_read(values, listed))
        /\ JudgedOf(proc_vmem_read(values, listed)) \in Nat
    BY <1>0, <1>5, <2>3, PagingJudged
  <2> QED BY <2>1, <2>2, <2>4
<1> QED BY <1>0, <1>3, <1>4, <1>5 DEF Runs, RatesPrograms

\* The buffer of the last reading of the counter,
LastIn(buffers, toggle) ==
    IF Runs({"cswch", "intr"}) THEN toggle ELSE IF JudgedOf(buffers[1]) # NULL THEN 1 ELSE 0

\* that reading,
LastOf(buffers, toggle) == JudgedOf(buffers[LastIn(buffers, toggle)])

\* and the one before it.
EarlierOf(buffers, toggle) == JudgedOf(buffers[1 - LastIn(buffers, toggle)])

\* They are those that are watched, now and after a step.
LEMMA ReachedIs ==
    ASSUME Runs(RatesPrograms)
    PROVE  /\ Reached(Latest) = LastOf(buf, tog) /\ Reached(1 - Latest) = EarlierOf(buf, tog)
           /\ opt' = opt => \A f, t : f = buf' /\ t = tog' =>
                 Reached(Latest)' = LastOf(f, t) /\ Reached(1 - Latest)' = EarlierOf(f, t)
<1>1. \A b : Reached(b) = JudgedOf(buf[b])
  BY DEF Reached
<1>2. Latest = LastIn(buf, tog)
  BY <1>1 DEF Latest, LastIn
<1>3. ASSUME opt' = opt, NEW f, NEW t, f = buf', t = tog'
      PROVE  Reached(Latest)' = LastOf(f, t) /\ Reached(1 - Latest)' = EarlierOf(f, t)
  <2>1. \A S : Runs(S)' <=> Runs(S)
    BY <1>3 DEF Runs
  <2>2. \A r : JudgedOf(r)' = JudgedOf(r)
    BY <1>3 DEF JudgedOf, Runs
  <2>3. \A b : Reached(b)' = JudgedOf(f[b])
    <3> SUFFICES ASSUME NEW b PROVE Reached(b)' = JudgedOf(f[b])
      BY Zenon
    <3>1. PICK r : r = f[b]
      OBVIOUS
    <3>2. Reached(b)' = JudgedOf(buf[b])'
      BY <2>1 DEF Reached
    <3>3. JudgedOf(buf[b])' = JudgedOf(r)
      BY <1>3, <3>1 DEF JudgedOf, Runs
    <3> QED BY <3>1, <3>2, <3>3
  <2>4. Latest' = LastIn(f, t)
    <3>1. (Reached(1) # NULL)' <=> JudgedOf(f[1]) # NULL
      BY <2>3
    <3> QED BY <1>3, <2>1, <3>1 DEF Latest, LastIn
  <2>5. PICK l : l = LastIn(f, t)
    OBVIOUS
  <2>6. Reached(Latest)' = Reached(l)' /\ Reached(1 - Latest)' = Reached(1 - l)'
    BY <2>4, <2>5 DEF Reached, JudgedOf, Runs
  <2> QED BY <2>3, <2>5, <2>6 DEF LastOf, EarlierOf
<1> QED BY <1>1, <1>2, <1>3, Zenon DEF LastOf, EarlierOf

\* Nothing that is watched changes.
LEMMA NothingWatched ==
    ASSUME UNCHANGED <<opt, exit, stat, listed, buf, tog>>
    PROVE  UNCHANGED Watched!vars
<1>1. JudgedCounter' = JudgedCounter
  BY DEF JudgedCounter, JudgedOf, Runs, Pattern
<1>2. \A b : Reached(b)' = Reached(b)
  BY DEF Reached, JudgedOf, Runs
<1>3. Reached(Latest)' = Reached(Latest) /\ Reached(1 - Latest)' = Reached(1 - Latest)
  BY DEF Reached, JudgedOf, Runs, Latest
<1> QED BY <1>1, <1>3 DEF Watched!vars, Runs

\* A reading of the counter that is watched.
LEMMA WatchedReading ==
    ASSUME Runs(RatesPrograms), exit = RUNNING, UNCHANGED <<opt, exit, stat, listed>>,
           NEW f, NEW t, f = buf', t = tog',
           LastOf(f, t) = JudgedCounter, EarlierOf(f, t) = LastOf(buf, tog)
    PROVE  Watched!Read
<1>1. JudgedCounter' = JudgedCounter
  BY DEF JudgedCounter, JudgedOf, Runs, Pattern
<1>2. Reached(Latest)' = JudgedCounter /\ Reached(1 - Latest)' = Reached(Latest)
  BY ReachedIs
<1> QED BY <1>1, <1>2 DEF Watched!Read, Runs, Watched!RUNNING, RUNNING

\* A reading of something else.
LEMMA OtherReading ==
    ASSUME Runs(RatesPrograms), UNCHANGED <<opt, exit, stat, listed>>,
           NEW f, NEW t, f = buf', t = tog',
           LastOf(f, t) = LastOf(buf, tog), EarlierOf(f, t) = EarlierOf(buf, tog)
    PROVE  UNCHANGED Watched!vars
<1>1. JudgedCounter' = JudgedCounter
  BY DEF JudgedCounter, JudgedOf, Runs, Pattern
<1>2. Reached(Latest)' = Reached(Latest) /\ Reached(1 - Latest)' = Reached(1 - Latest)
  BY ReachedIs
<1> QED BY <1>1, <1>2 DEF Watched!vars, Runs

\* The plugin leaves.
LEMMA WatchedGiveUp ==
    ASSUME Runs(RatesPrograms), exit = RUNNING, exit' = STATE_UNKNOWN,
           UNCHANGED <<opt, stat, listed, buf, tog>>
    PROVE  Watched!GiveUp
<1>1. JudgedCounter' = JudgedCounter
  BY DEF JudgedCounter, JudgedOf, Runs, Pattern
<1>2. Reached(Latest)' = Reached(Latest) /\ Reached(1 - Latest)' = Reached(1 - Latest)
  BY DEF Reached, JudgedOf, Runs, Latest
<1> QED BY <1>1, <1>2 DEF Watched!GiveUp, Runs, Watched!RUNNING, RUNNING,
                          Watched!STATE_UNKNOWN, STATE_UNKNOWN

\* check_cswch and check_intr read their counter into the other buffer.
LEMMA CounterReading ==
    ASSUME RatesInv, ReadCounter
    PROVE  Watched!Next
<1> USE DEF GiveUp, Exit, Goto, kernel, readings
<1>0. /\ tog \in {0, 1} /\ DOMAIN buf = {0, 1} /\ Runs({"cswch", "intr"}) /\ Runs(RatesPrograms)
      /\ Counted /\ i \in Nat /\ exit = RUNNING
  BY DEF RatesInv, RatesPlace, ReadCounter, Counted, Runs, RatesPrograms
<1>1. CASE Pattern \notin listed
  BY <1>0, <1>1, WatchedGiveUp DEF ReadCounter, Watched!Next
<1>2. CASE Pattern \in listed
  <2> DEFINE t == IF i = 0 THEN 0 ELSE 1 - tog
  <2>1. /\ buf' = [buf EXCEPT ![t] = stat[Pattern]] /\ tog' = t
        /\ UNCHANGED <<opt, exit, stat, listed>>
    BY <1>0, <1>2 DEF ReadCounter
  <2>2. t \in {0, 1} /\ (i = 0 => t = 0 /\ tog = 0 /\ buf[0] = buf[1]) /\ (i # 0 => 1 - t = tog /\ t # tog)
    BY <1>0 DEF Counted
  <2> HIDE DEF t
  <2>3. PICK f : f = buf'
    OBVIOUS
  <2>4. f[t] = stat[Pattern] /\ f[1 - t] = buf[tog]
    BY <1>0, <2>1, <2>2, <2>3
  <2>5. \A r : JudgedOf(r) = r
    <3>1. ~Runs({"paging"}) /\ ~Runs({"pressure"})
      BY <1>0 DEF Runs
    <3> QED BY <1>0, <3>1, Zenon DEF JudgedOf
  <2>6. /\ LastOf(f, t) = stat[Pattern] /\ EarlierOf(f, t) = buf[tog]
        /\ LastOf(buf, tog) = buf[tog]
    BY <1>0, <2>4, <2>5 DEF LastOf, EarlierOf, LastIn
  <2>7. JudgedCounter = stat[Pattern]
    BY <1>0, JudgedCounterIs
  <2>8. Watched!Read
    BY <1>0, <2>1, <2>3, <2>6, <2>7, WatchedReading
  <2> QED BY <2>8 DEF Watched!Next
<1> QED BY <1>1, <1>2

\* check_paging reads twice.
LEMMA VmemReading ==
    ASSUME RatesInv, ReadVmem
    PROVE  Watched!Next
<1> USE DEF GiveUp, Exit, Goto, kernel, readings
<1>0. /\ tog \in {0, 1} /\ DOMAIN buf = {0, 1} /\ Runs({"paging"}) /\ Runs(RatesPrograms)
      /\ ~Runs({"cswch", "intr"}) /\ pc = "read"
      /\ VmemRead /\ i \in 0 .. 1 /\ exit = RUNNING
      /\ stat \in [Stats -> Nat] /\ listed \in Layouts /\ NULL \notin Nat
  BY RatesAssumption DEF RatesInv, RatesPlace, ReadVmem, VmemRead, Runs, RatesPrograms
<1>1. CASE "vmstat" \notin listed
  BY <1>0, <1>1, WatchedGiveUp DEF ReadVmem, Watched!Next
<1>2. CASE "vmstat" \in listed
  <2>1. PICK r : r = proc_vmem_read(stat, listed)
    OBVIOUS
  <2>2. /\ buf' = [buf EXCEPT ![tog] = r] /\ UNCHANGED <<opt, exit, stat, listed>>
    BY <1>0, <1>2, <2>1 DEF ReadVmem
  <2>3. PICK f : f = buf'
    OBVIOUS
  <2>4. PICK t : t = tog'
    OBVIOUS
  <2>5. JudgedOf(r) \in Nat /\ JudgedCounter = JudgedOf(r)
    <3>1. \A s \in Stats : stat[s] <= stat[s]
      BY <1>0
    <3> QED BY <1>0, <2>1, <3>1, PagingJudged, JudgedCounterIs
  <2>6. JudgedOf(NULL) = NULL
    BY Zenon DEF JudgedOf
  <2>7. CASE i = 0
    <3>1. tog = 0 /\ buf[0] = NULL /\ buf[1] = NULL
      BY <1>0, <2>7 DEF VmemRead
    <3>2. f[0] = r /\ f[1] = NULL
      BY <1>0, <2>2, <2>3, <3>1
    <3>3. LastOf(f, t) = JudgedOf(r) /\ EarlierOf(f, t) = NULL /\ LastOf(buf, tog) = NULL
      BY <1>0, <2>5, <2>6, <3>1, <3>2 DEF LastOf, EarlierOf, LastIn
    <3>4. Watched!Read
      BY <1>0, <2>2, <2>3, <2>4, <2>5, <3>3, WatchedReading
    <3> QED BY <3>4 DEF Watched!Next
  <2>8. CASE i = 1
    <3>1. tog = 1 /\ buf[1] = NULL
      BY <1>0, <2>8 DEF VmemRead
    <3>2. f[0] = buf[0] /\ f[1] = r
      BY <1>0, <2>2, <2>3, <3>1
    <3>3. JudgedOf(r) # NULL
      BY <1>0, <2>5
    <3>4. LastIn(f, t) = 1 /\ LastIn(buf, tog) = 0
      BY <1>0, <2>6, <3>1, <3>2, <3>3 DEF LastIn
    <3>5. LastOf(f, t) = JudgedOf(r) /\ EarlierOf(f, t) = LastOf(buf, tog)
      <4>1. EarlierOf(f, t) = JudgedOf(f[0])
        BY <3>4 DEF EarlierOf
      <4> QED BY <3>2, <3>4, <4>1 DEF LastOf
    <3>6. Watched!Read
      BY <1>0, <2>2, <2>3, <2>4, <2>5, <3>5, WatchedReading
    <3> QED BY <3>6 DEF Watched!Next
  <2> QED BY <1>0, <2>7, <2>8
<1> QED BY <1>1, <1>2

\* What is judged of a reading of check_pressure.
LEMMA PressureJudged ==
    ASSUME Runs({"pressure"})
    PROVE  /\ \A r : JudgedOf(r) = IF r = NULL THEN NULL ELSE IF opt.full THEN r.full ELSE r.some
           /\ ~Runs({"cswch", "intr"}) /\ Runs(RatesPrograms)
<1>1. ~Runs({"cswch", "intr"}) /\ ~Runs({"paging"}) /\ Runs(RatesPrograms)
  BY DEF Runs, RatesPrograms
<1> QED BY <1>1, Zenon DEF JudgedOf

\* check_pressure reads "some", for the verdict or before it reads "full".
LEMMA SomeReading ==
    ASSUME RatesInv, ReadSome
    PROVE  [Watched!Next]_Watched!vars
<1> USE DEF GiveUp, Exit, Goto, kernel, readings
<1>0. /\ tog \in {0, 1} /\ DOMAIN buf = {0, 1} /\ Runs({"pressure"}) /\ pc = "read"
      /\ PressureRead /\ RatesPlace /\ exit = RUNNING
      /\ stat["some"] \in Nat /\ NULL \notin Nat
  BY RatesAssumption DEF RatesInv, RatesPlace, ReadSome
<1>1. CASE Files[opt.resource] \notin listed
  BY <1>0, <1>1, WatchedGiveUp, PressureJudged DEF ReadSome, ReadPressure, Watched!Next
<1>2. CASE Files[opt.resource] \in listed
  <2> DEFINE r == [some |-> stat["some"], full |-> NULL]
  <2>1. buf[tog] = NULL /\ buf[1] = NULL /\ (tog = 1 => PairRead(0))
    BY <1>0 DEF PressureRead
  <2>2. r # NULL /\ r.some = stat["some"] /\ r.full = NULL
    BY <1>0, LineRead
  <2>3. /\ buf' = [buf EXCEPT ![tog] = r] /\ UNCHANGED <<opt, exit, stat, listed>>
    BY <1>0, <1>2, <2>1, LineRead DEF ReadSome, ReadPressure
  <2> HIDE DEF r
  <2>4. PICK f : f = buf'
    OBVIOUS
  <2>5. PICK t : t = tog'
    OBVIOUS
  <2>6. f[tog] = r /\ f[1 - tog] = buf[1 - tog]
    BY <1>0, <2>3, <2>4
  <2>7. CASE opt.full
    <3>1. \A b \in {0, 1} : JudgedOf(f[b]) = JudgedOf(buf[b])
      BY <1>0, <2>1, <2>2, <2>6, <2>7, PressureJudged
    <3>2. LastIn(f, t) = LastIn(buf, tog) /\ LastIn(f, t) \in {0, 1}
      BY <1>0, <3>1, PressureJudged DEF LastIn
    <3>3. LastOf(f, t) = LastOf(buf, tog) /\ EarlierOf(f, t) = EarlierOf(buf, tog)
      BY <3>1, <3>2 DEF LastOf, EarlierOf
    <3> QED BY <1>0, <2>3, <2>4, <2>5, <3>3, OtherReading, PressureJudged
  <2>8. CASE ~opt.full
    <3>1. JudgedOf(r) = stat["some"] /\ JudgedCounter = stat["some"] /\ JudgedOf(NULL) = NULL
      BY <1>0, <2>2, <2>8, PressureJudged, JudgedCounterIs
    <3>2. LastOf(f, t) = JudgedOf(r) /\ EarlierOf(f, t) = LastOf(buf, tog)
      <4>1. CASE tog = 0
        <5>1. f[0] = r /\ f[1] = NULL /\ buf[0] = NULL /\ buf[1] = NULL
          BY <2>1, <2>6, <4>1
        <5> QED BY <1>0, <3>1, <5>1, PressureJudged DEF LastOf, EarlierOf, LastIn
      <4>2. CASE tog = 1
        <5>1. f[1] = r /\ f[0] = buf[0] /\ buf[1] = NULL
          BY <2>1, <2>6, <4>2
        <5>2. LastIn(f, t) = 1 /\ LastIn(buf, tog) = 0
          BY <1>0, <3>1, <5>1, PressureJudged DEF LastIn
        <5> QED BY <5>1, <5>2 DEF LastOf, EarlierOf
      <4> QED BY <1>0, <4>1, <4>2
    <3>3. Watched!Read
      BY <1>0, <2>3, <2>4, <2>5, <3>1, <3>2, WatchedReading, PressureJudged
    <3> QED BY <3>3 DEF Watched!Next
  <2> QED BY <2>7, <2>8
<1> QED BY <1>1, <1>2

\* check_pressure reads "full", for the verdict or after it read "some".
LEMMA FullReading ==
    ASSUME RatesInv, ReadFull
    PROVE  [Watched!Next]_Watched!vars
<1> USE DEF GiveUp, Exit, Goto, kernel, readings
<1>0. /\ tog \in {0, 1} /\ DOMAIN buf = {0, 1} /\ Runs({"pressure"}) /\ pc = "full"
      /\ PressureRead /\ RatesPlace /\ exit = RUNNING /\ opt.resource # "cpu"
      /\ stat["full"] \in Nat /\ NULL \notin Nat
  BY RatesConstants, RatesAssumption DEF RatesInv, RatesPlace, ReadFull
<1>1. CASE Files[opt.resource] \notin listed
  <2>1. Watched!GiveUp
    BY <1>0, <1>1, WatchedGiveUp, PressureJudged DEF ReadFull, ReadPressure
  <2> QED BY <2>1 DEF Watched!Next
<1>2. CASE Files[opt.resource] \in listed
  <2> DEFINE r == [some |-> buf[tog].some, full |-> stat["full"]]
  <2>1. SomeRead(tog) /\ (tog = 0 => buf[1] = NULL) /\ (tog = 1 => PairRead(0))
    BY <1>0 DEF PressureRead
  <2>2. /\ r # NULL /\ r.some = buf[tog].some /\ r.full = stat["full"] /\ buf[tog] # NULL
        /\ buf[tog].some \in Nat /\ buf[tog].full = NULL
    <3>1. buf[tog] \in PressureReading /\ buf[tog].some \in Nat /\ buf[tog].full = NULL
      BY <2>1 DEF SomeRead
    <3>2. r \in PressureReading /\ NULL \notin PressureReading
      BY <1>0, <3>1, LineRead
    <3> QED BY <3>1, <3>2
  <2>3. /\ buf' = [buf EXCEPT ![tog] = r] /\ UNCHANGED <<opt, exit, stat, listed>>
    BY <1>0, <1>2, <2>1, <2>2, LineRead DEF ReadFull, ReadPressure, SomeRead
  <2> HIDE DEF r
  <2>4. PICK f : f = buf'
    OBVIOUS
  <2>5. PICK t : t = tog'
    OBVIOUS
  <2>6. f[tog] = r /\ f[1 - tog] = buf[1 - tog]
    BY <1>0, <2>3, <2>4
  <2>7. CASE ~opt.full
    <3>1. \A b \in {0, 1} : JudgedOf(f[b]) = JudgedOf(buf[b])
      BY <1>0, <2>1, <2>2, <2>6, <2>7, PressureJudged
    <3>2. LastIn(f, t) = LastIn(buf, tog) /\ LastIn(f, t) \in {0, 1}
      BY <1>0, <3>1, PressureJudged DEF LastIn
    <3>3. LastOf(f, t) = LastOf(buf, tog) /\ EarlierOf(f, t) = EarlierOf(buf, tog)
      BY <3>1, <3>2 DEF LastOf, EarlierOf
    <3> QED BY <1>0, <2>3, <2>4, <2>5, <3>3, OtherReading, PressureJudged
  <2>8. CASE opt.full
    <3>1. /\ JudgedOf(r) = stat["full"] /\ JudgedCounter = stat["full"]
          /\ JudgedOf(NULL) = NULL /\ JudgedOf(buf[tog]) = NULL
      BY <1>0, <2>2, <2>8, PressureJudged, JudgedCounterIs
    <3>2. LastOf(f, t) = JudgedOf(r) /\ EarlierOf(f, t) = LastOf(buf, tog)
      <4>1. CASE tog = 0
        <5>1. f[0] = r /\ f[1] = NULL /\ JudgedOf(buf[0]) = NULL /\ buf[1] = NULL
          BY <2>1, <2>6, <3>1, <4>1
        <5> QED BY <1>0, <3>1, <5>1, PressureJudged DEF LastOf, EarlierOf, LastIn
      <4>2. CASE tog = 1
        <5>1. f[1] = r /\ f[0] = buf[0] /\ JudgedOf(buf[1]) = NULL
          BY <2>1, <2>6, <3>1, <4>2
        <5>2. LastIn(f, t) = 1 /\ LastIn(buf, tog) = 0
          BY <1>0, <3>1, <5>1, PressureJudged DEF LastIn
        <5> QED BY <5>1, <5>2 DEF LastOf, EarlierOf
      <4> QED BY <1>0, <4>1, <4>2
    <3>3. Watched!Read
      BY <1>0, <2>3, <2>4, <2>5, <3>1, <3>2, WatchedReading, PressureJudged
    <3> QED BY <3>3 DEF Watched!Next
  <2> QED BY <2>7, <2>8
<1> QED BY <1>1, <1>2

\* The two modules judge a number alike.
LEMMA SameStatus == \A x, t : Watched!get_status(x, t) = get_status(x, t)
BY DEF Watched!get_status, get_status, Watched!check_range, check_range, Watched!NP_RANGE_INSIDE,
       NP_RANGE_INSIDE, Watched!STATE_OK, STATE_OK, Watched!STATE_WARNING, STATE_WARNING,
       Watched!STATE_CRITICAL, STATE_CRITICAL

\* What is judged is the growth per second between the last two readings.
LEMMA ResultIsRate ==
    ASSUME RatesInv, pc = "judge", Runs(RatesPrograms)
    PROVE  /\ LastOf(buf, tog) # NULL
           /\ Result = IF EarlierOf(buf, tog) = NULL THEN LastOf(buf, tog)
                       ELSE (LastOf(buf, tog) - EarlierOf(buf, tog)) \div
                            (IF Runs(RatesPrograms \ {"paging"}) THEN opt.delay ELSE 1)
<1>0. NULL \notin Nat /\ tog \in {0, 1} /\ RatesPlace
  BY RatesAssumption DEF RatesInv, RatesPlace
<1>1. CASE Runs({"cswch", "intr"})
  <2>1. ~Runs({"paging"}) /\ ~Runs({"pressure"}) /\ Runs(RatesPrograms \ {"paging"})
    BY <1>1 DEF Runs, RatesPrograms
  <2>2. \A r : JudgedOf(r) = r
    BY <1>1, <2>1, Zenon DEF JudgedOf
  <2>3. LastOf(buf, tog) = buf[tog] /\ EarlierOf(buf, tog) = buf[1 - tog]
    BY <1>1, <2>2 DEF LastOf, EarlierOf, LastIn
  <2>4. Result = (IF i = 1 THEN buf[0] ELSE (buf[tog] - buf[1 - tog]) \div opt.delay)
    BY <1>1, <2>1, Zenon DEF Result
  <2>5. /\ i \in Nat /\ i >= 1 /\ buf[tog] \in Nat /\ (i <= 1 => tog = 0 /\ buf[1] = NULL)
        /\ i >= 2 => buf[1 - tog] \in Nat
    BY <1>1 DEF RatesInv, Counted
  <2>6. CASE i = 1
    BY <1>0, <2>3, <2>4, <2>5, <2>6
  <2>7. CASE i >= 2
    BY <1>0, <2>1, <2>3, <2>4, <2>5, <2>7
  <2> QED BY <2>5, <2>6, <2>7
<1>2. CASE Runs({"paging"})
  <2>1. ~Runs({"cswch", "intr"}) /\ ~Runs({"pressure"}) /\ ~Runs(RatesPrograms \ {"paging"})
    BY <1>2 DEF Runs, RatesPrograms
  <2>2. /\ VmemRead /\ i = 2 /\ listed \in Layouts
    BY <1>2 DEF RatesInv, VmemRead, RatesPlace
  <2>3. \A b \in {0, 1} : /\ seen[b].stat \in [Stats -> Nat]
                          /\ buf[b] = proc_vmem_read(seen[b].stat, listed)
    BY <2>2 DEF VmemRead
  <2>4. ASSUME NEW b \in {0, 1}
        PROVE  /\ buf[b] \in VmReading /\ JudgedOf(buf[b]) \in Nat
               /\ JudgedOf(buf[b]) = (IF opt.swapping_only THEN buf[b].pswpin + buf[b].pswpout
                                                           ELSE buf[b].pgmajfault)
    <3>1. PICK v \in [Stats -> Nat] : v = seen[b].stat
      BY <2>3
    <3>2. buf[b] = proc_vmem_read(v, listed) /\ \A s \in Stats : v[s] <= v[s]
      BY <2>3, <3>1
    <3>3. buf[b] \in VmReading
      BY <2>2, <3>2, Getters
    <3> QED BY <1>2, <2>2, <3>2, <3>3, PagingJudged
  <2>5. LastIn(buf, tog) = 1
    BY <1>0, <2>1, <2>4 DEF LastIn
  <2>6. LastOf(buf, tog) = JudgedOf(buf[1]) /\ EarlierOf(buf, tog) = JudgedOf(buf[0])
    BY <2>5 DEF LastOf, EarlierOf
  <2>7. Result = (IF opt.swapping_only THEN Paging.pswpin + Paging.pswpout ELSE Paging.pgmajfault)
    BY <1>2, <2>1, Zenon DEF Result
  <2>8. /\ Paging.pswpin = buf[1].pswpin - buf[0].pswpin
        /\ Paging.pswpout = buf[1].pswpout - buf[0].pswpout
        /\ Paging.pgmajfault = buf[1].pgmajfault - buf[0].pgmajfault
    BY <2>4 DEF Paging, VmReading
  <2>9. Result = JudgedOf(buf[1]) - JudgedOf(buf[0])
    <3> DEFINE a == buf[1].pswpin
               b == buf[1].pswpout
               c == buf[0].pswpin
               d == buf[0].pswpout
    <3>1. a \in Int /\ b \in Int /\ c \in Int /\ d \in Int
      BY <2>4 DEF VmReading
    <3>2. (a - c) + (b - d) = (a + b) - (c + d)
      <4> HIDE DEF a, b, c, d
      <4> QED BY <3>1
    <3> QED BY <2>4, <2>7, <2>8, <3>2
  <2>10. JudgedOf(buf[1]) - JudgedOf(buf[0]) \in Int
    BY <2>4
  <2>11. \A x \in Int : x \div 1 = x
    OBVIOUS
  <2> QED BY <1>0, <2>1, <2>4, <2>6, <2>9, <2>10, <2>11
<1>3. CASE Runs({"pressure"})
  <2>1. ~Runs({"cswch", "intr"}) /\ ~Runs({"paging"}) /\ Runs(RatesPrograms \ {"paging"})
    BY <1>3 DEF Runs, RatesPrograms
  <2>2. PairRead(0) /\ PairRead(1) /\ ~RatesBadOptions
    BY <1>0, <1>3 DEF RatesInv, PressureRead, RatesPlace
  <2>3. opt.full => opt.resource # "cpu"
    BY <1>3, <2>2 DEF RatesBadOptions
  <2>4. ASSUME NEW b \in {0, 1}
        PROVE  JudgedOf(buf[b]) = (IF opt.full THEN buf[b].full ELSE buf[b].some)
               /\ JudgedOf(buf[b]) \in Nat
    <3>1. buf[b] \in PressureReading /\ buf[b].some \in Nat /\ (opt.full => buf[b].full \in Nat)
      BY <2>2, <2>3 DEF PairRead
    <3>2. buf[b] # NULL
      BY <3>1, RatesAssumption
    <3>3. JudgedOf(buf[b]) = IF buf[b] = NULL THEN NULL ELSE IF opt.full THEN buf[b].full ELSE buf[b].some
      BY <1>3, PressureJudged
    <3> QED BY <3>1, <3>2, <3>3
  <2>5. LastIn(buf, tog) = 1
    BY <1>0, <2>1, <2>4 DEF LastIn
  <2>6. LastOf(buf, tog) = JudgedOf(buf[1]) /\ EarlierOf(buf, tog) = JudgedOf(buf[0])
    BY <2>5 DEF LastOf, EarlierOf
  <2>7. Result = Starvation(IF opt.full THEN "full" ELSE "some")
    BY <1>3, <2>1, Zenon DEF Result
  <2>8. Result = (JudgedOf(buf[1]) - JudgedOf(buf[0])) \div opt.delay
    BY <2>4, <2>7 DEF Starvation
  <2> QED BY <1>0, <2>1, <2>4, <2>6, <2>8
<1> QED BY <1>1, <1>2, <1>3 DEF Runs, RatesPrograms

\* So is the exit status.
LEMMA RateIsJudged ==
    ASSUME RatesInv, JudgeRate
    PROVE  Watched!Judge
<1>0. /\ pc = "judge" /\ Runs(RatesPrograms) /\ exit = RUNNING
      /\ UNCHANGED <<opt, stat, listed, buf, tog>>
      /\ exit' = get_status(Result, opt.my_threshold)
  BY DEF JudgeRate, RatesInv, RatesPlace, Exit, ratesVars, kernel, readings
<1>1. Reached(Latest) = LastOf(buf, tog) /\ Reached(1 - Latest) = EarlierOf(buf, tog)
  BY <1>0, ReachedIs
<1>2. JudgedCounter' = JudgedCounter
  BY <1>0 DEF JudgedCounter, JudgedOf, Runs, Pattern
<1>3. Reached(Latest)' = Reached(Latest) /\ Reached(1 - Latest)' = Reached(1 - Latest)
  BY <1>0 DEF Reached, JudgedOf, Runs, Latest
<1>4. Reached(Latest) # NULL /\ Watched!Rate = Result
  BY <1>0, <1>1, ResultIsRate DEF Watched!Rate
<1>5. exit' = Watched!get_status(Watched!Rate, opt.my_threshold)
  BY <1>0, <1>4, SameStatus
<1>6. /\ Runs(RatesPrograms)' <=> Runs(RatesPrograms)
      /\ Runs(RatesPrograms \ {"paging"})' <=> Runs(RatesPrograms \ {"paging"})
  BY <1>0 DEF Runs
<1> QED BY <1>0, <1>2, <1>3, <1>4, <1>5, <1>6 DEF Watched!Judge, Watched!RUNNING, RUNNING

\* Each of the four plugins judges its counter as the specification of a watched counter
\* has it.
THEOREM RatesAreWatched == RatesSpec => ImplementsCounterRate
<1>1. ASSUME opt \in RatesOptions, PluginInit, RatesInit
      PROVE  Watched!Init
  <2>1. RatesInv /\ exit = RUNNING /\ Runs(RatesPrograms) /\ buf = [b \in {0, 1} |-> NULL] /\ tog = 0
    BY <1>1, RatesInitInv, RatesConstants DEF PluginInit, RatesInit, Runs
  <2>2. JudgedOf(NULL) = NULL
    BY Zenon DEF JudgedOf
  <2>3. Reached(Latest) = NULL /\ Reached(1 - Latest) = NULL
    <3>1. LastIn(buf, tog) \in {0, 1}
      BY <2>1 DEF LastIn
    <3> QED BY <2>1, <2>2, <3>1, ReachedIs DEF LastOf, EarlierOf
  <2>4. JudgedCounter \in Nat
    <3>1. /\ stat \in [Stats -> Nat] /\ listed \in Layouts /\ Pattern \in Stats
          /\ {"full", "some"} \subseteq Stats
      BY <2>1, PatternCounts, RatesConstants DEF RatesInv, RatesPlace
    <3>2. \A s \in Stats : stat[s] \in Nat /\ stat[s] <= stat[s]
      BY <3>1
    <3>3. Runs({"paging"}) => JudgedOf(proc_vmem_read(stat, listed)) \in Nat
      BY <3>1, <3>2, PagingJudged
    <3>4. (IF opt.full THEN "full" ELSE "some") \in Stats
      BY <3>1
    <3> QED BY <2>1, <3>1, <3>2, <3>3, <3>4, JudgedCounterIs DEF Runs, RatesPrograms
  <2> QED BY <2>1, <2>3, <2>4 DEF Watched!Init, Watched!RUNNING, RUNNING
<1>2. ASSUME RatesInv, [RatesNext]_<<main, ratesVars>>
      PROVE  [Watched!Next]_Watched!vars
  <2> USE DEF GiveUp, Exit, Goto, main, kernel, readings, ratesVars
  <2>1. Runs(RatesPrograms) /\ RatesPlace /\ (pc # "exited" => exit = RUNNING)
    BY <1>2, RatesConstants DEF RatesInv, RatesPlace, Runs
  <2>2. CASE RatesParseOptions
    <3>1. CASE RatesBadOptions
      <4>1. Watched!GiveUp
        BY <2>1, <2>2, <3>1, WatchedGiveUp DEF RatesParseOptions
      <4> QED BY <4>1 DEF Watched!Next
    <3>2. CASE ~RatesBadOptions
      BY <2>2, <3>2, NothingWatched DEF RatesParseOptions
    <3> QED BY <3>1, <3>2
  <2>3. CASE CountOnline \/ ReadColumns \/ Hotplug
    BY <2>3, NothingWatched DEF CountOnline, ReadColumns, Hotplug
  <2>4. CASE JudgeRate
    BY <1>2, <2>4, RateIsJudged DEF Watched!Next
  <2>5. CASE CountersGrow
    <3>1. /\ stat' \in [Stats -> Nat] /\ \A s \in Stats : stat[s] <= stat'[s]
          /\ UNCHANGED <<opt, exit, listed, buf, tog>>
      BY <2>1, <2>5, GrowthOfCounters, Zenon
    <3>2. JudgedCounter \in Nat /\ JudgedCounter' \in Nat /\ JudgedCounter <= JudgedCounter'
      BY <2>1, <3>1, JudgedCounterGrows
    <3>3. Reached(Latest)' = Reached(Latest) /\ Reached(1 - Latest)' = Reached(1 - Latest)
      BY <3>1 DEF Reached, JudgedOf, Runs, Latest
    <3>4. Watched!Grow
      BY <3>1, <3>2, <3>3 DEF Watched!Grow, Runs
    <3> QED BY <3>4 DEF Watched!Next
  <2>6. CASE UNCHANGED <<main, ratesVars>>
    BY <2>6, NothingWatched
  <2> QED BY <1>2, <2>2, <2>3, <2>4, <2>5, <2>6, CounterReading, VmemReading, SomeReading, FullReading
          DEF RatesNext, RatesPlugin
<1> QED BY <1>1, <1>2, RatesInvariant, PTL DEF RatesSpec, ImplementsCounterRate, Watched!Spec

-----------------------------------------------------------------------------
(***************************************************************************)
(* UNKNOWN for a reason: each plugin gives up exactly if an option is not  *)
(* acceptable or something it needs cannot be read.                        *)
(***************************************************************************)

\* A judgement is never UNKNOWN.
LEMMA JudgementKnows ==
    /\ \A value, t : get_status(value, t) # STATE_UNKNOWN
    /\ \A part, whole, t : get_statusPercent(part, whole, t) # STATE_UNKNOWN
    /\ RUNNING # STATE_UNKNOWN
BY DEF get_status, get_statusPercent, STATE_OK, STATE_WARNING, STATE_CRITICAL, STATE_UNKNOWN,
       RUNNING

\* The exit status of check_cswch, check_intr, check_paging and check_pressure.
RatesUnknown == pc = "exited" => (exit = STATE_UNKNOWN <=> RatesReason)

\* Once a reading has succeeded there is no reason.
RatesReasonInv ==
    /\ pc \in {"count", "columns", "full", "judge"} => ~RatesReason
    /\ RatesUnknown

\* The reasons are of the command line and of the files, neither of which changes.
LEMMA RatesReasonStays ==
    ASSUME UNCHANGED <<opt, listed>>
    PROVE  RatesReason' = RatesReason /\ RatesBadOptions' = RatesBadOptions
<1>1. RatesBadOptions' = RatesBadOptions
  BY DEF RatesBadOptions, Runs, BadDelay, BadCount
<1>2. RatesReason' = RatesReason
  BY <1>1 DEF RatesReason, Runs, Pattern
<1> QED BY <1>1, <1>2

\* Every step of the plugin keeps it.
LEMMA RatesReasonStep ==
    ASSUME RatesInv, RatesReasonInv, RatesPlugin
    PROVE  RatesReasonInv'
<1>0. UNCHANGED <<opt, listed>>
  BY DEF RatesPlugin, RatesParseOptions, ReadCounter, CountOnline, ReadColumns, ReadVmem,
         ReadSome, ReadFull, ReadPressure, JudgeRate, GiveUp, Exit, Goto, ratesVars, kernel
<1>1. RatesReason' = RatesReason /\ Runs(RatesPrograms)
  BY <1>0, RatesReasonStays, RatesConstants DEF RatesInv, RatesPlace, Runs
<1>2. pc = "read" => ~RatesBadOptions
  BY DEF RatesInv, RatesPlace
<1>3. CASE RatesParseOptions
  BY <1>1, <1>3 DEF RatesParseOptions, GiveUp, Exit, Goto, RatesReasonInv, RatesUnknown, RatesReason
<1>4. CASE ReadCounter
  <2>1. pc = "read" /\ Runs({"cswch", "intr"})
    BY <1>4 DEF ReadCounter
  <2>2. CASE Pattern \notin listed
    <3>1. pc' = "exited" /\ exit' = STATE_UNKNOWN /\ RatesReason
      BY <1>4, <2>1, <2>2 DEF ReadCounter, GiveUp, Exit, RatesReason
    <3> QED BY <1>1, <3>1 DEF RatesReasonInv, RatesUnknown
  <2>3. CASE Pattern \in listed
    <3>1. pc' \in {"count", "read", "judge"}
      BY <1>4, <2>3 DEF ReadCounter, Goto, Loop
    <3>2. ~RatesReason
      BY <1>2, <2>1, <2>3 DEF RatesReason, Runs
    <3> QED BY <1>1, <3>1, <3>2 DEF RatesReasonInv, RatesUnknown
  <2> QED BY <2>2, <2>3
<1>5. CASE CountOnline \/ ReadColumns
  <2>1. pc \in {"count", "columns"} /\ pc' \in {"columns", "read", "judge"}
    BY <1>5 DEF CountOnline, ReadColumns, Goto, Loop
  <2> QED BY <1>1, <2>1 DEF RatesReasonInv, RatesUnknown
<1>6. CASE ReadVmem
  <2>1. pc = "read" /\ Runs({"paging"})
    BY <1>6 DEF ReadVmem
  <2>2. CASE "vmstat" \notin listed
    <3>1. pc' = "exited" /\ exit' = STATE_UNKNOWN /\ RatesReason
      BY <1>6, <2>1, <2>2 DEF ReadVmem, GiveUp, Exit, RatesReason
    <3> QED BY <1>1, <3>1 DEF RatesReasonInv, RatesUnknown
  <2>3. CASE "vmstat" \in listed
    <3>1. pc' \in {"read", "judge"}
      BY <1>6, <2>3 DEF ReadVmem, Goto
    <3>2. ~RatesReason
      BY <1>2, <2>1, <2>3 DEF RatesReason, Runs
    <3> QED BY <1>1, <3>1, <3>2 DEF RatesReasonInv, RatesUnknown
  <2> QED BY <2>2, <2>3
<1>7. CASE ReadSome \/ ReadFull
  <2>1. pc \in {"read", "full"} /\ Runs({"pressure"}) /\ ~RatesBadOptions
    BY <1>7 DEF ReadSome, ReadFull, RatesInv, RatesPlace
  <2>2. CASE Files[opt.resource] \notin listed
    <3>1. pc' = "exited" /\ exit' = STATE_UNKNOWN /\ RatesReason
      BY <1>7, <2>1, <2>2 DEF ReadSome, ReadFull, ReadPressure, GiveUp, Exit, RatesReason
    <3> QED BY <1>1, <3>1 DEF RatesReasonInv, RatesUnknown
  <2>3. CASE Files[opt.resource] \in listed
    <3>1. pc' \in {"read", "full", "judge"}
      BY <1>7, <2>3 DEF ReadSome, ReadFull, ReadPressure, AfterPair, Goto
    <3>2. ~RatesReason
      BY <2>1, <2>3 DEF RatesReason, Runs
    <3> QED BY <1>1, <3>1, <3>2 DEF RatesReasonInv, RatesUnknown
  <2> QED BY <2>2, <2>3
<1>8. CASE JudgeRate
  <2>1. pc = "judge" /\ pc' = "exited" /\ exit' = get_status(Result, opt.my_threshold)
    BY <1>8 DEF JudgeRate, Exit
  <2>2. exit' # STATE_UNKNOWN
    BY <2>1, JudgementKnows
  <2> QED BY <1>1, <2>1, <2>2 DEF RatesReasonInv, RatesUnknown
<1> QED BY <1>3, <1>4, <1>5, <1>6, <1>7, <1>8 DEF RatesPlugin

\* check_cswch, check_intr, check_paging and check_pressure say UNKNOWN exactly if an option
\* is not acceptable or the file or line of their counter is missing, however often they read
\* it, and whatever becomes of /proc/interrupts.
THEOREM RatesGiveUpForAReason == RatesSpec => []RatesUnknown
<1>1. opt \in RatesOptions /\ PluginInit /\ RatesInit => RatesReasonInv
  BY DEF PluginInit, RatesReasonInv, RatesUnknown
<1>2. RatesInv /\ RatesReasonInv /\ [RatesNext]_<<main, ratesVars>> => RatesReasonInv'
  <2>1. ASSUME RatesReasonInv, CountersGrow \/ Hotplug \/ UNCHANGED <<main, ratesVars>>
        PROVE  RatesReasonInv'
    <3>1. UNCHANGED <<pc, opt, exit, listed>>
      BY <2>1 DEF CountersGrow, Hotplug, main, ratesVars, kernel
    <3> QED BY <2>1, <3>1, RatesReasonStays DEF RatesReasonInv, RatesUnknown
  <2> QED BY <2>1, RatesReasonStep DEF RatesNext
<1>3. RatesReasonInv => RatesUnknown
  BY DEF RatesReasonInv
<1> QED BY <1>1, <1>2, <1>3, RatesInvariant, PTL DEF RatesSpec

-----------------------------------------------------------------------------
\* The exit status of check_memory and check_swap.
MemoryUnknown == pc = "exited" => (exit = STATE_UNKNOWN <=> MemoryReason)

\* Which of the reasons has been ruled out at each place.
MemoryReasonInv ==
    /\ pc \in {"meminfo", "vmstat", "verdict"} => ~MemoryBadOptions /\ host.meminfo
    /\ pc \in {"vmstat", "verdict"} => host.available \/ host.version # "non-standard"
    /\ pc = "vmstat" => opt.vmstats
    /\ pc = "verdict" => ~opt.vmstats \/ host.vmstat
    /\ MemoryUnknown

\* The reasons are of the command line and the host, neither of which changes.
LEMMA MemoryReasonStays ==
    ASSUME UNCHANGED <<opt, host>>
    PROVE  MemoryReason' = MemoryReason /\ MemoryBadOptions' = MemoryBadOptions
BY DEF MemoryReason, MemoryBadOptions, Runs

\* Every step of the plugin keeps it.
LEMMA MemoryReasonStep ==
    ASSUME MemInv, MemoryReasonInv, MemoryPlugin
    PROVE  MemoryReasonInv'
<1>0. UNCHANGED <<opt, host>>
  BY DEF MemoryPlugin, MemoryParseOptions, proc_sysmem_read, ReadVmstats, JudgeMemory, GiveUp,
         Exit, Goto, memoryVars, system
<1>1. /\ MemoryReason' = MemoryReason /\ MemoryBadOptions' = MemoryBadOptions
      /\ host.vmstat \in BOOLEAN /\ host.meminfo \in BOOLEAN /\ host.available \in BOOLEAN
      /\ opt.vmstats \in BOOLEAN
  <2>1. host \in HostKind /\ opt \in MemoryCommandLine
    BY MemoryAssumption DEF MemInv, MemTypes
  <2> QED BY <1>0, <2>1, MemoryReasonStays DEF HostKind, MemoryCommandLine
<1>2. CASE MemoryParseOptions
  BY <1>0, <1>1, <1>2 DEF MemoryParseOptions, GiveUp, Exit, Goto, MemoryReasonInv,
     MemoryUnknown, MemoryReason
<1>3. CASE proc_sysmem_read
  BY <1>0, <1>1, <1>3 DEF proc_sysmem_read, GiveUp, Exit, Goto, MemoryReasonInv,
     MemoryUnknown, MemoryReason
<1>4. CASE ReadVmstats
  <2>1. CASE host.vmstat
    BY <1>0, <1>1, <1>4, <2>1 DEF ReadVmstats, Goto, MemoryReasonInv, MemoryUnknown
  <2>2. CASE ~host.vmstat
    <3>1. opt.vmstats
      BY <1>4 DEF ReadVmstats, MemoryReasonInv
    <3> QED BY <1>0, <1>1, <1>4, <2>2, <3>1 DEF ReadVmstats, GiveUp, Exit, MemoryReasonInv,
            MemoryUnknown, MemoryReason
  <2> QED BY <2>1, <2>2
<1>5. CASE JudgeMemory
  <2>1. pc = "verdict" /\ pc' = "exited" /\ exit' = StatusOf(Monitored, Whole)
    BY <1>5 DEF JudgeMemory, Exit
  <2>2. exit' # STATE_UNKNOWN
    BY <2>1, JudgementKnows DEF StatusOf
  <2>3. ~MemoryReason
    BY <2>1 DEF MemoryReasonInv, MemoryReason
  <2> QED BY <1>1, <2>1, <2>2, <2>3 DEF MemoryReasonInv, MemoryUnknown
<1> QED BY <1>2, <1>3, <1>4, <1>5 DEF MemoryPlugin

\* check_memory and check_swap say UNKNOWN exactly if an option is not acceptable, a file
\* they need is missing, or the version of the kernel cannot be told where it matters.
THEOREM MemoryGivesUpForAReason == MemorySpec => []MemoryUnknown
<1>1. opt \in MemoryOptions /\ PluginInit /\ MemoryInit => MemoryReasonInv
  BY DEF PluginInit, MemoryReasonInv, MemoryUnknown
<1>2. MemInv /\ MemoryReasonInv /\ [MemoryNext]_<<main, memoryVars>> => MemoryReasonInv'
  <2>1. ASSUME MemoryReasonInv, MovePage \/ WriteLine \/ UNCHANGED <<main, memoryVars>>
        PROVE  MemoryReasonInv'
    <3>1. UNCHANGED <<pc, opt, exit, host>>
      BY <2>1 DEF MovePage, WriteLine, main, memoryVars, system
    <3> QED BY <2>1, <3>1, MemoryReasonStays DEF MemoryReasonInv, MemoryUnknown
  <2> QED BY <2>1, MemoryReasonStep DEF MemoryNext
<1>3. MemoryReasonInv => MemoryUnknown
  BY DEF MemoryReasonInv
<1> QED BY <1>1, <1>2, <1>3, MemInvInvariant, PTL DEF MemorySpec

-----------------------------------------------------------------------------
\* The exit status of check_load, check_uptime, check_clock, check_cpufreq and
\* check_temperature.
SensorsUnknown == pc = "exited" => (exit = STATE_UNKNOWN <=> SensorsReason)

\* Which of the reasons has been ruled out, and the zone named so far.
SensorsReasonInv ==
    /\ pc \in {"value", "frequencies", "zones"} => ~HostLacks
    /\ zone = NULL => max_temp = 0 /\ Asked \subseteq unseen
    /\ zone # NULL => zone \in Asked
    /\ SensorsUnknown

\* The reasons are of the command line, the host and the zone named.
LEMMA SensorsReasonStays ==
    ASSUME UNCHANGED <<opt, sensors>>
    PROVE  /\ HostLacks' = HostLacks /\ Asked' = Asked
           /\ SensorsBadOptions' = SensorsBadOptions
           /\ zone' = zone => SensorsReason' = SensorsReason
<1>1. HostLacks' = HostLacks /\ Asked' = Asked /\ SensorsBadOptions' = SensorsBadOptions
  BY DEF HostLacks, Asked, SensorsBadOptions, Runs
<1>2. ASSUME zone' = zone PROVE SensorsReason' = SensorsReason
  BY <1>1, <1>2 DEF SensorsReason, Runs
<1> QED BY <1>1, <1>2

\* Giving up, or judging, where a reason is found, or none.
LEMMA SensorsEnd ==
    ASSUME SensorsReasonInv, NEW s, Exit(s), UNCHANGED <<sensors, zone, unseen, max_temp>>,
           s = STATE_UNKNOWN <=> SensorsReason
    PROVE  SensorsReasonInv'
<1>1. pc' = "exited" /\ exit' = s /\ opt' = opt
  BY DEF Exit
<1> QED BY <1>1, SensorsReasonStays DEF SensorsReasonInv, SensorsUnknown

\* Nor is the judgement of the load averages UNKNOWN.
LEMMA LoadKnows ==
    ASSUME Host
    PROVE  loadavg_status # STATE_UNKNOWN
<1>1. loadavg_status \in {STATE_OK, STATE_WARNING, STATE_CRITICAL}
  BY LoadJudged, Zenon
<1> QED BY <1>1 DEF STATE_OK, STATE_WARNING, STATE_CRITICAL, STATE_UNKNOWN

\* Each step of the plugin keeps it.
LEMMA SensorsReasonStep ==
    ASSUME SensorsInv, SensorsReasonInv, SensorsPlugin
    PROVE  SensorsReasonInv'
<1>0. pc # "options" /\ pc # "exited" => ~SensorsBadOptions /\ ~HostLacks
  BY DEF SensorsInv, Place, SensorsReasonInv
<1>1. CASE SensorsParseOptions
  <2>1. UNCHANGED <<opt, sensors, zone, unseen, max_temp>>
    BY <1>1 DEF SensorsParseOptions, GiveUp, Exit, Goto, sensorsVars, sensorsHost
  <2>2. CASE SensorsBadOptions \/ HostLacks
    BY <1>1, <2>1, <2>2, SensorsEnd DEF SensorsParseOptions, GiveUp, SensorsReason
  <2>3. CASE ~(SensorsBadOptions \/ HostLacks)
    <3>1. pc' # "exited"
      BY <1>1, <2>3 DEF SensorsParseOptions, Goto
    <3> QED BY <2>1, <2>3, <3>1, SensorsReasonStays DEF SensorsReasonInv, SensorsUnknown
  <2> QED BY <2>2, <2>3
<1>2. CASE JudgeValue
  <2>1. /\ UNCHANGED <<sensors, zone, unseen, max_temp>> /\ pc = "value"
        /\ Runs({"load", "uptime", "clock"})
    BY <1>2 DEF JudgeValue, sensorsVars, sensorsHost, SensorsInv, Place
  <2>2. SensorsReason <=> ~sensors.calls
    BY <1>0, <2>1 DEF SensorsReason, Runs
  <2>3. CASE ~sensors.calls
    BY <1>2, <2>1, <2>2, <2>3, SensorsEnd DEF JudgeValue, GiveUp
  <2>4. CASE sensors.calls
    <3> DEFINE s == CASE Runs({"load"}) -> loadavg_status
                      [] Runs({"uptime"}) -> get_status(sensors.uptime \div 60, opt.my_threshold)
                      [] Runs({"clock"}) -> get_status(labs(timedelta), opt.my_threshold)
    <3>1. Exit(s)
      BY <1>2, <2>4 DEF JudgeValue
    <3>2. loadavg_status # STATE_UNKNOWN
      BY LoadKnows DEF SensorsInv
    <3>3. s # STATE_UNKNOWN
      <4>1. CASE opt.program = "load"
        BY <3>2, <4>1, Zenon DEF Runs
      <4>2. CASE opt.program = "uptime"
        BY <4>2, JudgementKnows, Zenon DEF Runs
      <4>3. CASE opt.program = "clock"
        BY <4>3, JudgementKnows, Zenon DEF Runs
      <4> QED BY <2>1, <4>1, <4>2, <4>3 DEF Runs
    <3> HIDE DEF s
    <3> QED BY <2>1, <2>2, <2>4, <3>1, <3>3, SensorsEnd
  <2> QED BY <2>3, <2>4
<1>3. CASE JudgeFrequency
  <2>1. /\ UNCHANGED <<sensors, zone, unseen, max_temp>> /\ pc = "frequencies"
        /\ Runs({"cpufreq"}) /\ worst \in {STATE_OK, STATE_WARNING, STATE_CRITICAL}
    BY <1>3 DEF JudgeFrequency, sensorsHost, SensorsInv, Place, WorstSoFar
  <2>2. ~SensorsReason
    BY <1>0, <2>1 DEF SensorsReason, Runs
  <2>3. CASE Exit(worst)
    BY <2>1, <2>2, <2>3, SensorsEnd
       DEF STATE_OK, STATE_WARNING, STATE_CRITICAL, STATE_UNKNOWN
  <2>4. CASE UNCHANGED main
    BY <2>1, <2>4, SensorsReasonStays DEF main, SensorsReasonInv, SensorsUnknown
  <2> QED BY <1>3, <2>3, <2>4 DEF JudgeFrequency
<1>4. ASSUME NEW z \in Zone, ReadZone(z) PROVE SensorsReasonInv'
  <2>1. /\ UNCHANGED <<pc, opt, exit, sensors>> /\ pc = "zones" /\ unseen' = unseen \ {z}
        /\ z \in unseen
    BY <1>4 DEF ReadZone, main, sensorsHost
  <2>2. z # NULL /\ sensors.zones[z].there
    BY <2>1, SensorsAssumption, RatesAssumption DEF SensorsInv, Host
  <2>3. CASE opt.zone \notin {NULL, z}
    <3>1. UNCHANGED <<max_temp, zone>> /\ z \notin Asked
      BY <1>4, <2>3 DEF ReadZone, Asked
    <3> QED BY <2>1, <3>1, SensorsReasonStays DEF SensorsReasonInv, SensorsUnknown
  <2>4. CASE opt.zone \in {NULL, z}
    <3>1. z \in Asked
      BY <2>2, <2>4 DEF Asked
    <3>2. zone' = z \/ (zone' = zone /\ max_temp # 0)
      BY <1>4, <2>4 DEF ReadZone
    <3>3. zone' # NULL /\ zone' \in Asked
      BY <2>2, <3>1, <3>2 DEF SensorsReasonInv
    <3> QED BY <2>1, <3>3, SensorsReasonStays DEF SensorsReasonInv, SensorsUnknown
  <2> QED BY <2>3, <2>4
<1>5. CASE JudgeTemperature
  <2>1. /\ UNCHANGED <<sensors, zone, unseen, max_temp>> /\ pc = "zones" /\ unseen = {}
        /\ Runs({"temperature"})
    BY <1>5 DEF JudgeTemperature, sensorsVars, sensorsHost, SensorsInv, Place
  <2>2. zone = NULL <=> Asked = {}
    BY <2>1 DEF SensorsReasonInv
  <2>3. SensorsReason <=> zone = NULL \/ ~sensors.zones[zone].trip
    BY <1>0, <2>1, <2>2 DEF SensorsReason, Runs
  <2>4. CASE zone = NULL \/ ~sensors.zones[zone].trip
    BY <1>5, <2>1, <2>3, <2>4, SensorsEnd DEF JudgeTemperature, GiveUp
  <2>5. CASE ~(zone = NULL \/ ~sensors.zones[zone].trip)
    <3>1. Exit(TemperatureStatus(unsigned(int(max_temp))))
      BY <1>5, <2>5 DEF JudgeTemperature
    <3>2. TemperatureStatus(unsigned(int(max_temp))) # STATE_UNKNOWN
      BY JudgementKnows DEF TemperatureStatus
    <3> QED BY <2>1, <2>3, <2>5, <3>1, <3>2, SensorsEnd
  <2> QED BY <2>4, <2>5
<1> QED BY <1>1, <1>2, <1>3, <1>4, <1>5 DEF SensorsPlugin

\* check_load, check_uptime, check_clock, check_cpufreq and check_temperature say UNKNOWN
\* exactly if an option is not acceptable, a part of the host is missing, a call fails, or
\* there is no zone of those asked for, or the critical temperature of the one that is named
\* cannot be read, in whatever order readdir() returns the zones.
THEOREM SensorsGiveUpForAReason == SensorsSpec => []SensorsUnknown
<1>1. opt \in SensorsOptions /\ PluginInit /\ SensorsInit => SensorsReasonInv
  BY DEF PluginInit, SensorsInit, SensorsReasonInv, SensorsUnknown, Asked
<1>2. SensorsInv /\ SensorsReasonInv /\ [SensorsNext]_<<main, sensorsVars>> => SensorsReasonInv'
  <2>1. ASSUME SensorsReasonInv, FrequencyChanges \/ UNCHANGED <<main, sensorsVars>>
        PROVE  SensorsReasonInv'
    <3>1. UNCHANGED <<pc, opt, exit, sensors, zone, unseen, max_temp>>
      BY <2>1 DEF FrequencyChanges, main, sensorsVars, sensorsHost
    <3> QED BY <2>1, <3>1, SensorsReasonStays DEF SensorsReasonInv, SensorsUnknown
  <2> QED BY <2>1, SensorsReasonStep DEF SensorsNext
<1>3. SensorsReasonInv => SensorsUnknown
  BY DEF SensorsReasonInv
<1> QED BY <1>1, <1>2, <1>3, SensorsInvariant, PTL DEF SensorsSpec

-----------------------------------------------------------------------------
\* The exit status of check_fc.
PortsUnknown == pc = "exited" => NoVerdictOfPorts

\* Why check_fc does not look at the ports.
NoHosts == PortsBadOptions \/ ~fabric.sysfs \/ ~fabric.class

\* A port is there, or was there when the walk began.
WasThere(p) == p \in fabric.ports \/ port_state[p].there

\* What is still visited is or was there; when it is gone that is the reason.
PortsReasonInv ==
    /\ pc \in {"ports", "rx", "errors"} => ~NoHosts
    /\ \A p \in todo \cup maybe : WasThere(p)
    /\ pc \in {"rx", "errors"} => dp \in Port /\ WasThere(dp)
    /\ PortsUnknown

\* The reasons, as far as the ports are where they were.
LEMMA PortsReasonStays ==
    ASSUME UNCHANGED <<opt, fabric>>
    PROVE  /\ NoHosts' = NoHosts
           /\ port_state' = port_state => \A p : WasThere(p)' = WasThere(p)
BY DEF NoHosts, PortsBadOptions, BadDelay, BadCount, WasThere

\* The end: with UNKNOWN for a reason, with a verdict, or over a port that is gone.
LEMMA PortsEnd ==
    ASSUME PortsReasonInv, NEW s, Exit(s), UNCHANGED fcSystem,
           todo' \subseteq todo, maybe' \subseteq maybe,
           IF NoHosts THEN s = STATE_UNKNOWN
           ELSE \/ s \in Statuses \ {STATE_UNKNOWN}
                \/ \E p \in fabric.ports : ~port_state[p].there
    PROVE  PortsReasonInv'
<1>1. UNCHANGED <<opt, fabric, port_state>> /\ pc' = "exited" /\ exit' = s
  BY DEF Exit, fcSystem
<1>2. PortsBadOptions' = PortsBadOptions
  BY <1>1 DEF PortsBadOptions, BadDelay, BadCount
<1>3. PortsUnknown'
  BY <1>1, <1>2 DEF PortsUnknown, NoVerdictOfPorts, NoHosts, Judged
<1>4. \A p \in (todo \cup maybe)' : WasThere(p)'
  BY <1>1, PortsReasonStays DEF PortsReasonInv
<1> QED BY <1>1, <1>3, <1>4 DEF PortsReasonInv

\* A step that goes on.
LEMMA PortsGoOn ==
    ASSUME PortsReasonInv, UNCHANGED fcSystem, opt' = opt, ~NoHosts, pc' # "exited",
           todo' \subseteq todo \/ (\A p \in todo' : WasThere(p)), maybe' \subseteq maybe,
           pc' \in {"rx", "errors"} => dp' \in Port /\ WasThere(dp')
    PROVE  PortsReasonInv'
<1>1. UNCHANGED <<opt, fabric, port_state>>
  BY DEF fcSystem
<1>2. ~NoHosts' /\ \A p : WasThere(p)' = WasThere(p)
  BY <1>1, PortsReasonStays
<1>3. \A p \in (todo \cup maybe)' : WasThere(p)'
  BY <1>2 DEF PortsReasonInv
<1>4. pc' \in {"rx", "errors"} => dp' \in Port /\ WasThere(dp)'
  BY <1>1 DEF WasThere
<1> QED BY <1>2, <1>3, <1>4 DEF PortsReasonInv, PortsUnknown

\* Every step of the plugin keeps it.
LEMMA PortsReasonStep ==
    ASSUME PortsInv, PortsReasonInv, PortsPlugin
    PROVE  PortsReasonInv'
<1>1. CASE OpenHosts
  <2>1. UNCHANGED fcSystem /\ maybe' = maybe
    BY <1>1 DEF OpenHosts
  <2>2. CASE NoHosts
    <3>1. Exit(STATE_UNKNOWN) /\ todo' = todo
      BY <1>1, <2>2 DEF OpenHosts, NoHosts, GiveUp
    <3> QED BY <2>1, <2>2, <3>1, PortsEnd
  <2>3. CASE ~NoHosts
    <3>1. Goto("ports") /\ todo' = {p \in Port : port_state[p].there}
      BY <1>1, <2>3 DEF OpenHosts, NoHosts
    <3>2. \A p \in todo' : WasThere(p)
      BY <3>1 DEF WasThere
    <3> QED BY <2>1, <2>3, <3>1, <3>2, PortsGoOn DEF Goto
  <2> QED BY <2>2, <2>3
<1>2. ASSUME NEW p \in Port, VisitPort(p) PROVE PortsReasonInv'
  <2>1. /\ UNCHANGED fcSystem /\ todo' \subseteq todo /\ maybe' \subseteq maybe /\ dp' = p
        /\ pc = "ports" /\ p \in todo \cup maybe
    BY <1>2 DEF VisitPort
  <2>2. ~NoHosts /\ WasThere(p)
    BY <2>1 DEF PortsReasonInv
  <2>3. CASE port_state[p].there
    <3>1. Goto("rx")
      BY <1>2, <2>3 DEF VisitPort
    <3> QED BY <2>1, <2>2, <3>1, PortsGoOn DEF Goto
  <2>4. CASE ~port_state[p].there
    <3>1. Exit(CRASHED) /\ p \in fabric.ports
      BY <1>2, <2>2, <2>4 DEF VisitPort, Crash, WasThere
    <3> QED BY <2>1, <2>2, <2>4, <3>1, PortsEnd
  <2> QED BY <2>3, <2>4
<1>3. CASE ReadFrames \/ ReadErrors
  <2>1. /\ UNCHANGED <<fcSystem, todo, maybe, dp>> /\ pc \in {"rx", "errors"}
    BY <1>3 DEF ReadFrames, ReadErrors
  <2>2. ~NoHosts /\ dp \in Port /\ WasThere(dp)
    BY <2>1 DEF PortsReasonInv
  <2>3. CASE port_state[dp].there
    <3>1. \E label \in {"rx", "errors", "ports"} : Goto(label)
      BY <1>3, <2>3 DEF ReadFrames, ReadErrors
    <3> QED BY <2>1, <2>2, <3>1, PortsGoOn DEF Goto
  <2>4. CASE ~port_state[dp].there
    <3>1. Exit(STATE_UNKNOWN) /\ dp \in fabric.ports
      BY <1>3, <2>2, <2>4 DEF ReadFrames, ReadErrors, GiveUp, WasThere
    <3> QED BY <2>1, <2>2, <2>4, <3>1, PortsEnd
  <2> QED BY <2>3, <2>4
<1>4. CASE JudgePorts
  <2>1. /\ UNCHANGED <<fcSystem, todo, maybe>> /\ pc = "ports"
        /\ Exit(get_status(n_online, opt.my_threshold))
    BY <1>4 DEF JudgePorts, portsVars, fcWalk
  <2>2. get_status(n_online, opt.my_threshold) \in Statuses \ {STATE_UNKNOWN}
    BY StatusIs, JudgementKnows DEF Statuses
  <2>3. ~NoHosts
    BY <2>1 DEF PortsReasonInv
  <2> QED BY <2>1, <2>2, <2>3, PortsEnd
<1> QED BY <1>1, <1>2, <1>3, <1>4 DEF PortsPlugin

\* What becomes of the ports keeps it: one that was not there at first does not go.
LEMMA PortsReasonChange ==
    ASSUME PortsInv, PortsReasonInv, PortsChange
    PROVE  PortsReasonInv'
<1>1. /\ UNCHANGED <<pc, opt, exit, fabric, dp>> /\ pc # "exited"
  BY DEF PortsChange, Link, Frames, Appear, Vanish, Change, main
<1>2. port_state \in [Port -> [there : BOOLEAN, online : BOOLEAN, frames : Nat, errors : Nat]]
  BY DEF PortsInv, PortsTypeOK
<1>3. PICK p \in Port : Link(p) \/ Frames(p) \/ Appear(p) \/ Vanish(p)
  BY DEF PortsChange
<1>4. \A q \in Port : WasThere(q) => WasThere(q)'
  <2>1. CASE Link(p)
    BY <1>1, <1>2, <2>1 DEF Link, WasThere
  <2>2. CASE Frames(p)
    BY <1>1, <1>2, <2>2 DEF Frames, WasThere
  <2>3. CASE Appear(p)
    BY <1>1, <1>2, <2>3 DEF Appear, WasThere
  <2>4. CASE Vanish(p)
    BY <1>1, <1>2, <2>4 DEF Vanish, WasThere
  <2> QED BY <1>3, <2>1, <2>2, <2>3, <2>4
<1>5. todo \cup maybe \subseteq Port /\ \A q \in (todo \cup maybe)' : q \in todo \cup maybe \/ q = p
  BY <1>3 DEF Link, Frames, Appear, Vanish, PortsInv, PortsTypeOK
<1>6. p \in (todo \cup maybe)' /\ p \notin todo \cup maybe => WasThere(p)'
  BY <1>1, <1>2, <1>3 DEF Link, Frames, Appear, Vanish, WasThere
<1>7. \A q \in (todo \cup maybe)' : WasThere(q)'
  BY <1>4, <1>5, <1>6 DEF PortsReasonInv
<1>8. pc \in {"rx", "errors"} => WasThere(dp)'
  <2>1. ASSUME pc \in {"rx", "errors"} PROVE WasThere(dp)'
    <3>1. PICK q \in Port : q = dp /\ WasThere(q)
      BY <2>1 DEF PortsReasonInv
    <3>2. WasThere(q)'
      BY <1>4, <3>1
    <3> QED BY <1>1, <3>1, <3>2 DEF WasThere
  <2> QED BY <2>1
<1>9. NoHosts' = NoHosts
  BY <1>1, PortsReasonStays
<1> QED BY <1>1, <1>7, <1>8, <1>9 DEF PortsReasonInv, PortsUnknown

\* check_fc gives no verdict exactly if an option, sysfs or the class of the ports does not
\* allow it, and else only over a port that went away, however ports come and go.
THEOREM PortsGiveUpForAReason == PortsSpec => []PortsUnknown
<1>1. opt \in PortsOptions /\ PluginInit /\ PortsInit => PortsReasonInv
  BY DEF PluginInit, PortsInit, PortsReasonInv, PortsUnknown
<1>2. PortsInv /\ PortsReasonInv /\ [PortsNext]_<<main, portsVars>> => PortsReasonInv'
  <2>1. ASSUME PortsReasonInv, UNCHANGED <<main, portsVars>> PROVE PortsReasonInv'
    <3>1. UNCHANGED <<pc, opt, exit, fabric, port_state, todo, maybe, dp>>
      BY <2>1 DEF main, portsVars, fcSystem, fcWalk
    <3>2. PortsUnknown'
      BY <2>1, <3>1 DEF PortsReasonInv, PortsUnknown, NoVerdictOfPorts, PortsBadOptions,
         BadDelay, BadCount, Judged
    <3>3. NoHosts' = NoHosts /\ \A p : WasThere(p)' = WasThere(p)
      BY <3>1, PortsReasonStays
    <3>4. WasThere(dp)' = WasThere(dp)
      BY <3>1 DEF WasThere
    <3> QED BY <2>1, <3>1, <3>2, <3>3, <3>4 DEF PortsReasonInv
  <2> QED BY <2>1, PortsReasonStep, PortsReasonChange DEF PortsNext
<1>3. PortsReasonInv => PortsUnknown
  BY DEF PortsReasonInv
<1> QED BY <1>1, <1>2, <1>3, Invariant, PTL DEF PortsSpec
=============================================================================
