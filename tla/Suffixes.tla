------------------------------ MODULE Suffixes ------------------------------
(***************************************************************************)
(* lib/xstrton.c: a number with a suffix, as check_filecount takes its     *)
(* sizes and ages.  The suffix is the character at which strtod() stopped, *)
(* the terminator of the string if there is none.                          *)
(***************************************************************************)
EXTENDS Thresholds

Letters == {"s", "m", "h", "d", "w", "y", "b", "k", "g", "t", "p", "?"}

\* tenths: ten times the number, NULL if strtod() finds none or it is out of range;
\* trailing: whether characters follow the suffix; beyond: whether the byte in memory
\* that follows the terminator is another one than 0, as it is when another argument
\* or the environment follows.
Argument == [tenths : Int \cup {NULL}, suffix : Letters \cup {"none"},
             trailing : BOOLEAN, beyond : BOOLEAN]

\* agemultiplier, sizemultiplier: tenths of a second and of a byte; either case of a
\* letter will do.
agemultiplier(temp, mult) ==
    CASE mult \in {"none", "s"} -> temp
      [] mult = "m" -> temp * 60
      [] mult = "h" -> temp * 3600
      [] mult = "d" -> temp * 86400
      [] mult = "w" -> temp * 7 * 86400
      [] mult = "y" -> temp * 31557600
      [] OTHER -> NULL

sizemultiplier(temp, mult) ==
    CASE mult \in {"none", "b"} -> temp
      [] mult = "k" -> temp * 1000
      [] mult = "m" -> temp * 1000 * 1000
      [] mult = "g" -> temp * 1000 * 1000 * 1000
      [] mult = "t" -> temp * 1000 * 1000 * 1000 * 1000
      [] mult = "p" -> temp * 1000 * 1000 * 1000 * 1000 * 1000
      [] OTHER -> NULL

\* (long long int) of a double: towards zero.
truncated(tenths) == IF tenths < 0 THEN -((-tenths) \div 10) ELSE tenths \div 10

\* strtollint: the trailing character is the one after the suffix, even when the
\* suffix is the terminator.  temp: what the converter made of number and suffix.
\* NULL if it is refused.
strtollint(str, temp) ==
    IF \/ str.tenths = NULL
       \/ temp = NULL
       \/ IF str.suffix = "none" THEN str.beyond ELSE str.trailing
    THEN NULL ELSE truncated(temp)

\* An option that is not given leaves 0.
agetollint(str) ==
    IF str = NULL THEN 0 ELSE strtollint(str, agemultiplier(str.tenths, str.suffix))
sizetollint(str) ==
    IF str = NULL THEN 0 ELSE strtollint(str, sizemultiplier(str.tenths, str.suffix))
=============================================================================
