------------------------------ MODULE NagStatus ------------------------------
(***************************************************************************)
(* The exit statuses of a plugin (enum nagstatus) and the null pointer.    *)
(***************************************************************************)
EXTENDS Integers

\* The null pointer: an option not given, a range not set, no answer yet.
CONSTANT NULL

STATE_OK       == 0
STATE_WARNING  == 1
STATE_CRITICAL == 2
STATE_UNKNOWN  == 3
Statuses       == {STATE_OK, STATE_WARNING, STATE_CRITICAL, STATE_UNKNOWN}

\* The exit status of a plugin that still runs.
RUNNING == -1

\* The worse of two statuses: "if (currstatus > status) status = currstatus".
Worse(s, t) == IF t > s THEN t ELSE s
=============================================================================
