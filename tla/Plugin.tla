------------------------------- MODULE Plugin -------------------------------
(***************************************************************************)
(* What every plugin does alike: it parses its command line, gathers what  *)
(* it needs and leaves with one of the exit statuses.  The modules of the  *)
(* single plugins extend this one and share its variables: a host runs one *)
(* of them at a time, opt.program says which.                              *)
(***************************************************************************)
EXTENDS Thresholds

CONSTANTS
    Word,                   \* the modulus of unsigned long, 2^64 in the code
    DELAY_MAX, COUNT_MAX    \* the largest delay and count

ASSUME PluginAssumption == /\ Word \in Nat \ {0} /\ Word % 2 = 0
                           /\ DELAY_MAX \in Nat /\ COUNT_MAX \in Nat

unsigned(x) == x % Word
signed(x) == IF unsigned(x) < Word \div 2 THEN unsigned(x) ELSE unsigned(x) - Word

VARIABLES
    pc,     \* where the plugin is
    opt,    \* its command line
    exit    \* its exit status

main == <<pc, opt, exit>>

\* The plugin died of a signal: no status of its own.
CRASHED == -2

ExitStatuses == Statuses \cup {RUNNING, CRASHED}

Limits == [warning : RangeStruct \cup {NULL}, critical : RangeStruct \cup {NULL}]

PluginInit == pc = "options" /\ exit = RUNNING

Runs(programs) == opt.program \in programs

\* The values a part of the host may have: all those there may be if the plugins that
\* use it run, else any one of them.
Either(programs, S) == IF Runs(programs) THEN S ELSE {CHOOSE x \in S : TRUE}

\* delay and count are unsigned long: a negative argument is a huge one.
BadDelay(delay) == delay < 1 \/ DELAY_MAX < delay
BadCount(count) == count < 0 \/ COUNT_MAX < count

Goto(label) == pc' = label /\ UNCHANGED <<opt, exit>>

Exit(status) == pc' = "exited" /\ exit' = status /\ UNCHANGED opt

\* plugin_error (STATE_UNKNOWN, ...) and usage (stderr).
GiveUp == Exit(STATE_UNKNOWN)

Crash == Exit(CRASHED)

\* Ghosts of the plugins that read what comes and goes while they read it: what was
\* there all the time, and what was there at some time.
Since(S) == [steady |-> S, ever |-> S]
Meeting(seen, S) == [steady |-> seen.steady \cap S, ever |-> seen.ever \cup S]

\* The plugin gave its verdict.
Judged == pc = "exited" /\ exit \in Statuses \ {STATE_UNKNOWN}
=============================================================================
