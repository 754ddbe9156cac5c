------------------------------ MODULE PathQuery ------------------------------
(***************************************************************************)
(* What check_multipath promises: it either obtains one whole answer and   *)
(* exits with the status of exactly that answer, or it obtains none and    *)
(* exits with anything but a verdict about the paths (UNKNOWN, or killed   *)
(* by SIGPIPE).                                                            *)
(***************************************************************************)
CONSTANTS Replies,      \* the answers the daemon may give
          Verdict,      \* the exit status each of them deserves
          Failures,     \* the exit statuses that are no verdict
          NULL,         \* no answer yet
          RUNNING       \* no exit status yet

VARIABLES answer,       \* the answer obtained
          exit          \* the exit status

vars == <<answer, exit>>

Init == answer = NULL /\ exit = RUNNING

Obtain == /\ answer = NULL /\ exit = RUNNING
          /\ answer' \in Replies
          /\ UNCHANGED exit

Decide == /\ answer # NULL /\ exit = RUNNING
          /\ exit' = Verdict[answer]
          /\ UNCHANGED answer

GiveUp == /\ answer = NULL /\ exit = RUNNING
          /\ exit' \in Failures
          /\ UNCHANGED answer

Next == Obtain \/ Decide \/ GiveUp

Spec == Init /\ [][Next]_vars
=============================================================================
