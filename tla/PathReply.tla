------------------------------ MODULE PathReply ------------------------------
(***************************************************************************)
(* What check_multipath makes of multipathd's answer to "show paths".      *)
(* A reply is the sequence of its lines; a line is the header, a path that *)
(* matches the "active ready" pattern, a path that does not, or blank.     *)
(***************************************************************************)
EXTENDS NagStatus, Sequences, FiniteSets

Rows == {"header", "ready", "faulty", "blank"}

\* strtok_r() yields the lines that are not empty.  The first of them is the
\* header; each later one that does not match the pattern is a faulty path.
check_for_faulty_paths(rows) ==
    Cardinality({row \in 1 .. Len(rows) :
                    /\ rows[row] \notin {"blank", "ready"}
                    /\ \E header \in 1 .. row - 1 : rows[header] # "blank"})

\* The end of main(): the status the number of faulty paths stands for.
PathStatus(rows) ==
    IF check_for_faulty_paths(rows) > 0 THEN STATE_CRITICAL ELSE STATE_OK
=============================================================================
