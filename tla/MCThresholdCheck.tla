-------------------------- MODULE MCThresholdCheck --------------------------
(***************************************************************************)
(* A small instance: every string over four texts per side.  The bounds 1  *)
(* and 3 leave values below, at, between, at and above them, and let a     *)
(* range be empty (3:1); "junk" and "tilde" exercise strtod()'s zero.      *)
(***************************************************************************)
EXTENDS ThresholdCheck

MCTexts == {[kind |-> "empty", val |-> 0], [kind |-> "tilde", val |-> 0],
            [kind |-> "num", val |-> 1], [kind |-> "num", val |-> 3]}

NoText == [kind |-> "empty", val |-> 0]

MCStrings ==
    {[at |-> a, left |-> l, colon |-> TRUE, right |-> r, percent |-> TRUE] :
        a \in BOOLEAN, l \in MCTexts, r \in MCTexts}
    \cup
    {[at |-> a, left |-> l, colon |-> FALSE, right |-> NoText, percent |-> p] :
        a \in BOOLEAN, l \in MCTexts \cup {[kind |-> "junk", val |-> 0]},
        p \in BOOLEAN}

MCValues == 0 .. 4
=============================================================================
