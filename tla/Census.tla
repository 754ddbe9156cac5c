------------------------------- MODULE Census -------------------------------
(***************************************************************************)
(* What a plugin that counts promises while what it counts comes and goes: *)
(* one answer, that counts everyone who was there all the time and nobody  *)
(* who never was.                                                          *)
(***************************************************************************)
EXTENDS NagStatus, Naturals, FiniteSets

CONSTANT Member

VARIABLES
    members,        \* who is there,
    seen,           \* who was there all the time, and at some time
    answer          \* NULL until it is given

census == <<members, seen, answer>>

Init ==
    /\ members \subseteq Member /\ answer = NULL
    /\ seen = [steady |-> members, ever |-> members]

ComeAndGo ==
    /\ members' \subseteq Member /\ UNCHANGED answer
    /\ seen' = [steady |-> seen.steady \cap members', ever |-> seen.ever \cup members']

Answer ==
    /\ answer = NULL /\ UNCHANGED <<members, seen>>
    /\ answer' \in Cardinality(seen.steady) .. Cardinality(seen.ever)

Next == ComeAndGo \/ Answer

Spec == Init /\ [][Next]_census
=============================================================================
