----------------------------- MODULE MCMultipath -----------------------------
(***************************************************************************)
(* A small instance.  A size_t takes three units, the query three, and the *)
(* socket holds three: every transfer can be split at any place and every  *)
(* stream has to be drained to go on.  The answers: no lines, all ready,   *)
(* one faulty after a blank line, and one a unit too long for the buffer.  *)
(***************************************************************************)
EXTENDS Multipath

MCReplies == {<<>>, <<"header", "ready">>, <<"header", "blank", "faulty">>,
              <<"header", "ready", "ready", "ready">>}
=============================================================================
