---------------------------- MODULE MCContainer ----------------------------
(***************************************************************************)
(* Small instances of Container: three containers, two of images with the  *)
(* same short name; two chains, so that keys collide.                      *)
(***************************************************************************)
EXTENDS Container, TLC

Nginx == <<"nginx">>
MyNginx == <<"prom", "nginx">>
Redis == <<"redis">>
A == <<"a">>
B == <<"b">>
C == <<"c">>

MCKey == {Nginx, MyNginx, Redis, A, B, C}
MCHash == [key \in MCKey |-> IF key \in {Nginx, MyNginx, A, B} THEN 0 ELSE 1]
MCContainers == <<A, B, C>>
MCImageOf == A :> Nginx @@ B :> MyNginx @@ C :> Redis
NoLabels == [id \in {A, B, C} |-> <<>>]
SomeLabels == [NoLabels EXCEPT ![B] = <<[label |-> "other", value |-> A]>>,
                               ![C] = <<[label |-> "Id", value |-> Redis]>>]
MCAtStart == A :> 3 @@ B :> 4 @@ C :> NULL

UpTo(n) == [DefaultRange EXCEPT !.end = n, !.end_infinity = FALSE]

Count == [check_memory |-> FALSE, image |-> NULL, socket |-> TRUE, delay_ok |-> TRUE,
          ranges_ok |-> TRUE, unit |-> 1,
          my_threshold |-> [warning |-> UpTo(1), critical |-> UpTo(2)]]
Memory == [Count EXCEPT !.check_memory = TRUE]

MCOptionSets ==
    {Count, [Count EXCEPT !.image = Nginx], [Count EXCEPT !.image = C],
     Memory, [Memory EXCEPT !.unit = 2], [Memory EXCEPT !.image = Nginx],
     [Count EXCEPT !.socket = FALSE], [Memory EXCEPT !.delay_ok = FALSE],
     [Count EXCEPT !.ranges_ok = FALSE]}
FullName == {[Count EXCEPT !.image = MyNginx]}
CountOnly == {Count}
=============================================================================
