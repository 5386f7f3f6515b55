--------------------------- MODULE MCThreadRuntime ---------------------------
(***************************************************************************)
(* Instances of ThreadRuntime: the programs the runs execute.              *)
(***************************************************************************)
EXTENDS ThreadRuntime

CONSTANTS w1, w2, w3, main

MCLabels == {"main", "worker", "nested"}

Spawn(l) == [op |-> "spawn", label |-> l]
Do(o) == [op |-> o, label |-> "worker"]

\* Three workers, ending by their label returning and by thread:exit, and two
\* joins as in tests/test_132_multi_join.aclm, the second after one more spawn:
\* workers may end before, between and after the joins.
TwoJoinsThenJoinAll ==
  [l \in MCLabels |->
     CASE l = "main" ->
            <<Spawn("worker"), Spawn("nested"), Do("join"), Spawn("worker"), Do("join"),
              Do("join_all")>>
       [] l = "nested" -> <<Do("exit")>>
       [] l = "worker" -> <<>>]

OneThenJoinAll ==
  [l \in MCLabels |->
     IF l = "main" THEN <<Spawn("worker"), Do("join_all")>> ELSE <<Do("exit")>>]
=============================================================================
