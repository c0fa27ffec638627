----------------------------- MODULE MCNetwork -----------------------------
(* Three nodes in a triangle, and a fourth behind one of them: what a      *)
(* publishes reaches c on two ways of different length, and d through c.   *)
EXTENDS Network

CONSTANTS a, b, c, d
TriangleAndTail == [l \in {"ab", "bc", "ca", "cd"} |->
    CASE l = "ab" -> {a, b} [] l = "bc" -> {b, c} [] l = "ca" -> {c, a} [] l = "cd" -> {c, d}]
OfA == {<<a, "ab">>, <<a, "ca">>, <<b, "bc">>}
ToTail == {<<c, "cd">>}
Reporting == {<<b, "bc">>, <<d, "cd">>}
Topics == [n \in {a, b, c, d} |-> CASE n = a -> <<1, 1>> [] n = c -> << >> [] OTHER -> <<0>>]
Times == [n \in {a, b, c, d} |-> IF n = a THEN 2 ELSE 0]

(* A bound: four messages, or two and a fault.                             *)
Bounded == count[a] + count[b] + count[d] + 2 * faults <= 4

MCSpec ==
    /\ Init /\ [][Next /\ Bounded']_vars
    /\ \A g \in Gateways : WF_vars(Receive(g)) /\ WF_vars(Distribute(g))
=============================================================================
