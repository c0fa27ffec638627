----------------------------- MODULE MCCanLink -----------------------------
(* Two senders with messages of different lengths.                         *)
EXTENDS CanLink

CONSTANTS x, y
Lengths == [s \in {x, y} |-> IF s = x THEN 3 ELSE 2]
=============================================================================
