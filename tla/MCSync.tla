------------------------------- MODULE MCSync -------------------------------
(* One writer and one reader, of any two priorities.                       *)
EXTENDS Sync

TwoThreads == <<writer, reader>>
EachAlone == {{"fifo"}, {"buffer"}, {"barrier"}}
=============================================================================
