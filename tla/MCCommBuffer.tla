---------------------------- MODULE MCCommBuffer ----------------------------
(* Instances of CommBuffer for TLC; the bounds are set in the cfg files.   *)
EXTENDS CommBuffer
=============================================================================
