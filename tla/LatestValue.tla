----------------------------- MODULE LatestValue -----------------------------
(***************************************************************************)
(* What api/commbuffer.h promises: put replaces the value, and get         *)
(* delivers the value that was the latest at some moment between the call  *)
(* of get and its return.  Values are numbered in the order of the puts.   *)
(***************************************************************************)
EXTENDS Naturals

VARIABLES latest,  \* the value put last
          phase,   \* where the reader is in get
          held,    \* the value get has settled on
          got      \* the value get last delivered

vars == <<latest, phase, held, got>>

Init ==
    /\ latest = 0 /\ held = 0 /\ got = 0
    /\ phase = "idle"

Put ==
    /\ latest' = latest + 1
    /\ UNCHANGED <<phase, held, got>>

BeginGet ==
    /\ phase = "idle"
    /\ phase' = "begun"
    /\ UNCHANGED <<latest, held, got>>

Pick ==
    /\ phase = "begun"
    /\ held' = latest
    /\ phase' = "picked"
    /\ UNCHANGED <<latest, got>>

EndGet ==
    /\ phase = "picked"
    /\ got' = held
    /\ phase' = "idle"
    /\ UNCHANGED <<latest, held>>

Next == Put \/ BeginGet \/ Pick \/ EndGet

Spec == Init /\ [][Next]_vars
=============================================================================
