----------------------------- MODULE TimeModel -----------------------------
(***************************************************************************)
(* The arithmetic of src/independent/timemodel.cpp that the scheduler,     *)
(* periodic threads and time events share.  Times are nanoseconds.         *)
(***************************************************************************)
EXTENDS Integers

CONSTANT EndOfTime   \* END_OF_TIME: later than every time that is reached

ASSUME EndOfTimeAssumption == EndOfTime \in Nat

earlier(a, b) == IF a < b THEN a ELSE b
later(a, b) == IF a > b THEN a ELSE b

computeNextBeatFromNow(begin, period, timeNow) == timeNow + period

computeNextBeat(begin, period, timeNow) ==
    IF begin < 0 \/ period < 0 \/ timeNow < 0 THEN EndOfTime
    ELSE IF begin > timeNow THEN begin
    ELSE IF period = 0 \/ period >= EndOfTime - begin THEN EndOfTime
    ELSE ((timeNow - begin) \div period + 1) * period + begin
=============================================================================
