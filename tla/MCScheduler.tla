----------------------------- MODULE MCScheduler -----------------------------
(* Three threads, two of them of the same priority.                         *)
EXTENDS Scheduler

CONSTANTS low, low2, high, idle

TwoThreads == <<low, high>>
ThreeThreads == <<low, high, low2>>
Priorities == [t \in {low, low2, high, idle} |-> CASE t = high -> 2 [] t = idle -> 0 [] OTHER -> 1]
PrioritiesLowHigh == [t \in {low, high, idle} |-> Priorities[t]]
=============================================================================
