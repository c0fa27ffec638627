----------------------------- MODULE TimeEvent -----------------------------
(***************************************************************************)
(* One TimeEvent of src/independent/timeevent.cpp.  A thread arms it with  *)
(* two separate stores; SysTick propagates it at any moment, also between  *)
(* the two.                                                                *)
(***************************************************************************)
EXTENDS TimeModel

CONSTANTS EventTimes, EventPeriods   \* what the event is armed with

ASSUME EventAssumption == EventTimes \subseteq Nat /\ EventPeriods \subseteq Nat \ {0}

VARIABLES now,           \* NOW()
          eventAt, eventPeriod,
          arming,        \* the store that is still missing, if any
          startAt,       \* activatePeriodic's parameter
          asked,         \* history: what the event was last armed with,
          calls          \*   and how often handle was called since

eventVars == <<eventAt, eventPeriod, arming, startAt, asked, calls>>

EventInit ==
    /\ eventAt = EndOfTime /\ eventPeriod = 0
    /\ arming = "none" /\ startAt = 0
    /\ asked = [at |-> EndOfTime, period |-> 0, before |-> 0] /\ calls = 0

activateAt(time) ==
    /\ arming = "none"
    /\ eventAt' = time
    /\ asked' = [at |-> time, period |-> 0, before |-> eventPeriod] /\ calls' = 0
    /\ arming' = "period"
    /\ UNCHANGED <<eventPeriod, startAt>>

ActivateAtPeriod ==
    /\ arming = "period"
    /\ eventPeriod' = 0
    /\ arming' = "none"
    /\ UNCHANGED <<eventAt, startAt, asked, calls>>

activatePeriodic(start, period) ==
    /\ arming = "none"
    /\ eventPeriod' = period
    /\ startAt' = start /\ arming' = "at"
    /\ UNCHANGED <<eventAt, asked, calls>>

ActivatePeriodicAt ==
    /\ arming = "at"
    /\ eventAt' = startAt
    /\ asked' = [at |-> startAt, period |-> eventPeriod, before |-> 0] /\ calls' = 0
    /\ arming' = "none"
    /\ UNCHANGED <<eventPeriod, startAt>>

Due == eventAt < now

propagateUnarmed ==
    /\ IF Due THEN calls' = calls + 1 ELSE UNCHANGED calls
    /\ eventAt' = IF Due /\ eventPeriod # 0 THEN computeNextBeat(eventAt, eventPeriod, now) ELSE eventAt
    /\ UNCHANGED <<eventPeriod, arming, startAt, asked>>

(* The handler is called once, however many beats were missed.             *)
propagate ==
    /\ IF Due
       THEN /\ eventAt' = IF eventPeriod = 0 THEN EndOfTime
                          ELSE computeNextBeat(eventAt, eventPeriod, now)
            /\ calls' = calls + 1
       ELSE UNCHANGED <<eventAt, calls>>
    /\ UNCHANGED <<eventPeriod, arming, startAt, asked>>

Arm ==
    \/ \E time \in EventTimes : activateAt(time)
    \/ ActivateAtPeriod
    \/ \E start \in EventTimes, period \in EventPeriods : activatePeriodic(start, period)
    \/ ActivatePeriodicAt

-----------------------------------------------------------------------------
(* beat is one of begin, begin + period, begin + 2 * period, ...           *)
OnGrid(begin, period, beat) == \E k \in 0..beat : beat = begin + k * period

(* A periodic event stays on the beats it was armed for, however late      *)
(* SysTick propagates it (timeevent.cpp:66-70): it does not drift.         *)
EventOnGrid ==
    arming = "none" /\ asked.period > 0 =>
        eventAt = EndOfTime \/ OnGrid(asked.at, asked.period, eventAt)

(* A periodic event is called at most once for each beat that has passed,  *)
(* an event that was not periodic before it was armed with activateAt is   *)
(* called at most once (timeevent.h:85).                                   *)
NoExtraCall ==
    arming = "none" /\ (asked.period > 0 \/ asked.before = 0) =>
        calls <= IF now <= asked.at THEN 0
                 ELSE IF asked.period = 0 THEN 1
                 ELSE (now - 1 - asked.at) \div asked.period + 1
=============================================================================
