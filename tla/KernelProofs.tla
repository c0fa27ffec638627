---------------------------- MODULE KernelProofs ----------------------------
(***************************************************************************)
(* Two small parts of the kernel.  Suspension: beats, time events and the  *)
(* I/O interface keep their promises for all threads, periods and times.   *)
(* Fifo, for every set of values and every ring length of at least 2: its  *)
(* invariants, and that it implements BoundedQueue.                        *)
(***************************************************************************)
EXTENDS Suspension, Fifo, SequenceTheorems, TLAPS

-----------------------------------------------------------------------------
(* Suspension.                                                             *)

-----------------------------------------------------------------------------
(* Division of a natural number, as in computeNextBeat.                    *)
LEMMA DivBounds ==
    ASSUME NEW a \in Nat, NEW p \in Nat \ {0}
    PROVE  /\ a \div p \in Nat
           /\ (a \div p) * p <= a
           /\ a < (a \div p + 1) * p
    OBVIOUS

(* c whole periods fit into a.                                             *)
LEMMA DivGreatest ==
    ASSUME NEW a \in Nat, NEW p \in Nat \ {0}, NEW c \in Nat, c * p <= a
    PROVE  c <= a \div p
<1> DEFINE d == a \div p
<1>1. d \in Nat /\ a < (d + 1) * p
    BY DivBounds, Zenon
<1> HIDE DEF d
<1>2. ASSUME c > d PROVE FALSE
    <2>1. c * p >= (d + 1) * p
        <3>1. PICK e \in Nat : c = (d + 1) + e
            BY <1>1, <1>2
        <3>2. c * p = (d + 1) * p + e * p /\ e * p >= 0
            BY <1>1, <3>1
        <3> QED BY <1>1, <3>2
    <2> QED BY <1>1, <2>1
<1> QED
    BY <1>1, <1>2 DEF d

(* Division is monotone.                                                   *)
LEMMA DivMonotone ==
    ASSUME NEW a \in Nat, NEW p \in Nat \ {0}
    PROVE  a \div p <= (a + 1) \div p
<1> DEFINE d == a \div p
<1>1. d \in Nat /\ d * p <= a
    BY DivBounds, Zenon
<1> HIDE DEF d
<1>2. d * p <= a + 1
    BY <1>1
<1>3. d <= (a + 1) \div p
    BY <1>1, <1>2, DivGreatest
<1> QED
    BY <1>3, Zenon DEF d

(* The grid is closed under steps of the period.                           *)
LEMMA GridClosed ==
    ASSUME NEW b \in Nat, NEW p \in Nat \ {0}, NEW x \in Nat, NEW q \in Nat, OnGrid(b, p, x)
    PROVE  OnGrid(b, p, x + q * p)
<1>1. PICK k \in 0..x : x = b + k * p
    BY Zenon DEF OnGrid
<1>2. x + q * p = b + (k + q) * p
    BY <1>1
<1>3. q <= q * p
    OBVIOUS
<1>4. k + q \in 0..(x + q * p)
    BY <1>3
<1> QED
    BY <1>2, <1>4, Zenon DEF OnGrid

(* The first beat is on the grid.                                          *)
LEMMA GridBegin ==
    ASSUME NEW b \in Nat, NEW p \in Nat
    PROVE  OnGrid(b, p, b)
<1>1. 0 \in 0..b /\ b = b + 0 * p
    OBVIOUS
<1> QED
    BY <1>1, Zenon DEF OnGrid

(* computeNextBeat returns a beat after timeNow: begin itself, the first   *)
(* beat after timeNow, or the end of time.                                 *)
LEMMA NextBeat ==
    ASSUME NEW x \in Nat, NEW p \in Nat \ {0}, NEW n \in Nat, n < EndOfTime
    PROVE  /\ computeNextBeat(x, p, n) \in Nat /\ computeNextBeat(x, p, n) > n
           /\ \/ computeNextBeat(x, p, n) = EndOfTime
              \/ computeNextBeat(x, p, n) = x /\ x > n
              \/ /\ x <= n /\ computeNextBeat(x, p, n) - p <= n
                 /\ \E q \in Nat : q >= 1 /\ computeNextBeat(x, p, n) = x + q * p
<1> DEFINE d == (n - x) \div p
<1>1. CASE x > n
    BY <1>1, EndOfTimeAssumption, Zenon DEF computeNextBeat
<1>2. CASE x <= n /\ p >= EndOfTime - x
    BY <1>2, EndOfTimeAssumption, Zenon DEF computeNextBeat
<1>3. CASE x <= n /\ ~(p >= EndOfTime - x)
    <2>1. computeNextBeat(x, p, n) = (d + 1) * p + x
        BY <1>3, EndOfTimeAssumption DEF computeNextBeat
    <2>2. d \in Nat /\ d * p <= n - x /\ n - x < (d + 1) * p
        BY <1>3, DivBounds
    <2>3. (d + 1) * p = d * p + p /\ (d + 1) * p \in Nat /\ d + 1 \in Nat
        BY <2>2
    <2> HIDE DEF d
    <2> QED
        BY <1>3, <2>1, <2>2, <2>3
<1> QED
    BY <1>1, <1>2, <1>3, EndOfTimeAssumption

(* computeNextBeat stays on the grid.                                      *)
LEMMA NextBeatOnGrid ==
    ASSUME NEW b \in Nat, NEW p \in Nat \ {0}, NEW x \in Nat, NEW n \in Nat, n < EndOfTime,
           OnGrid(b, p, x)
    PROVE  \/ computeNextBeat(x, p, n) = EndOfTime
           \/ OnGrid(b, p, computeNextBeat(x, p, n))
<1> DEFINE r == computeNextBeat(x, p, n)
<1>0. r = EndOfTime \/ (r = x /\ x > n) \/ (x <= n /\ r - p <= n /\ \E q \in Nat : q >= 1 /\ r = x + q * p)
    BY NextBeat, Zenon
<1> HIDE DEF r
<1>1. r = EndOfTime \/ r = x \/ \E q \in Nat : r = x + q * p
    BY <1>0, Zenon
<1>2. ASSUME NEW q \in Nat, r = x + q * p PROVE OnGrid(b, p, r)
    BY <1>2, GridClosed, Zenon
<1>3. r = EndOfTime \/ OnGrid(b, p, r)
    BY <1>1, <1>2, Zenon
<1> QED
    BY <1>3, Zenon DEF r

-----------------------------------------------------------------------------
(* The invariant.                                                          *)

(* A periodic event is armed with the period it was asked for, and has     *)
(* been called at most once for each beat before eventAt.                  *)
EventKept ==
    /\ arming = "period" => asked.period = 0
    /\ arming = "none" =>
        /\ eventPeriod = asked.period
        /\ asked.period > 0 /\ eventAt # EndOfTime =>
            /\ OnGrid(asked.at, asked.period, eventAt)
            /\ asked.at + calls * asked.period <= eventAt

(* An event that is armed with activateAt has not been called yet, or will *)
(* never be called again.                                                  *)
OnceKept ==
    arming # "at" /\ asked.period = 0 /\ asked.before = 0 =>
        /\ eventPeriod = 0
        /\ (calls = 0 /\ eventAt = asked.at) \/ (calls <= 1 /\ eventAt = EndOfTime /\ now > asked.at)

(* What is known of a thread with a period.                                *)
BeatsKept ==
    \A t \in Threads :
        /\ returnedAt[t] <= now
        /\ beatPeriod[t] # 0 /\ returnedAt[t] = 0 => nextBeat[t] = begin[t]

(* A thread that waits for the interface and was not resumed is the one    *)
(* that the next up-call resumes.                                          *)
Registered ==
    \A t \in Threads :
        pc[t] = "io" =>
            /\ t \in Readers /\ waitsFor[t] \in Events
            /\ suspendedUntil[t] = 0 \/ (caller[waitsFor[t]] = t /\ ~finished[waitsFor[t]])

InTime == now \in 1..MaxTime

SuspensionInv ==
    /\ SuspensionTypeOK /\ InTime /\ EventKept /\ OnceKept /\ NoExtraCall
    /\ BeatsOnGrid /\ NextBeatIsNext /\ BeatsKept

-----------------------------------------------------------------------------
(* The steps of the time event keep the invariant.                         *)
LEMMA ArmKeeps ==
    ASSUME SuspensionInv, ArmEvent
    PROVE  SuspensionInv'
<1> USE EventAssumption, EndOfTimeAssumption DEF SuspensionInv, ArmEvent, beatVars, ioVars
<1>1. SuspensionTypeOK' /\ InTime'
    BY DEF SuspensionTypeOK, InTime, Arm, activateAt, ActivateAtPeriod, activatePeriodic, ActivatePeriodicAt
<1>2. BeatsOnGrid' /\ NextBeatIsNext' /\ BeatsKept'
    BY Zenon DEF BeatsOnGrid, NextBeatIsNext, BeatsKept
<1>3. EventKept' /\ OnceKept' /\ NoExtraCall'
    <2>1. ASSUME NEW time \in EventTimes, activateAt(time) PROVE EventKept' /\ OnceKept' /\ NoExtraCall'
        BY <2>1, Zenon DEF activateAt, SuspensionTypeOK, EventKept, OnceKept, NoExtraCall
    <2>2. ASSUME ActivateAtPeriod PROVE EventKept' /\ OnceKept' /\ NoExtraCall'
        BY <2>2 DEF ActivateAtPeriod, SuspensionTypeOK, EventKept, OnceKept, NoExtraCall
    <2>3. ASSUME NEW start \in EventTimes, NEW period \in EventPeriods, activatePeriodic(start, period)
          PROVE EventKept' /\ OnceKept' /\ NoExtraCall'
        BY <2>3, Zenon DEF activatePeriodic, SuspensionTypeOK, EventKept, OnceKept, NoExtraCall
    <2>4. ASSUME ActivatePeriodicAt PROVE EventKept' /\ OnceKept' /\ NoExtraCall'
        <3>1. OnGrid(startAt, eventPeriod, startAt) /\ startAt + 0 * eventPeriod = startAt
            BY GridBegin DEF SuspensionTypeOK
        <3>2. OnceKept'
            BY <2>4, Zenon DEF ActivatePeriodicAt, SuspensionTypeOK, OnceKept
        <3>3. EventKept'
            BY <2>4, <3>1 DEF ActivatePeriodicAt, SuspensionTypeOK, EventKept
        <3>4. NoExtraCall'
            BY <2>4 DEF ActivatePeriodicAt, SuspensionTypeOK, NoExtraCall
        <3> QED BY <3>2, <3>3, <3>4, Zenon
    <2> QED
        BY <2>1, <2>2, <2>3, <2>4, Zenon DEF Arm
<1> QED
    BY <1>1, <1>2, <1>3, Zenon

(* SysTick, which propagates the time event, keeps the invariant.         *)
LEMMA SysTickKeeps ==
    ASSUME SuspensionInv, SysTick
    PROVE  SuspensionInv'
<1> USE EventAssumption, EndOfTimeAssumption, SuspensionAssumption DEF SuspensionInv, SysTick, beatVars, ioVars
<1> DEFINE r == computeNextBeat(eventAt, eventPeriod, now)
<1>1. now \in Nat /\ now < EndOfTime /\ eventAt \in Nat /\ calls \in Nat /\ eventPeriod \in Nat
    BY DEF SuspensionTypeOK, InTime
<1>2. ASSUME Due, eventPeriod # 0
      PROVE  r \in Nat /\ r > now /\ (r = EndOfTime \/ r >= eventAt + eventPeriod)
    <2>0. /\ r \in Nat /\ r > now
          /\ \/ r = EndOfTime
             \/ r = eventAt /\ eventAt > now
             \/ /\ eventAt <= now /\ r - eventPeriod <= now
                /\ \E q \in Nat : q >= 1 /\ r = eventAt + q * eventPeriod
        BY <1>1, <1>2, NextBeat, Zenon
    <2> HIDE DEF r
    <2>1. r = EndOfTime \/ \E q \in Nat : q >= 1 /\ r = eventAt + q * eventPeriod
        <3>1. ~(eventAt > now)
            BY <1>1, <1>2 DEF Due
        <3> QED BY <2>0, <3>1, Zenon
    <2>2. ASSUME NEW q \in Nat, q >= 1, r = eventAt + q * eventPeriod PROVE r >= eventAt + eventPeriod
        <3>1. q * eventPeriod >= eventPeriod
            BY <1>1, <2>2
        <3> QED BY <1>1, <2>2, <3>1
    <2> QED BY <2>0, <2>1, <2>2, Zenon
<1>3. SuspensionTypeOK' /\ InTime'
    BY <1>1, <1>2 DEF SuspensionTypeOK, InTime, propagate, resume
<1>4. BeatsOnGrid' /\ NextBeatIsNext' /\ BeatsKept'
    BY Zenon DEF BeatsOnGrid, NextBeatIsNext, BeatsKept
<1>5. CASE ~Due
    <2>1. EventKept' /\ OnceKept' /\ NoExtraCall'
        BY <1>5, Zenon DEF propagate, EventKept, OnceKept, NoExtraCall
    <2> QED BY <1>3, <1>4, <2>1, Zenon
<1>6. CASE Due
    <2> DEFINE at == asked.at  p == asked.period
    <2>1. at \in Nat /\ p \in Nat /\ calls' = calls + 1 /\ eventAt # EndOfTime
        BY <1>1, <1>6 DEF SuspensionTypeOK, propagate, Due
    <2>2. OnceKept'
        BY <1>1, <1>6, <2>1 DEF OnceKept, propagate, Due, SuspensionTypeOK
    <2>3. EventKept'
        <3>1. arming' = "period" => asked'.period = 0
            BY Zenon DEF EventKept, propagate
        <3>2. ASSUME arming = "none", p > 0, r # EndOfTime
              PROVE  OnGrid(at, p, r) /\ at + (calls + 1) * p <= r
            <4>1. eventPeriod = p /\ OnGrid(at, p, eventAt) /\ at + calls * p <= eventAt
                BY <2>1, <3>2, Zenon DEF EventKept
            <4>2. OnGrid(at, p, r)
                BY <1>1, <2>1, <3>2, <4>1, NextBeatOnGrid
            <4>3. (calls + 1) * p = calls * p + p /\ calls * p \in Nat
                BY <1>1, <2>1
            <4> QED BY <1>1, <1>2, <1>6, <2>1, <3>2, <4>1, <4>2, <4>3
        <3>3. arming = "none" /\ p > 0 => eventAt' = r
            BY <1>6, <2>1 DEF propagate, EventKept
        <3> HIDE DEF r
        <3> QED BY <2>1, <3>1, <3>2, <3>3, Zenon DEF EventKept, propagate
    <2>4. NoExtraCall'
        <3>1. ASSUME arming = "none", p > 0
              PROVE  now > at /\ calls <= (now - 1 - at) \div p
            <4>1. at + calls * p <= eventAt /\ eventAt < now
                BY <1>6, <2>1, <3>1, Zenon DEF EventKept, Due
            <4>2. calls * p \in Nat
                BY <1>1, <2>1
            <4>3. now - 1 - at \in Nat /\ calls * p <= now - 1 - at
                BY <1>1, <2>1, <4>1, <4>2
            <4> QED BY <1>1, <2>1, <3>1, <4>2, <4>3, DivGreatest
        <3>2. ASSUME arming = "none", p = 0, asked.before = 0
              PROVE  now > at /\ calls = 0
            BY <1>1, <1>6, <2>1, <3>2, Zenon DEF OnceKept, Due
        <3>3. ASSUME arming = "none", p > 0 PROVE (now - 1 - at) \div p \in Nat
            BY <1>1, <2>1, <3>1, <3>3, DivBounds
        <3> QED BY <1>1, <2>1, <3>1, <3>2, <3>3 DEF NoExtraCall, propagate
    <2> QED BY <1>3, <1>4, <2>2, <2>3, <2>4, Zenon
<1> QED
    BY <1>5, <1>6, Zenon

(* Time that passes keeps the invariant.                                  *)
LEMMA TickKeeps ==
    ASSUME SuspensionInv, Tick
    PROVE  SuspensionInv'
<1> USE EndOfTimeAssumption, SuspensionAssumption DEF SuspensionInv, Tick, eventVars, beatVars, ioVars
<1>1. now \in Nat /\ now' = now + 1 /\ asked.at \in Nat /\ asked.period \in Nat /\ calls \in Nat
    BY Zenon DEF SuspensionTypeOK, InTime
<1>2. SuspensionTypeOK' /\ InTime'
    BY DEF SuspensionTypeOK, InTime
<1>3. BeatsOnGrid' /\ NextBeatIsNext' /\ BeatsKept'
    BY <1>1 DEF BeatsOnGrid, NextBeatIsNext, BeatsKept, SuspensionTypeOK
<1>4. EventKept' /\ OnceKept'
    BY <1>1 DEF EventKept, OnceKept
<1>5. NoExtraCall'
    <2> DEFINE a == now - 1 - asked.at  p == asked.period
    <2>1. ASSUME now > asked.at, p > 0 PROVE a \in Nat /\ a \div p \in Nat /\ a \div p <= (a + 1) \div p
        <3>1. a \in Nat /\ p \in Nat \ {0}
            BY <1>1, <2>1
        <3> HIDE DEF a, p
        <3> QED BY <3>1, DivBounds, DivMonotone, Zenon
    <2>2. ASSUME now = asked.at, p > 0 PROVE (now + 1 - 1 - asked.at) \div p \in Nat
        BY <1>1, <2>2, DivBounds
    <2>3. a + 1 = now' - 1 - asked.at
        BY <1>1
    <2>4. CASE p = 0
        BY <1>1, <2>4 DEF NoExtraCall
    <2>5. CASE p > 0
        <3>1. CASE now > asked.at
            <4>1. a \div p <= (now' - 1 - asked.at) \div p /\ a \div p \in Nat
                BY <2>1, <2>3, <2>5, <3>1, Zenon
            <4>2. (now' - 1 - asked.at) \div p \in Nat
                BY <1>1, <2>5, <3>1, DivBounds
            <4>3. arming = "none" => calls <= a \div p + 1
                BY <1>1, <2>5, <3>1 DEF NoExtraCall
            <4>4. arming = "none" => calls <= (now' - 1 - asked.at) \div p + 1
                BY <1>1, <4>1, <4>2, <4>3
            <4> QED BY <1>1, <2>5, <3>1, <4>4 DEF NoExtraCall
        <3>2. CASE now = asked.at
            BY <1>1, <2>2, <2>5, <3>2 DEF NoExtraCall
        <3>3. CASE now < asked.at
            BY <1>1, <2>5, <3>3 DEF NoExtraCall
        <3> QED BY <1>1, <3>1, <3>2, <3>3
    <2> QED BY <1>1, <2>4, <2>5
<1> QED
    BY <1>2, <1>3, <1>4, <1>5, Zenon

(* setPeriodicBeat and suspendUntilNextBeat keep the invariant.           *)
LEMMA BeatKeeps ==
    ASSUME SuspensionInv, NEW t \in Threads, Beat(t)
    PROVE  SuspensionInv'
<1> USE EndOfTimeAssumption, SuspensionAssumption DEF SuspensionInv, eventVars, beatVars, ioVars
<1>1. ASSUME UNCHANGED <<now, eventVars>> PROVE InTime' /\ EventKept' /\ OnceKept' /\ NoExtraCall'
    BY <1>1, Zenon DEF InTime, EventKept, OnceKept, NoExtraCall
<1>2. ASSUME NEW b \in Begins, NEW p \in Periods, setPeriodicBeat(t, b, p) PROVE SuspensionInv'
    <2>1. SuspensionTypeOK'
        BY <1>2, Zenon DEF setPeriodicBeat, SuspensionTypeOK
    <2>2. OnGrid(b, p, b)
        BY GridBegin, Zenon
    <2>3. BeatsOnGrid' /\ NextBeatIsNext' /\ BeatsKept'
        BY <1>2, <2>2 DEF setPeriodicBeat, SuspensionTypeOK, BeatsOnGrid, NextBeatIsNext, BeatsKept
    <2> QED BY <1>1, <1>2, <2>1, <2>3, Zenon DEF setPeriodicBeat
<1>3. ASSUME suspendUntilNextBeat(t) \/ NoPeriod(t) PROVE SuspensionInv'
    <2>1. SuspensionTypeOK'
        BY <1>3 DEF suspendUntilNextBeat, NoPeriod, Suspend, SuspensionTypeOK
    <2>2. BeatsOnGrid' /\ NextBeatIsNext' /\ BeatsKept'
        BY <1>3, Zenon DEF suspendUntilNextBeat, NoPeriod, BeatsOnGrid, NextBeatIsNext, BeatsKept
    <2> QED BY <1>1, <1>3, <2>1, <2>2, Zenon DEF suspendUntilNextBeat, NoPeriod
<1>4. ASSUME BeatReturn(t) PROVE SuspensionInv'
    <2> DEFINE x == nextBeat[t]  p == beatPeriod[t]  r == computeNextBeat(x, p, now)
    <2>1. /\ now \in Nat /\ now # 0 /\ now < EndOfTime /\ x \in Nat
          /\ p \in Nat /\ begin[t] \in Nat /\ returnedAt[t] \in Nat
        <3>1. p \in Periods \cup {0}
            BY Zenon DEF SuspensionTypeOK
        <3>2. x \in Nat /\ begin[t] \in Nat /\ returnedAt[t] \in Nat
            BY Zenon DEF SuspensionTypeOK
        <3>3. now \in Nat /\ now # 0 /\ now < EndOfTime
            BY DEF InTime, SuspensionTypeOK
        <3>4. \A q \in Periods \cup {0} : q \in Nat
            OBVIOUS
        <3> QED BY <3>1, <3>2, <3>3, <3>4, Zenon
    <2>2. r \in Nat /\ (p # 0 => r > now /\ (r = EndOfTime \/ (r = x /\ x > now) \/ r - p <= now))
        <3>1. CASE p = 0
            BY <2>1, <3>1, Zenon DEF computeNextBeat
        <3>2. CASE p # 0
            BY <2>1, <3>2, NextBeat, Zenon
        <3> QED BY <3>1, <3>2, Zenon
    <2>3. p # 0 => r = EndOfTime \/ OnGrid(begin[t], p, r)
        <3>1. CASE x = EndOfTime
            BY <2>1, <3>1, Zenon DEF computeNextBeat
        <3>2. CASE p # 0 /\ x # EndOfTime
            BY <2>1, <3>2, NextBeatOnGrid, Zenon DEF BeatsOnGrid
        <3> QED BY <3>1, <3>2, Zenon
    <2> HIDE DEF r
    <2>4. nextBeat' = [nextBeat EXCEPT ![t] = r] /\ returnedAt' = [returnedAt EXCEPT ![t] = now]
          /\ UNCHANGED <<now, beatPeriod, begin>>
        BY <1>4, Zenon DEF BeatReturn, r
    <2>5. SuspensionTypeOK'
        BY <1>4, <2>2, <2>4 DEF BeatReturn, SuspensionTypeOK
    <2>6. BeatsOnGrid'
        BY <2>3, <2>4 DEF BeatsOnGrid, SuspensionTypeOK
    <2>7. BeatsKept'
        BY <2>1, <2>4 DEF BeatsKept, SuspensionTypeOK
    <2>8. NextBeatIsNext'
        <3>1. p # 0 => r \in {begin[t], EndOfTime} \/ r - p <= now
            BY <2>1, <2>2 DEF NextBeatIsNext, BeatsKept
        <3>2. \A u \in Threads \ {t} : nextBeat'[u] = nextBeat[u] /\ returnedAt'[u] = returnedAt[u]
            BY <2>4 DEF SuspensionTypeOK
        <3>3. nextBeat'[t] = r /\ returnedAt'[t] = now
            BY <2>4 DEF SuspensionTypeOK
        <3> QED BY <2>2, <2>4, <3>1, <3>2, <3>3, Zenon DEF NextBeatIsNext
    <2> QED BY <1>1, <1>4, <2>5, <2>6, <2>7, <2>8, Zenon DEF BeatReturn
<1> QED
    BY <1>2, <1>3, <1>4, Zenon DEF Beat

(* The I/O interface and its up-calls keep the invariant.                 *)
LEMMA IoKeeps ==
    ASSUME SuspensionInv,
           \/ \E t \in Threads : Io(t)
           \/ \E e \in Events : upCall(e)
           \/ UNCHANGED suspensionVars
    PROVE  SuspensionInv'
<1> USE SuspensionAssumption DEF SuspensionInv, suspensionVars, eventVars, beatVars, ioVars
<1>1. UNCHANGED <<now, eventVars, beatVars>>
    BY Zenon DEF Io, IoReturn, Request, suspendUntil, upCall
<1>2. InTime' /\ EventKept' /\ OnceKept' /\ NoExtraCall'
    BY <1>1, Zenon DEF InTime, EventKept, OnceKept, NoExtraCall
<1>3. BeatsOnGrid' /\ NextBeatIsNext' /\ BeatsKept'
    BY <1>1, Zenon DEF BeatsOnGrid, NextBeatIsNext, BeatsKept
<1>4. SuspensionTypeOK'
    <2>1. ASSUME NEW t \in Threads, Io(t) PROVE SuspensionTypeOK'
        <3>1. CASE IoReturn(t)
            BY <3>1, Zenon DEF IoReturn, SuspensionTypeOK
        <3>2. ASSUME NEW e \in Events, Request(t, e) PROVE SuspensionTypeOK'
            BY <3>2, Zenon DEF Request, SuspensionTypeOK
        <3>3. ASSUME NEW e \in Events, NEW d \in Timeouts, suspendUntil(t, e, d) PROVE SuspensionTypeOK'
            BY <3>3 DEF suspendUntil, Suspend, SuspensionTypeOK
        <3> QED BY <2>1, <3>1, <3>2, <3>3, Zenon DEF Io
    <2>2. ASSUME NEW e \in Events, upCall(e) PROVE SuspensionTypeOK'
        BY <2>2 DEF upCall, resume, SuspensionTypeOK
    <2>3. CASE UNCHANGED suspensionVars
        BY <2>3, Zenon DEF SuspensionTypeOK
    <2> QED BY <2>1, <2>2, <2>3, Zenon
<1> QED
    BY <1>2, <1>3, <1>4, Zenon

-----------------------------------------------------------------------------
(* The invariant holds in every behaviour.                                 *)
THEOREM SuspensionInvariance == SuspensionSpec => []SuspensionInv
<1>1. ASSUME SuspensionInit PROVE SuspensionInv
    <2> USE <1>1, EndOfTimeAssumption, SuspensionAssumption DEF SuspensionInit, EventInit
    <2>1. SuspensionTypeOK /\ InTime
        BY DEF SuspensionTypeOK, InTime
    <2>2. EventKept /\ OnceKept /\ NoExtraCall
        BY DEF EventKept, OnceKept, NoExtraCall
    <2>3. BeatsOnGrid /\ NextBeatIsNext /\ BeatsKept
        BY DEF BeatsOnGrid, NextBeatIsNext, BeatsKept
    <2> QED BY <2>1, <2>2, <2>3, Zenon DEF SuspensionInv
<1>2. SuspensionInv /\ [SuspensionNext]_suspensionVars => SuspensionInv'
    BY ArmKeeps, SysTickKeeps, TickKeeps, BeatKeeps, IoKeeps, Zenon DEF SuspensionNext
<1> QED BY <1>1, <1>2, PTL DEF SuspensionSpec

(* The beats of every thread stay on the grid that setPeriodicBeat laid    *)
(* out, whoever resumes the thread and however late it runs.               *)
THEOREM NoDrift == SuspensionSpec => []BeatsOnGrid
<1>1. SuspensionInv => BeatsOnGrid
    BY Zenon DEF SuspensionInv
<1> QED BY <1>1, SuspensionInvariance, PTL

(* suspendUntilNextBeat neither repeats a beat nor leaves out one that was *)
(* still to come when its last call returned.                              *)
THEOREM NextBeatFollows == SuspensionSpec => []NextBeatIsNext
<1>1. SuspensionInv => NextBeatIsNext
    BY Zenon DEF SuspensionInv
<1> QED BY <1>1, SuspensionInvariance, PTL

(* A periodic time event does not drift, wherever SysTick strikes while it *)
(* is armed.                                                               *)
THEOREM EventNoDrift == SuspensionSpec => []EventOnGrid
<1>1. SuspensionInv => EventOnGrid
    BY Zenon DEF SuspensionInv, EventKept, EventOnGrid
<1> QED BY <1>1, SuspensionInvariance, PTL

(* propagate calls handle at most once for each beat.                      *)
THEOREM CalledPerBeat == SuspensionSpec => []NoExtraCall
<1>1. SuspensionInv => NoExtraCall
    BY Zenon DEF SuspensionInv
<1> QED BY <1>1, SuspensionInvariance, PTL

-----------------------------------------------------------------------------
(* If one thread uses the interface, no interrupt between its test and its *)
(* suspension is lost.                                                     *)
THEOREM WakeUpNotLost ==
    ASSUME \A t, u \in Readers : t = u PROVE SuspensionSpec => []NoLostWakeUp
<1> USE SuspensionAssumption
<1>1. SuspensionInit => Registered
    BY Zenon DEF SuspensionInit, Registered
<1>2. ASSUME SuspensionTypeOK, Registered, [SuspensionNext]_suspensionVars PROVE Registered'
    <2> USE <1>2 DEF SuspensionTypeOK, Registered, eventVars, beatVars, ioVars
    <2>1. ASSUME NEW t \in Threads, Beat(t) PROVE Registered'
        BY <2>1 DEF Beat, setPeriodicBeat, suspendUntilNextBeat, NoPeriod, BeatReturn, Suspend
    <2>2. ASSUME NEW t \in Threads, IoReturn(t) PROVE Registered'
        BY <2>2 DEF IoReturn
    <2>3. ASSUME NEW t \in Threads, NEW e \in Events, Request(t, e) PROVE Registered'
        BY <2>3, Zenon DEF Request
    <2>4. ASSUME NEW t \in Threads, NEW e \in Events, NEW d \in Timeouts, suspendUntil(t, e, d) PROVE Registered'
        BY <2>4 DEF suspendUntil, Suspend
    <2>5. ASSUME NEW e \in Events, upCall(e) PROVE Registered'
        BY <2>5 DEF upCall, resume
    <2>6. ASSUME SysTick PROVE Registered'
        BY <2>6 DEF SysTick, resume
    <2>7. CASE Tick \/ ArmEvent \/ UNCHANGED suspensionVars
        BY <2>7 DEF Tick, ArmEvent, suspensionVars
    <2> QED BY <1>2, <2>1, <2>2, <2>3, <2>4, <2>5, <2>6, <2>7, Zenon DEF SuspensionNext, Io
<1>3. SuspensionInv => SuspensionTypeOK
    BY Zenon DEF SuspensionInv
<1>4. Registered => NoLostWakeUp
    BY Zenon DEF Registered, NoLostWakeUp
<1> QED BY <1>1, <1>2, <1>3, <1>4, SuspensionInvariance, PTL DEF SuspensionSpec

(* The times, periods and suspended threads of TimeEvent, Thread and       *)
(* GenericIOInterface have their types: no beat or event time underflows.  *)
THEOREM SuspensionTypeCorrect == SuspensionSpec => []SuspensionTypeOK
<1>1. SuspensionInv => SuspensionTypeOK
    BY Zenon DEF SuspensionInv
<1> QED BY <1>1, SuspensionInvariance, PTL

-----------------------------------------------------------------------------
(* Fifo.                                                                   *)

(* Slot i holds a stored element.                                          *)
Occupied(i) == IF readX <= writeX THEN readX <= i /\ i < writeX
                                  ELSE readX <= i \/ i < writeX

(* What each side has established since it tested the other's index.       *)
IInv ==
    /\ TypeOK
    /\ got \in Whole
    /\ wpc # "idle" => wIndex = advanceIndex(writeX) /\ wIndex # readX
    /\ wpc \in {"word2", "publish"} => buffer[writeX][1] = wVal
    /\ wpc = "publish" => buffer[writeX][2] = wVal
    /\ rpc # "idle" => readX # writeX
    /\ rpc \in {"word2", "advance"} => rVal[1] = buffer[readX][1]
    /\ rpc = "advance" => rVal[2] = buffer[readX][2]
    /\ \A i \in Index : Occupied(i) => buffer[i] \in Whole

-----------------------------------------------------------------------------
(* advanceIndex stays in the ring and maps different slots to different    *)
(* slots.                                                                  *)
LEMMA AdvanceIndex ==
    /\ \A i \in Index : advanceIndex(i) \in Index /\ advanceIndex(i) # i
    /\ \A i, j \in Index : advanceIndex(i) = advanceIndex(j) => i = j
  BY LenAssumption DEF advanceIndex, Index

(* An element is whole when its two words are equal.                       *)
LEMMA WholeElement ==
    ASSUME NEW e \in Element, e[1] = e[2]
    PROVE  e \in Whole /\ e = [k \in 1 .. 2 |-> e[1]]
  BY DEF Element, Whole

(* The error counters wrap at 2^32.                                        *)
LEMMA CounterWraps == \A n \in Nat : n % UInt32 \in 0 .. UInt32 - 1
  BY UInt32Assumption

(* The invariant holds after the constructor.                              *)
LEMMA InitIInv == Init => IInv
  BY LenAssumption, UInt32Assumption
     DEF Init, IInv, TypeOK, Index, Element, Whole, Occupied

(* put, step by step, keeps it,                                            *)
LEMMA WriterIInv == IInv /\ Writer => IInv'
  <1> SUFFICES ASSUME IInv, Writer PROVE IInv'
    OBVIOUS
  <1> USE LenAssumption, UInt32Assumption, AdvanceIndex
  <1>1. CASE PutFull
    <2>1. putErrors' \in 0 .. UInt32 - 1
      BY <1>1, CounterWraps DEF IInv, TypeOK, PutFull
    <2> QED
      BY <1>1, <2>1 DEF IInv, TypeOK, PutFull, readerVars, Occupied
  <1>2. ASSUME NEW v \in Val, PutAccept(v) PROVE IInv'
    BY <1>2 DEF IInv, TypeOK, PutAccept, readerVars, Occupied, isFull
  <1>3. CASE PutWord1
    <2>1. buffer' \in [Index -> Element]
      BY <1>3 DEF IInv, TypeOK, PutWord1, Element
    <2>2. \A i \in Index : i # writeX => buffer'[i] = buffer[i]
      BY <1>3 DEF IInv, TypeOK, PutWord1
    <2>3. buffer'[writeX][1] = wVal
      BY <1>3 DEF IInv, TypeOK, PutWord1, Element
    <2>4. ~Occupied(writeX)
      BY DEF Occupied, IInv, TypeOK, Index
    <2> QED
      BY <1>3, <2>1, <2>2, <2>3, <2>4 DEF IInv, TypeOK, PutWord1, readerVars, Occupied
  <1>4. CASE PutWord2
    <2>1. buffer' \in [Index -> Element]
      BY <1>4 DEF IInv, TypeOK, PutWord2, Element
    <2>2. \A i \in Index : i # writeX => buffer'[i] = buffer[i]
      BY <1>4 DEF IInv, TypeOK, PutWord2
    <2>3. buffer'[writeX][1] = wVal /\ buffer'[writeX][2] = wVal
      BY <1>4 DEF IInv, TypeOK, PutWord2, Element
    <2>4. ~Occupied(writeX)
      BY DEF Occupied, IInv, TypeOK, Index
    <2> QED
      BY <1>4, <2>1, <2>2, <2>3, <2>4 DEF IInv, TypeOK, PutWord2, readerVars, Occupied
  <1>5. CASE PutPublish
    <2>1. buffer[writeX] \in Whole
      BY <1>5, WholeElement DEF IInv, TypeOK, PutPublish
    <2>2. \A i \in Index : Occupied(i)' => Occupied(i) \/ i = writeX
      BY <1>5 DEF IInv, TypeOK, PutPublish, Occupied, advanceIndex, Index
    <2> QED
      BY <1>5, <2>1, <2>2 DEF IInv, TypeOK, PutPublish, readerVars
  <1> QED
    BY <1>1, <1>2, <1>3, <1>4, <1>5 DEF Writer

(* so does get,                                                            *)
LEMMA ReaderIInv == IInv /\ Reader => IInv'
  <1> SUFFICES ASSUME IInv, Reader PROVE IInv'
    OBVIOUS
  <1> USE LenAssumption, UInt32Assumption, AdvanceIndex
  <1>1. CASE GetEmpty
    <2>1. getErrors' \in 0 .. UInt32 - 1
      BY <1>1, CounterWraps DEF IInv, TypeOK, GetEmpty
    <2> QED
      BY <1>1, <2>1 DEF IInv, TypeOK, GetEmpty, writerVars, Occupied
  <1>2. CASE GetAccept
    BY <1>2 DEF IInv, TypeOK, GetAccept, writerVars, Occupied, isEmpty
  <1>3. CASE GetWord1
    BY <1>3 DEF IInv, TypeOK, GetWord1, writerVars, Occupied, Element
  <1>4. CASE GetWord2
    BY <1>4 DEF IInv, TypeOK, GetWord2, writerVars, Occupied, Element
  <1>5. CASE GetAdvance
    <2>1. Occupied(readX)
      BY <1>5 DEF IInv, TypeOK, GetAdvance, Occupied, Index
    <2>2. rVal \in Whole
      BY <1>5, <2>1, WholeElement DEF IInv, TypeOK, GetAdvance, Whole
    <2>3. \A i \in Index : Occupied(i)' => Occupied(i)
      BY <1>5 DEF IInv, TypeOK, GetAdvance, Occupied, advanceIndex, Index
    <2> QED
      BY <1>5, <2>2, <2>3 DEF IInv, TypeOK, GetAdvance, writerVars
  <1> QED
    BY <1>1, <1>2, <1>3, <1>4, <1>5 DEF Reader

(* and so does clear.                                                      *)
LEMMA ClearIInv == IInv /\ clear => IInv'
  BY LenAssumption DEF IInv, TypeOK, clear, writerVars, readerVars, Occupied, Index

(* Every reachable state of the fifo satisfies the inductive invariant.    *)
THEOREM Invariance == Spec => []IInv
  <1>1. IInv /\ UNCHANGED vars => IInv'
    BY DEF IInv, TypeOK, vars, writerVars, readerVars, Occupied
  <1>2. IInv /\ [Next]_vars => IInv'
    BY <1>1, WriterIInv, ReaderIInv, ClearIInv DEF Next
  <1> QED
    BY InitIInv, <1>2, PTL DEF Spec

(* The indices of the fifo stay in the ring (fifo.h:46), whatever its      *)
(* length and however put and get interleave.                              *)
THEOREM TypeCorrect == Spec => []TypeOK
  BY Invariance, PTL DEF IInv

(* put never fills the element get is copying out.                         *)
THEOREM SlotRaceFree == Spec => []NoSlotRace
  <1>1. IInv => NoSlotRace
    BY DEF IInv, NoSlotRace
  <1> QED
    BY Invariance, <1>1, PTL

-----------------------------------------------------------------------------
(* The refinement.  SlotOf(i) is the slot of the i-th stored element.      *)
SlotOf(i) == IF readX + i - 1 < FifoLen THEN readX + i - 1 ELSE readX + i - 1 - FifoLen

(* A function on 1 .. n is a sequence of length n.                         *)
LEMMA FunctionIsSeq ==
    ASSUME NEW n \in Nat, NEW S, NEW f \in [1 .. n -> S]
    PROVE  f \in Seq(S) /\ Len(f) = n
  BY SeqDef, LenProperties

(* The stored elements as a sequence, slot by slot.                        *)
LEMMA StoredElements ==
    ASSUME IInv
    PROVE  /\ getElementCount \in 0 .. FifoLen - 1
           /\ \A i \in 1 .. getElementCount :
                  /\ SlotOf(i) \in Index
                  /\ Occupied(SlotOf(i))
                  /\ SlotOf(i) # writeX
                  /\ Stored[i] = buffer[SlotOf(i)]
                  /\ Stored[i] \in Whole
           /\ Stored \in Seq(Whole)
           /\ Len(Stored) = getElementCount
  <1> USE LenAssumption
  <1>1. getElementCount \in 0 .. FifoLen - 1
    BY DEF IInv, TypeOK, Index, getElementCount
  <1>2. \A i \in 1 .. getElementCount :
           SlotOf(i) \in Index /\ Occupied(SlotOf(i)) /\ SlotOf(i) # writeX
    BY DEF IInv, TypeOK, Index, getElementCount, SlotOf, Occupied
  <1>3. \A i \in 1 .. getElementCount : Stored[i] = buffer[SlotOf(i)]
    BY DEF Stored, SlotOf
  <1>4. \A i \in 1 .. getElementCount : Stored[i] \in Whole
    BY <1>2, <1>3 DEF IInv
  <1>5. Stored \in [1 .. getElementCount -> Whole]
    BY <1>4 DEF Stored
  <1> QED
    BY <1>1, <1>2, <1>3, <1>4, <1>5, FunctionIsSeq

(* A step that leaves the indices and the stored slots alone leaves the    *)
(* queue alone.                                                            *)
LEMMA StoredUnchanged ==
    ASSUME IInv, readX' = readX, writeX' = writeX,
           \A i \in Index : i # writeX => buffer'[i] = buffer[i]
    PROVE  Stored' = Stored
  <1>1. getElementCount' = getElementCount
    BY DEF getElementCount
  <1>2. \A i \in 1 .. getElementCount : buffer'[SlotOf(i)] = buffer[SlotOf(i)]
    BY StoredElements
  <1> QED
    BY <1>1, <1>2 DEF Stored, SlotOf

(* Publishing writeX appends the element that was filled in.               *)
LEMMA PublishAppends ==
    ASSUME IInv, PutPublish
    PROVE  /\ Len(Stored) < FifoLen - 1
           /\ Stored' = Append(Stored, [k \in 1 .. 2 |-> wVal])
           /\ [k \in 1 .. 2 |-> wVal] \in Whole
  <1> DEFINE e == [k \in 1 .. 2 |-> wVal]
             n == getElementCount
  <1> USE LenAssumption
  <1>1. n \in 0 .. FifoLen - 2 /\ getElementCount' = n + 1
    BY DEF IInv, TypeOK, PutPublish, Index, getElementCount, advanceIndex
  <1>2. e \in Whole /\ buffer[writeX] = e
    BY WholeElement DEF IInv, TypeOK, PutPublish, Whole
  <1>3. Stored \in Seq(Whole) /\ Len(Stored) = n
    BY StoredElements
  <1>4. \A i \in 1 .. n : Stored'[i] = Stored[i] /\ Stored'[i] \in Whole
    <2>1. \A i \in 1 .. n : Stored'[i] = buffer[SlotOf(i)]
      BY <1>1 DEF Stored, SlotOf, PutPublish
    <2> QED
      BY <2>1, StoredElements
  <1>5. Stored'[n + 1] = e
    <2>1. SlotOf(n + 1) = writeX
      BY DEF IInv, TypeOK, Index, getElementCount, SlotOf
    <2>2. Stored'[n + 1] = buffer[SlotOf(n + 1)]
      BY <1>1 DEF Stored, SlotOf, PutPublish
    <2> QED
      BY <1>2, <2>1, <2>2
  <1>6. Stored' \in [1 .. n + 1 -> Whole]
    <2>1. \A i \in 1 .. n + 1 : Stored'[i] \in Whole
      BY <1>1, <1>2, <1>4, <1>5
    <2> QED
      BY <1>1, <2>1 DEF Stored
  <1>7. Stored' \in Seq(Whole) /\ Len(Stored') = n + 1
    BY <1>1, <1>6, FunctionIsSeq
  <1>8. /\ Append(Stored, e) \in Seq(Whole)
        /\ Len(Append(Stored, e)) = n + 1
        /\ \A i \in 1 .. n : Append(Stored, e)[i] = Stored[i]
        /\ Append(Stored, e)[n + 1] = e
    BY <1>2, <1>3, AppendProperties
  <1>9. Stored' = Append(Stored, e)
    <2>1. \A i \in 1 .. n + 1 : Stored'[i] = Append(Stored, e)[i]
      BY <1>1, <1>4, <1>5, <1>8
    <2> QED
      BY <1>7, <1>8, <2>1, SeqEqual
  <1> QED
    BY <1>1, <1>2, <1>3, <1>9

(* Advancing readX removes the oldest element, the one get copied.         *)
LEMMA AdvanceRemoves ==
    ASSUME IInv, GetAdvance
    PROVE  /\ Stored # << >>
           /\ rVal = Head(Stored)
           /\ Stored' = Tail(Stored)
  <1> DEFINE n == getElementCount
  <1> USE LenAssumption
  <1>1. n \in 1 .. FifoLen - 1 /\ getElementCount' = n - 1
    BY DEF IInv, TypeOK, GetAdvance, Index, getElementCount, advanceIndex
  <1>2. Stored \in Seq(Whole) /\ Len(Stored) = n
    BY StoredElements
  <1>3. Stored # << >>
    BY <1>1, <1>2
  <1>4. Stored[1] = rVal
    <2>1. SlotOf(1) = readX
      BY DEF IInv, TypeOK, Index, SlotOf
    <2>2. rVal = buffer[readX]
      BY DEF IInv, TypeOK, GetAdvance, Element
    <2> QED
      BY <1>1, <2>1, <2>2, StoredElements
  <1>5. \A i \in 1 .. n - 1 : Stored'[i] = Stored[i + 1]
    <2>1. \A i \in 1 .. n - 1 : SlotOf(i)' = SlotOf(i + 1)
      BY <1>1 DEF IInv, TypeOK, Index, GetAdvance, SlotOf, advanceIndex, getElementCount
    <2>2. \A i \in 1 .. n - 1 : Stored'[i] = buffer[SlotOf(i)']
      BY <1>1 DEF Stored, SlotOf, GetAdvance
    <2>3. \A i \in 1 .. n - 1 : i + 1 \in 1 .. n
      BY <1>1
    <2> QED
      BY <2>1, <2>2, <2>3, StoredElements
  <1>6. Stored' \in [1 .. n - 1 -> Whole]
    <2>1. \A i \in 1 .. n - 1 : Stored'[i] \in Whole
      BY <1>1, <1>5, StoredElements
    <2> QED
      BY <1>1, <2>1 DEF Stored
  <1>7. Stored' \in Seq(Whole) /\ Len(Stored') = n - 1
    BY <1>1, <1>6, FunctionIsSeq
  <1>8. Stored' = Tail(Stored)
    BY <1>1, <1>2, <1>3, <1>5, <1>7, HeadTailProperties, SeqEqual
  <1> QED
    BY <1>3, <1>4, <1>8

(* Every step of the fifo is a step of the queue or leaves it unchanged.   *)
LEMMA StepSimulation == IInv /\ [Next]_vars => [Queue!Next]_Queue!vars
  <1> SUFFICES ASSUME IInv, [Next]_vars PROVE [Queue!Next]_Queue!vars
    OBVIOUS
  <1> USE LenAssumption
  <1>1. CASE PutFull
    <2>1. getElementCount = FifoLen - 1
      BY <1>1 DEF PutFull, isFull, IInv, TypeOK, Index, getElementCount, advanceIndex
    <2>2. Stored' = Stored
      BY <1>1, StoredUnchanged DEF PutFull
    <2>3. Queue!PutFull
      BY <1>1, <2>1, <2>2, StoredElements DEF PutFull, Queue!PutFull, readerVars
    <2> QED
      BY <2>3 DEF Queue!Next
  <1>2. ASSUME NEW v \in Val, PutAccept(v) PROVE UNCHANGED Queue!vars
    BY <1>2, StoredUnchanged DEF PutAccept, Queue!vars, readerVars
  <1>3. CASE PutWord1
    <2>1. \A i \in Index : i # writeX => buffer'[i] = buffer[i]
      BY <1>3 DEF PutWord1, IInv, TypeOK
    <2> QED
      BY <1>3, <2>1, StoredUnchanged DEF PutWord1, Queue!vars, readerVars
  <1>4. CASE PutWord2
    <2>1. \A i \in Index : i # writeX => buffer'[i] = buffer[i]
      BY <1>4 DEF PutWord2, IInv, TypeOK
    <2> QED
      BY <1>4, <2>1, StoredUnchanged DEF PutWord2, Queue!vars, readerVars
  <1>5. CASE PutPublish
    <2>1. Queue!Put([k \in 1 .. 2 |-> wVal])
      BY <1>5, PublishAppends DEF PutPublish, Queue!Put, readerVars
    <2> QED
      BY <1>5, <2>1, PublishAppends DEF Queue!Next
  <1>6. CASE GetEmpty
    <2>1. Stored' = Stored
      BY <1>6, StoredUnchanged DEF GetEmpty
    <2>2. getElementCount = 0
      BY <1>6 DEF GetEmpty, isEmpty, IInv, TypeOK, Index, getElementCount
    <2>3. Stored = << >>
      BY <2>2, StoredElements, EmptySeq
    <2>4. Queue!GetEmpty
      BY <1>6, <2>1, <2>3 DEF GetEmpty, Queue!GetEmpty, writerVars
    <2> QED
      BY <2>4 DEF Queue!Next
  <1>7. CASE GetAccept \/ GetWord1 \/ GetWord2
    BY <1>7, StoredUnchanged DEF GetAccept, GetWord1, GetWord2, Queue!vars, writerVars
  <1>8. CASE GetAdvance
    <2>1. Queue!Get
      BY <1>8, AdvanceRemoves DEF GetAdvance, Queue!Get, writerVars
    <2> QED
      BY <2>1 DEF Queue!Next
  <1>9. CASE clear
    <2>1. getElementCount' = 0
      BY <1>9 DEF clear, getElementCount
    <2>2. Stored' = << >>
      BY <2>1 DEF Stored
    <2>3. Queue!Clear
      BY <1>9, <2>2 DEF clear, Queue!Clear, writerVars, readerVars
    <2> QED
      BY <2>3 DEF Queue!Next
  <1>10. CASE UNCHANGED vars
    BY <1>10, StoredUnchanged DEF vars, Queue!vars, writerVars, readerVars
  <1> QED
    BY <1>1, <1>2, <1>3, <1>4, <1>5, <1>6, <1>7, <1>8, <1>9, <1>10 DEF Next, Writer, Reader

(* For every ring length of at least 2, put and get as fifo.h codes them   *)
(* behave like the operations of a queue of len - 1 elements.              *)
THEOREM Refinement == Spec => ImplementsQueue
  <1>1. Init => Queue!Init
    <2> SUFFICES ASSUME Init PROVE Queue!Init
      OBVIOUS
    <2>1. getElementCount = 0
      BY DEF Init, getElementCount
    <2>2. Stored = << >>
      BY <2>1 DEF Stored
    <2> QED
      BY <2>2 DEF Init, Queue!Init
  <1> QED
    BY <1>1, Invariance, StepSimulation, PTL DEF Spec, Queue!Spec, ImplementsQueue
=============================================================================
