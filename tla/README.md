# Verification of the RODOS kernel in TLA+

RODOS is a real-time operating system for small satellites and robots. This
directory holds TLA+ models of the parts of it where several threads and
interrupts meet, TLC configurations that check them on small instances, and
TLAPS proofs of the most important properties for all values of the constants.
Paths below are relative to `src/`.

## 1. The system

| part | sources | model |
| --- | --- | --- |
| scheduler, yield, suspension, idle thread, timer programming | `src/bare-metal-generic/{scheduler,thread_on_hw,hw_specific_generic}.cpp`, `api/thread.h` | `Scheduler` |
| mutex semaphore with priority inheritance | `src/bare-metal-generic/rodos-semaphore.cpp` | `Semaphore`, `Dispatch` |
| single-producer single-consumer ring buffer | `api/fifo.h` (class `Fifo`) | `Fifo`, `BoundedQueue` |
| single-producer ring buffer for several readers | `api/fifo.h` (class `MultipleReaderFifo`) | `MultipleReaderFifo` |
| triple buffer | `api/commbuffer.h` | `CommBuffer`, `LatestValue` |
| beats | `src/independent/timemodel.cpp` (`computeNextBeat`), `src/independent/thread.cpp` | `TimeModel`, `Suspension` |
| time events | `src/independent/timeevent.cpp` | `TimeEvent` |
| waiting for a device | `src/independent/genericIO.cpp` | `Suspension` |
| waiting ring buffer | `api/fifo.h` (class `SyncFifo`) | `SyncFifo`, `CeilingScope`, `Sync` |
| waiting triple buffer | `support/support-libs/synccommbuffer.h` | `SyncCommBuffer`, `CeilingScope`, `Sync` |
| barrier | `src/independent/barrier.cpp` | `Barrier`, `CeilingScope`, `Sync` |
| publishing to other nodes, gateways, router | `src/independent/topic.cpp`, `src/independent/gateway/{gateway,router}.cpp` | `Network` |
| messages over a CAN bus | `src/independent/gateway/linkinterfacecan.cpp` | `CanLink` |
| UART driver of the STM32F4, with its block buffers | `src/bare-metal/stm32f4/hal/hal_uart.cpp`, `api/fifo.h` (class `BlockFifo`) | `BlockFifo`, `HalUart`, `UartTransmit`, `UartReceive`, `Uart` |
| register of the topics of all nodes | `support/support-libs/distributed-topic-register.cpp` | `TopicRegister` |
| everything else | | section 6 |

How they interact: user threads run on one processor. The SysTick interrupt
calls `schedulerWrapper`, which propagates the time events and, when it is time,
lets `Scheduler::schedule` choose the next thread. A thread calls the scheduler
itself through `yield`, and gives up the processor through `suspendCallerUntil`;
`resume` (from threads, time events and device interrupts) makes it ready again.
All synchronisation above this level (semaphores, synchronised buffers, barriers)
is built from three means: suspension, resume, and "ceiling scopes"
(`PRIORITY_CEILER_IN_SCOPE`), which raise the priority of the running thread so
that no other thread is scheduled. The lock-free buffers use none of these.
Between a thread and a device stands a driver: the UART driver has a ring buffer
per direction, which the thread works on from one side, and the interrupt or the
DMA controller from the other.

A message that a thread publishes goes to the local subscribers and to the
gateways of the node, each of which has a link to other nodes and a thread that
receives from it; a router passes messages on from one gateway to another. The
CAN interface is such a link. The topic register is an application on top: it
publishes which topics the node subscribes to, and collects the reports of others.

## 2. The modules

### Fifo, BoundedQueue (proofs in KernelProofs)

`Fifo` models `put`, `get` and `clear` of the ring buffer. Each shared access of
the writer and of the reader is a step of its own; an element consists of two
words, so that an element that is half written, or half overwritten, is visible.
The error counters `putErrors` and `getErrors` wrap at `UInt32`. `clear` is called when both
sides are at rest, as its use in the drivers is. The stores of a side reach
memory in program order, as on the single core the code is written for.
`BoundedQueue` is what the buffer promises: a queue of `FifoLen - 1` elements.

### MultipleReaderFifo

The writer never waits: `put` moves the index of a reader for whom the ring is full,
and counts this in `overflowCnt`. Each load and each store of an index is a step; the
operands of `readX[readerId] == writeX` are loaded in any order, as C++ leaves it open.
The value of an element is the number of its put, so that a reader that is sent back
in the ring is noticed. Two ghost variables count how many calls of the other side a
call has overlapped.

### CommBuffer, LatestValue, CommBufferProofs

`CommBuffer` models `put`, `putZero`, `get` and `getOnlyIfNewData` of the triple
buffer, again word by word. The value of a put is its number. `overlap` counts
the puts that begin while one get copies its slot; `MaxOverlap` bounds it.
`LatestValue` is the promise: a register, from which a get returns what was the
latest value at some moment between its call and its return.

### Scheduler (with TimeModel), SchedulerProofs

The variables are those of the code: `suspendedUntil` and `priority` of each
thread, `timeToTryAgainToSchedule` (`timeToTry`), the preselection of `yield`,
`yieldSchedulingLock`, the time the timer is programmed for (`trigger`).
`mode` says whether the processor is in a thread or in `schedulerWrapper`.
`yield` is broken up at every access to shared state: the two first stores, the
scan of the list (one thread per step), the check of `scheduleCounter`, the lock
and the call. SysTick may strike between any two of these steps once `trigger`
is reached. `activate`, the stack check and the idle thread with its sleep mode
are included; any interrupt ends the sleep (`WFI`). Abstractions:

* `scheduleCounter` and `lastActivation` matter by comparison only. `order` lists
  the threads by their last activation; `undisturbed[t]` says that the counter
  has not changed since `t` loaded it.
* Time passes while a thread executes its own code or the processor sleeps, and
  not inside `yield` and the scheduler ("+ scheduling overhead" in the words of
  `hw_specific_generic.cpp`).
* There is one periodic time event. Its effect on the scheduler is that SysTick
  strikes when no thread is due, and `schedulerWrapper` returns early.
* `overdue` and `turn` are history: for how long each ready thread has been kept from
  running, without a break, by less urgent threads, and by threads no more urgent.
  `overdue` counts a thread as less urgent by its own priority, also while it is inside
  a ceiling scope, and begins again when a call of the scheduler finds it there.
* The three stores of `resume` (`thread_on_hw.cpp:175-177`) are one step.

### Semaphore (with Dispatch), SemaphoreProofs

Every statement of `enter` and `leave` that touches shared state is a step. The
scheduler is abstracted to its contract (`Dispatch`): it chooses a ready thread
of the highest priority, the one that ran longest ago among equals, and it may
strike between any two steps (`Preempt`). The ceiling scope is two steps on
entry, because `setPrioCurrentRunner` reads the priority before it sets it. A
thread may rest (suspend itself for some time) anywhere outside the
semaphore's code, also as owner, but not inside a ceiling scope.

### TimeEvent, Suspension (proofs in KernelProofs)

`TimeEvent` is one time event: `activateAt` and `activatePeriodic` are two stores
each, `propagate` is one step of SysTick. `Suspension` extends it with threads
that wait for their next beat or for an I/O interface with a time-out. The three
kinds of events of the interface (`read`, `write`, `data`) are handled by
identical code and are the elements of `Events`. `suspendUntil` is one step,
because the code disables the interrupts; a thread that has suspended itself
goes on in any step after its time has come or it was resumed. The driver is
external: `Request` takes the data or starts a transfer, `upCall` is its
interrupt. `propagate` in the code stores `eventAt + period` first and then, as
the old `eventAt` is in the past anyway, always the result of `computeNextBeat`;
the model has the latter.

### CeilingScope, SyncFifo, SyncCommBuffer, Barrier, Sync, SyncProofs

`CeilingScope` is what the three blocking objects have in common: threads that open
and close ceiling scopes, suspend themselves and resume each other, on the
scheduler contract of `Dispatch`. Each object has a module with one step per
access to shared state. `SyncFifo` and `SyncCommBuffer` stand on the abstract
specifications of the buffers they extend (`BoundedQueue`, and a register with
the flag `newDataAvailable`). `syncPut` and `syncGet` are mirror images and share
their definitions: "t" is the writer in the one and the reader in the other.
`Barrier` has every load and store of the volatile `owner` as a step: `unblock` loads
it to test it, to follow it (`waiter`) and for its result (`unblockOk`). If it is null
when it is followed, which needs a switch inside the scope, the model resumes nobody.
The pointer `suspendedReader` of `SyncCommBuffer` is not volatile and is loaded once.
`data` is the last value that `syncGet` returned with true or `clearDataState` dropped;
`mistaken` records that a `syncGet` that returns false has cleared the flag of the
latest value. A time-out given to a call is 0, some time, or `END_OF_TIME`; the time of a suspension may be
reached at any moment. `Sync` composes the objects with one writer and one reader,
which all three demand.

### Network (proofs in MiddlewareProofs)

A gateway is a pair of a node and a link. Its thread receives in two steps, one
that asks `messageSeen` and one that distributes, so that the gateways of a node
interleave on the table `seenNodes`, which they share. Messages under way are a set:
they are lost, duplicated and overtaken in any combination. A node may restart; it
loses its table and its clock begins again. `holder` says which gateway has left
`messageSeen` with `seenNodesProtector` still entered. The calls of
`seenNodesProtector` are otherwise atomic, which `SemaphoreProofs` justifies.
What is published has a topic, a time and a number of steps; user data are left
out. A gateway that sends local topics itself and also has a router sends what is
published twice; the model sends it once, and the second copy is a duplication.
The delivery to local subscribers is not modelled; `accepted` and `dropped` record what `messageSeen` decided.

### CanLink, CanLinkProofs

A frame is its identifier, its sequence counter and the number of the message it was
cut from, in place of the bytes. `sendNetworkMsg` sends one frame per step, loses
one, or gives the message up after a bus error. `scan` is one pass of the loop over
the list of waiting frames, `read` and `readNothing` one pass of the loop over the
bus, with the stack of empty buffers and the stealing of the last waiting one.
`damaged` records the messages a frame of which was lost, was not sent, or was
overwritten when its buffer was stolen. A sender is a CAN identifier: the model assumes
that no two nodes send under the same one. The code does not ensure this. It puts the
lowest 8 bits of the node that published and the topic into the identifier
(`linkinterfacecan.cpp:63-66`), so that nodes whose numbers are equal modulo 256, or two
routers that forward the same topic of one node to one bus, share one, and their frames
can be mixed.

### TopicRegister (proofs in MiddlewareProofs)

The register of one node for one ordinary topic; the bitmap of a broadcast topic begins
with all bits set, and every publish sets them again (`topic.cpp:43`, `73`). `put`
(`putReport`, in the thread of a gateway) interleaves with the loop of the register,
in which the test of a node (`testNode`), the load and the store of
`receiverNodesBitMap &= ...` (`loadBits`, `clearBit`) are steps. `raced` says that the loop
undoes the last report of a node: it came after the node was judged dead and before its
bit was cleared, or while a bitmap was loaded in which the node was missing.
Time is counted per event: since a node was heard (`silence`), until it reports
(`timer`), until the own loop runs (`own`). Reports are late by `MaxDelay` at most
or lost; nodes fail and come back, the node itself too.

### BlockFifo, HalUart, UartTransmit, UartReceive, Uart, UartProofs

`BlockFifo` has the arithmetic of the blocks (`getBufferToWrite`, `getBufferToRead`)
that one side is given to work on while the other side moves its index.
`UartTransmit` is `write`, `putcharNoWait` and `suspendUntilWriteFinished`, the
interrupts TXE and TC, and the DMA stream with its handler. `UartReceive` is `read`,
`getcharNoWait`, `status` and `suspendUntilDataReady`, the interrupts for a byte and
for an overrun, the DMA stream with its handler, and the thread `ReceiveTrigger`, which
stops the stream every 10 ms so that its handler publishes an unfinished block. A
handler is one step. A thread is interrupted between any two accesses, also between
the load and the store inside `USART_ITConfig`. The hardware is external: the data
register and the shift register (`Shift`), a byte that arrives (`Arrive`), and the
transfers of the DMA streams (`DMATransfer`, `DMAStore`). `Uart` puts the two sides
together; they share the interrupt and the mode (`isDMAEnabled`), and "uses" says
which of them a program uses. One thread uses each direction, as the generic I/O
interface demands. Framing and noise errors are left out: with DMA the handler
treats them like an overrun, without it ignores them.

## 3. The runs

Passing runs. All check for deadlock, except `network`, which stops when all
messages are delivered, and `uart`, in which a writer may wait for ever (see
"Further disagreements").

| run | what it shows | instance |
| --- | --- | --- |
| `kernel` | `Fifo`: writer and reader never touch the same slot (`NoSlotRace`), the buffer is a bounded queue (`ImplementsQueue`); `MultipleReaderFifo`: each reader gets whole and ever newer values and misses no more than is counted (`NewerOrCounted`); `Suspension`: beats do not drift (`BeatsOnGrid`), the next beat is the next (`NextBeatIsNext`), `NoExtraCall`, `NoLostWakeUp` | each of the three alone. `Fifo`: 3 slots, 2 values, counters modulo 2: full, empty and wrap-around all occur; `MultipleReaderFifo`: 3 slots, 2 readers, 4 puts; `Suspension`: one thread that every source resumes; 7 units of time, periods of 2: beats are missed, late and early |
| `comm_buffer` | get never mixes two puts (`Consistent`), no put is overlooked (`NewDataNotLost`), the buffer is a register of the latest value (`ImplementsLatestValue`) | 6 puts, at most 2 during one get: every slot takes every role more than once |
| `scheduler` | `WakeUpOnTime` (at most two tick spacings late), `TakeTurns` | 3 threads, 2 of equal priority; 10 units of time: two time slices of 4 and a half; a suspension of 5 is long enough for the idle thread to sleep |
| `scheduler_scoped` | with ceiling scopes, resume from interrupts and stack overflow: `NoEarlyReturn`, `SelectedMayRun`, `LockReleased`; `WakeUpWithinSlice`: a ready thread that is more urgent than the one that runs waits for a time slice at most, counted from when it became ready or from the last call of the scheduler that found the other inside a ceiling scope | 2 threads |
| `semaphore` | `MutualExclusion`, `NoOrphanedWaiter`, `PriorityRestored` | 3 threads of different priority, the most urgent one enters twice |
| `sync` | `SyncFifo`: no wake-up is lost (`NoMissedWakeUp`, `EventuallyServed`) and calls tell the truth (`StoredOnce`); `SyncCommBuffer`: `BufferWakesUp`, `LatestSeen`; `Barrier`: only who waits is resumed (`OwnerWaits`), a signal is not taken for a time-out by either side (`SignalsAgree`) | each object alone, one writer and one reader of any two of the priorities 1 and 2; capacity 2: full and empty are different states; unbounded numbers of calls |
| `network` | copies are accepted once (`AtMostOnce`), what is suppressed is covered (`DropsJustified`), the table is left locked only when full (`HeldOnlyWhenFull`), without faults the newest message arrives everywhere (`NewestArrives`) | a triangle with a fourth node behind one corner: a message has ways of 1 and of 2 links to that corner, a loop, and one more link to go; 3 steps are allowed, as many as the longest way has; 2 messages of one node and a report of two others, three senders for a table of 2, or two of these and 1 loss, duplication or restart; forwarding lists that are fixed (on the only way to the fourth node), that are learnt, and none |
| `can_link` | no buffer is lost (`BuffersConserved`), what is returned is one message, or pieces of messages each of which lost a frame (`OnlyDamagedMixed`), without damage all messages are received (`AllReceived`) | 2 senders, messages of 3 and of 2 frames, 2 of each; 3 buffers, which run out |
| `topic_register` | a node that reports stays known (`KeptWhileReporting`), a dead one is forgotten (`ForgetsDead`), a live one is known for good from the first report that the loop does not undo (`KnowsLive`) | 2 other nodes; the times of the code in seconds, 1117 ms rounded to 1; 3 lost reports, 2 failures |
| `uart` | bytes are sent and received once, unchanged and in their order (`SentInOrder`, `ReceivedInOrder`), whoever waits for the last byte or for data is resumed (`WriterWakesUp`, `ReaderWakesUp`) | each direction alone, with and without DMA; rings of 4, calls of up to 2 bytes, DMA blocks of 2: the blocks end at the end of the ring, at the other index and at their greatest size; unbounded numbers of calls and bytes |

`BufferWakesUp`, `SignalsAgree` and the part of `OwnerWaits` about the thread that
`unblock` resumes hold as long as SysTick does not switch threads inside a ceiling
scope (`switched`). This can happen: a thread that suspended itself
inside its scope is at ceiling priority when it becomes ready, and the scheduler may
prefer it to a thread inside another scope. `SyncFifo` does not need the condition.
When the same two threads share a `SyncFifo` and a second object, such a switch can
cost the `SyncFifo` a wake-up, because neither `Barrier` nor `SyncCommBuffer` yields
after its scope: `NoMissedWakeUp` is violated for the program sets
`{"fifo", "buffer"}` and `{"fifo", "barrier"}` of `Sync`. The run therefore looks at
each object alone.

Runs that show the code to disagree with what it says of itself:

| run | disagreement |
| --- | --- |
| `comm_buffer_torn` | "the data will be always consistent" (`api/commbuffer.h:24`): the third put during one get writes into the slot that get is copying |
| `sync_new_data` | "true if there was new data" (`support/support-libs/synccommbuffer.h:64`): `syncGet` loads the flag, and `get` clears it later; a put in between is returned with false, and no later call returns it with true (`TrueIfNew`) |

Further disagreements between code and comments that came up while modelling and
that no run is devoted to:

* "overrun by maximally: 2 * MIN_SYS_TICK_SPACING" (`hw_specific_generic.cpp:19`): a
  schedule inside a ceiling scope ignores all other threads when it programs the
  timer, and leaving the scope programs nothing; a wake-up is then late by a time slice
  (`WakeUpWithinSlice`), and by one more for each further scope in which SysTick strikes.
* "selected according to priorities" (`api/rodos-semaphore.h:26`): all threads that wait
  in `enter` have the ceiling priority.
* "equivalent to atomarity at thread level" (`api/thread.h:387`): see `switched` above.
* "called one time" (`api/timeevent.h:85`): SysTick between the two stores of
  `activateAt` combines the new time with the old period.
* "Resumes one waiting thread , in no one is waiting returns false, else true"
  (`api/barrier.h:29`): `waitForSignal` clears `owner` after its scope. An `unblock` that
  comes when it has timed out and not yet cleared `owner` returns true and resumes
  nobody who waits; `waitForSignal` returns false. `SignalsAgree` names this case.
* "If no timeout is given, or timeout == 0 it will wait" (`api/fifo.h:150`): with 0,
  `syncPut` and `syncGet` do not wait; and a call without time-out may return false,
  when it was resumed and finds the fifo changed again.
* "false = fifo empty" (`api/fifo.h:323`): `get` of a `MultipleReaderFifo` that is full
  returns false if a put falls between its loads of the two indices. If two puts
  overlap a get, the second one overwrites the element that is being copied; if two
  gets of a reader fall between the load and the store of its index in one put, the
  index is set back and an element is read twice. `PutsInGet` and `GetsInPut` say how
  many overlap, and `NewerOrCounted` is checked with 1 for both; it needs three slots.
* "restore the original priority" (`rodos-semaphore.cpp:99`): an owner that enters again
  after it was raised stores the raised priority (line 62) and keeps it. In the run
  `semaphore` only the most urgent thread enters twice, which nobody can raise.
* "last transmit order is concluded" (`genericIO.cpp:61`): `write` may be interrupted
  after `writeConcluded` and before it has disabled TC (`hal_uart.cpp:559`). If the
  DMA stream has sent the new bytes too by then, its handler has enabled TC for the
  last time, `write` disables it, and the up-call is not made. `overtaken` marks this
  race, which `WriterWakesUp` excepts. The bytes are sent all the same.
* `messageSeen` leaves `seenNodesProtector` entered when its table is full
  (`gateway.cpp:90`); `HeldOnlyWhenFull` describes when.

**Fairness.** `sync`: the running thread is executed, SysTick strikes again, and the time of a
suspension is reached; nothing is assumed of a particular thread being chosen.
`network`: the threads of the gateways run, which wait for a second at most.
`can_link`: the gateway calls `getNetworkMsg` again and again (`Gateway::run`), and a
message that was begun is sent to its end or given up. `topic_register`: time
passes, all periodic threads run, a report that is not lost arrives. `uart`: the
interrupts are served, the hardware works, a thread finishes the call it began; the
stream stores a byte that waits for it although `ReceiveTrigger` stops it again and
again (strong fairness), since that takes much less than 10 ms. Nobody has to
publish, put or call. The scheduler's promises are stated as bounds on time
(`overdue`, `turn`), which is stronger than fairness.

**Bounds.** `MaxTime` stops clocks (in `Network` that of each node), `MaxPuts` the
writers of `CommBuffer` and `MultipleReaderFifo`, `MaxDepth` the nesting of `enter`, `Program` and `Messages` what is sent; `MaxFaults`, `MaxLost` and
`MaxFailures` count faults, so that what holds without or after the last of them can
be stated; `Bounded` (in `MCNetwork`) trades a fault for two messages; `MaxWrite` and
`MaxRead` bound the size of a call, `UInt` is where `uartRxError` wraps; `SeqMod` and `BufferMod` number values modulo more than can be in a buffer.

## 4. The proofs

Checked with TLAPS 1.4.5, with the SMT, Zenon and LS4 back ends.

* **`KernelProofs`, `Fifo`**: `TypeCorrect`, `SlotRaceFree`, `Refinement`, for every length
  and every set of elements. The invariant says that the elements between the
  read and the write index are whole, that the writer's slot is outside of this
  range while it writes, and that a get that has been accepted still has its
  element. The refinement maps the elements from `readX` to `writeX` to the queue;
  the publishing of the write index is the abstract put.
* **`CommBufferProofs`**: `TypeCorrect`, `ConsistentData`, `NoLostData`, `Refinement`, for
  any number of puts, assuming `MaxOverlap <= 2`, which `comm_buffer_torn` shows to
  be needed. The invariant relates the slot being copied to the three indices,
  according to how many puts have overlapped the copying.
* **`SchedulerProofs`**: `NeverEarly`, `ActivatesOnlyReady`, `LockAlwaysReleased`,
  `MostUrgentSelected`, for any list of threads, priorities and times. What makes the
  first two hard is that a selection is made in one place and used in another: by `yield`, which scans the list step by step
  while SysTick may strike, and by the scheduler that takes over its preselection. The
  invariant says that every selection, finished or not, names a thread that may run
  (`SelectionsMayRun`, `PreSelectedMayRun`), that a finished one of an undisturbed
  `yield` names another thread than the caller, and that a thread on its way back to
  `suspendCallerUntil` either may run or has asked for scheduling and not been
  scheduled since (`ReturnsInTime`). That the loop of `findNextToRunFromISR` selects a
  thread that may run, or the idle thread, is an induction over its passes:
  `found` is a recursive function, and the induction takes a least counterexample from
  the theorem that the natural numbers are well-founded. The lemmas on the steps take
  this fact as an assumption (`ScanMayRun`); `Inductive` discharges it.
  `MostUrgentSelected` (that `SelectsMostUrgent` holds, proved only) is a second such
  induction: no ready thread is more urgent than the selected one, and the scheduler is
  told to look again no later than any thread as urgent as the selected one wakes up.
  It speaks of the selection; that the thread also gets the processor in time
  (`WakeUpOnTime`, `WakeUpWithinSlice`, `TakeTurns`) involves the timer and is left to TLC.
* **`SemaphoreProofs`**: `TypeCorrect`, `MutuallyExclusive`, `AtomicScope`, `NoneOrphaned`,
  for any number of threads and any priorities below the ceiling. Mutual exclusion
  is not inductive: nothing but priorities keeps two threads from working on the
  semaphore at the same time. The invariant therefore says which threads can be
  at ceiling priority together (`Hots`: a thread inside its scope, and threads
  that wait or have just been resumed) and which of them can be off the processor
  (`Running`), along with the bookkeeping of `Owners` and `HandedOver`.
  `PriorityKept` (that `PriorityRestored` holds) assumes `OnlyTopReenters`: only threads
  of the highest priority enter twice; without it the property fails, as section 3
  describes. Its invariant says of every place where `enter` and `leave` keep a
  priority that it is the one of the constructor. `AtomicScope` (that `ScopeIsAtomic`
  holds) is proved only.
* **`KernelProofs`, `Suspension`**: `SuspensionTypeCorrect`, `NoDrift`, `NextBeatFollows`,
  `EventNoDrift`, `CalledPerBeat`, and, for one thread that uses the interface, `WakeUpNotLost`. They
  rest on lemmas about `computeNextBeat` (its result is later than `timeNow`, at most
  one period later, and on the grid of `begin` and `period`) and on an invariant that
  bounds the calls of an event by the beats before `eventAt`. `EventNoDrift`, about
  the periodic time event, is proved only.
* **`SyncProofs`**: `FifoWakesUp`, `FifoStoresOnce`, `ReaderWakesUp`, `ReaderSeesLatest`,
  `UnblocksOnlyWaiters`, `BarrierAgrees`, for every capacity, any other threads and any
  priorities, each object alone (`ProgramsAssumption`; section 3 says what can happen
  otherwise). All rest on `ScopeInv`: a thread is at ceiling priority exactly inside a
  scope, and until SysTick has switched threads inside a scope, whoever is in one and
  does not sleep is running. `SyncFifo` survives such a switch. Its invariant
  `Exclusive` says that while one side is between its test and its suspension, or
  between its load of the peer and the resume, the other is kept out, except that it may
  leave its own scope and then yields. `Wakes` extends `NoMissedWakeUp` to threads that are
  only about to sleep, and `Numbered` relates the queue to the values of the two callers.
  For `SyncCommBuffer` the invariant extends `LatestSeen` to a call that has cleared the
  flag and will return false. `WaitAgrees` follows what ended a suspension from the
  interrupt to the value that `waitForSignal` returns, `UnblockAgrees` the pointer from
  its load to the value that `unblock` returns.
* **`MiddlewareProofs`, `Network`**: `AcceptedAtMostOnce`, `SuppressedOnlyIfCovered`,
  `LockedOnlyWhenFull`, for every network, program and number of faults. The invariant
  (`Filter`) says that an entry of the table is the time of an accepted message, and
  of the newest one as long as no two accepted messages are further apart than the
  window; and that a sender without an entry was refused by a full table.
* **`CanLinkProofs`**: `BuffersKept` and `MixesOnlyDamaged`, for any senders, lengths of
  messages, faults, and at least two buffers. For the first, the number of buffers in
  stack and list is constant and they cover all buffers, so no buffer is in two places.
  For the second, the invariant orders the frames that wait: those of one sender lie in
  list and bus in the order in which they were cut (`Ordered`), the first loop has passed
  no frame of the current message (`Passed`), and a frame that was sent after one that
  waits, and does not wait itself, belongs to a damaged message (`NoHoles`). A frame that
  continues the current message with the right counter is then the next one of the same
  message, or what lies between the two was lost from both (`Assembly`).
* **`MiddlewareProofs`, `TopicRegister`**: `StaysKnown`, for any nodes and times with
  `3 * Period + MaxDelay <= VeryOld`. The invariant `Punctual` bounds the silence of a
  node by `(lost + 1) * Period`, and `Known` carries its bit through the load and the
  store of the bitmap; `ClearsDead` says that the bit the loop is about to clear is that of
  a dead node, or of one whose report it undoes. With the times of the code (3 s and
  10 s) this allows a delay of one second.
* **`UartProofs`**: `SentOnceInOrder` and `ReceivedOnceInOrder`, for every size of ring
  (at least 2), of calls and of DMA blocks, any bytes, and both modes. The lemmas of its
  first part are about rings: blocks that were handed out stay free or filled while the
  other side moves on (`BlocksGrow`), and the contents of a ring as a sequence can be
  split and extended (`Split`, `Extend`). The invariants (`TxInv`, `RxInv`) say that the
  part of a call that was copied, and the transfer that is running, lie in the block
  they were given, and that the position of the stream is the index plus what it has
  moved. Every step then either leaves the bytes under way alone or adds or takes them
  at the right end.

Assumptions on the constants are the `ASSUME`s of the modules; TLC evaluates them
in the runs. The additional assumptions named above are hypotheses of the theorems.

## 5. Only model-checked

* The liveness properties (`EventuallyServed`, `NewestArrives`, `AllReceived`,
  `ForgetsDead`, `KnowsLive`, `WriterWakesUp`, `ReaderWakesUp`): the prover has no
  liveness under fairness.
* The time bounds of the scheduler (`WakeUpOnTime`, `WakeUpWithinSlice`, `TakeTurns`): their
  history variables sum up many steps, and an inductive invariant has to bound what is
  left until the timer strikes for every place the processor can be in; no such
  invariant is given here.
* `NewerOrCounted`: the indices of `MultipleReaderFifo` are reduced modulo the length of
  the ring, and the invariant would have to follow the position of every reader through
  the race for its index.

## 6. Not modelled

* The UART driver: `config`, `reset` and changes of the baud rate or of the mode while
  it is in use, flow control, which the hardware does, and `putcharInterrupt`, which
  polls the registers for error messages.
* The delivery to local subscribers: it calls user code, with the semaphore of the
  subscriber held. Topic filters likewise.
* `addGateway`, and calls of `setTopicsToForward` while reports arrive: the lists of
  the application are set before the start.
* The links over UART, UDP and shared memory hand over whole messages; to `Network`
  they are links. `LinkinterfaceUDP::suspendUntilDataReady` is "not yet race condition
  safe", as its comment says; the thread of the gateway then waits for a second.
* The CAN interface is not composed with `Network`: it stamps messages anew when it receives them (`linkinterfacecan.cpp:255-258`), so that
  `AtMostOnce` says nothing about copies that went over a CAN bus.
* S3P, the ring buffers and pools of the support library, activities and sorted
  lists: sequential code; `RingBuffer` calls itself thread-safe for one writer and one
  reader, which its unprotected `occupiedCnt` speaks against.
* Start-up, lists, formatting, checksums, calendar time: sequential, no shared state.
* The POSIX port, the other HAL drivers, lwIP and vendor libraries: host services, registers
  and third-party code.
