---------------------------- MODULE UartReceive ----------------------------
(***************************************************************************)
(* The receiving side of the UART driver of the STM32F4                    *)
(* (src/bare-metal/stm32f4/hal/hal_uart.cpp): the interrupt or the DMA     *)
(* controller fills receiveBuffer, one thread reads it and may wait for    *)
(* more.  With DMA the bytes of a block are published when it is full, or  *)
(* when the thread ReceiveTrigger stops the stream.  As in UartTransmit, a *)
(* handler is one step.                                                    *)
(***************************************************************************)
EXTENDS HalUart

CONSTANTS MaxRead,           \* bound: the size of the buffer given to read
          DMAMaxReceiveSize, \* what config was given
          UInt               \* where uartRxError is taken to wrap

ASSUME ReadAssumption ==
    MaxRead \in Nat /\ DMAMaxReceiveSize \in Nat \ {0} /\ UInt \in Nat /\ UInt >= 2

VARIABLES rxBuf, rxRead, rxWrite,  \* receiveBuffer
          DMAReceiveRunning, DMAReceiveRunningSize,
          rxEnabled, rxPos, rxLeft,  \* of the DMA stream: EN, address, NDTR
          rxFinished,                \*   its interrupt TCIF
          RDR, ORE,                  \* received byte, overrun flag
          uartRxError,
          rpc, readCnt, got          \* read: where it is, how many bytes it takes, those copied

rxRing == <<rxBuf, rxRead, rxWrite>>
rxStream == <<rxEnabled, rxPos, rxLeft, rxFinished>>
rxDma == <<DMAReceiveRunning, DMAReceiveRunningSize, rxStream>>
rxLine == <<RDR, ORE>>
readerVars == <<rpc, readCnt, got>>
rxVars == <<rxRing, rxDma, rxLine, uartRxError, readerVars>>

counted(errors) == (errors + 1) % UInt

(* After init and, with DMA, config, which starts to receive.              *)
ReceiveInit ==
    /\ rxBuf = [i \in Index |-> Zero] /\ rxRead = 0 /\ rxWrite = 0
    /\ DMAReceiveRunning = isDMAEnabled /\ rxEnabled = isDMAEnabled
    /\ rxPos = 0 /\ rxFinished = FALSE
    /\ rxLeft = IF isDMAEnabled THEN smaller(blockToWrite(0, 0), DMAMaxReceiveSize) ELSE 0
    /\ DMAReceiveRunningSize = rxLeft
    /\ RDR = None /\ ORE = FALSE /\ uartRxError = 0
    /\ rpc = "idle" /\ readCnt = 0 /\ got = << >>

reader(l, m) == rpc = l /\ rpc' = m

-----------------------------------------------------------------------------
(* RceiveIntoRxBufWithDMA and DMAStartReceive, with readX = r, writeX = w. *)
RceiveIntoRxBufWithDMA(r, w) ==
    LET len == blockToWrite(r, w) IN
    IF len > 0
    THEN /\ DMAReceiveRunning' = TRUE
         /\ DMAReceiveRunningSize' = smaller(len, DMAMaxReceiveSize)
         /\ rxEnabled' = TRUE /\ rxPos' = w /\ rxLeft' = smaller(len, DMAMaxReceiveSize)
         /\ UNCHANGED uartRxError
    ELSE /\ DMAReceiveRunning' = FALSE
         /\ uartRxError' = counted(uartRxError)
         /\ UNCHANGED <<DMAReceiveRunningSize, rxEnabled, rxPos, rxLeft>>

-----------------------------------------------------------------------------
(* HAL_UART::read, for a buffer of the given size; it takes one block.     *)
read(size) ==
    /\ reader("idle", "copy")
    /\ rxRead # rxWrite
    /\ readCnt' = smaller(blockToRead(rxRead, rxWrite), size)
    /\ UNCHANGED <<rxRing, rxDma, rxLine, uartRxError, got>>

ReadCopy ==
    /\ reader("copy", "copy") /\ Len(got) < readCnt
    /\ got' = Append(got, rxBuf[rxRead + Len(got)])
    /\ UNCHANGED <<rxRing, rxDma, rxLine, uartRxError, readCnt>>

readConcluded ==
    /\ reader("copy", "test") /\ Len(got) = readCnt
    /\ rxRead' = advanceIndexEx(rxRead, readCnt)
    /\ readCnt' = 0 /\ got' = << >>
    /\ UNCHANGED <<rxBuf, rxWrite, rxDma, rxLine, uartRxError>>

(* HAL_UART::getcharNoWait: get, and the same test also if there is no     *)
(* byte.                                                                   *)
getcharNoWait ==
    /\ IF rxRead # rxWrite THEN reader("idle", "copy") /\ readCnt' = 1
                           ELSE reader("idle", "test") /\ UNCHANGED readCnt
    /\ UNCHANGED <<rxRing, rxDma, rxLine, uartRxError, got>>

ReadTestNot ==
    /\ reader("test", "idle")
    /\ UNCHANGED <<rxRing, rxDma, rxLine, uartRxError, readCnt, got>>

ReadTest ==
    /\ reader("test", IF isDMAEnabled /\ ~DMAReceiveRunning THEN "receive" ELSE "idle")
    /\ UNCHANGED <<rxRing, rxDma, rxLine, uartRxError, readCnt, got>>

ReadReceive ==
    /\ reader("receive", "idle")
    /\ RceiveIntoRxBufWithDMA(rxRead, rxWrite)
    /\ UNCHANGED <<rxRing, rxFinished, rxLine, readCnt, got>>

(* HAL_UART::status: an error that is counted between its load of          *)
(* uartRxError and the reset is not reported.                              *)
status ==
    /\ reader("idle", "reset")
    /\ UNCHANGED <<rxRing, rxDma, rxLine, uartRxError, readCnt, got>>

StatusReset ==
    /\ reader("reset", "idle")
    /\ uartRxError' = 0
    /\ UNCHANGED <<rxRing, rxDma, rxLine, readCnt, got>>

(* suspendUntilDataReady tests isDataReady and suspends with interrupts    *)
(* disabled.                                                               *)
suspendUntilDataReady ==
    /\ reader("idle", "suspended") /\ rxRead = rxWrite
    /\ UNCHANGED <<rxRing, rxDma, rxLine, uartRxError, readCnt, got>>

upCallDataReady == rpc' = IF rpc = "suspended" THEN "idle" ELSE rpc

-----------------------------------------------------------------------------
(* UARTIRQHandler: an overrun, for which the byte received before it is    *)
(* given up too,                                                           *)
OverrunIRQ ==
    /\ ORE
    /\ RDR' = None /\ ORE' = FALSE
    /\ uartRxError' = counted(uartRxError)
    /\ UNCHANGED <<rxRing, rxDma, readerVars>>

(* and a byte that was received; with DMA this interrupt is disabled.      *)
RXNEIRQ ==
    /\ ~ORE /\ ~isDMAEnabled /\ RDR # None
    /\ RDR' = None
    /\ IF advanceIndex(rxWrite) # rxRead
       THEN /\ rxBuf' = [rxBuf EXCEPT ![rxWrite] = RDR]
            /\ rxWrite' = advanceIndex(rxWrite)
            /\ UNCHANGED uartRxError
       ELSE uartRxError' = counted(uartRxError) /\ UNCHANGED <<rxBuf, rxWrite>>
    /\ upCallDataReady
    /\ UNCHANGED <<rxRead, rxDma, ORE, readCnt, got>>

DMAReceivePublishAll ==
    LET w == advanceIndexEx(rxWrite, DMAReceiveRunningSize) IN
    /\ rxFinished /\ rxFinished' = FALSE
    /\ rxWrite' = w
    /\ upCallDataReady
    /\ RceiveIntoRxBufWithDMA(rxRead, w)
    /\ UNCHANGED <<rxBuf, rxRead, rxLine, readCnt, got>>

DMAReceiveFinishedHandler ==
    LET bytesTransfered == DMAReceiveRunningSize - rxLeft
        w == advanceIndexEx(rxWrite, bytesTransfered)
    IN
    /\ rxFinished /\ rxFinished' = FALSE
    /\ rxWrite' = w
    /\ IF bytesTransfered > 0 THEN upCallDataReady ELSE UNCHANGED rpc
    /\ RceiveIntoRxBufWithDMA(rxRead, w)
    /\ UNCHANGED <<rxBuf, rxRead, rxLine, readCnt, got>>

(* ReceiveTrigger::run stops the stream, which then raises its interrupt.  *)
ReceiveTrigger ==
    /\ isDMAEnabled /\ rxEnabled
    /\ rxEnabled' = FALSE /\ rxFinished' = TRUE
    /\ UNCHANGED <<rxRing, DMAReceiveRunning, DMAReceiveRunningSize, rxPos, rxLeft,
                   rxLine, uartRxError, readerVars>>

-----------------------------------------------------------------------------
(* The hardware: a byte arrives; one that finds the register occupied is   *)
(* lost.                                                                   *)
Arrive(b) ==
    /\ IF RDR = None THEN RDR' = b /\ UNCHANGED ORE ELSE ORE' = TRUE /\ UNCHANGED RDR
    /\ UNCHANGED <<rxRing, rxDma, uartRxError, readerVars>>

(* The DMA stream stores it, and stops at the end of its block.            *)
DMAStore ==
    /\ rxEnabled /\ RDR # None
    /\ rxBuf' = [rxBuf EXCEPT ![rxPos] = RDR] /\ RDR' = None
    /\ rxPos' = rxPos + 1 /\ rxLeft' = rxLeft - 1
    /\ rxEnabled' = (rxLeft > 1) /\ rxFinished' = (rxLeft = 1)
    /\ UNCHANGED <<rxRead, rxWrite, DMAReceiveRunning, DMAReceiveRunningSize, ORE,
                   uartRxError, readerVars>>

-----------------------------------------------------------------------------
(* The rest of a call of read, getcharNoWait or status.                    *)
ReadStep == ReadCopy \/ readConcluded \/ ReadTest \/ ReadReceive \/ StatusReset

ReceivePending == ORE \/ (~isDMAEnabled /\ RDR # None)

ReceiveIRQ == OverrunIRQ \/ RXNEIRQ

Receive ==
    \/ \E size \in 1 .. MaxRead : read(size)
    \/ getcharNoWait \/ status \/ suspendUntilDataReady
    \/ ReadStep \/ DMAReceiveFinishedHandler \/ ReceiveTrigger
    \/ DMAStore \/ \E b \in Byte : Arrive(b)

-----------------------------------------------------------------------------
(* The bytes that were received and are not yet read, oldest first.        *)
Received ==
    LET moved == IF DMAReceiveRunning THEN DMAReceiveRunningSize - rxLeft ELSE 0
    IN  elements(rxBuf, rxRead, (rxWrite + moved) % FifoLen)
            \o InRegister(RDR)

(* The bytes that arrive are read once each, in their order and unchanged, *)
(* however read, the interrupts, the DMA stream and ReceiveTrigger         *)
(* interleave; a byte that is given up is always the newest one, and is    *)
(* counted in uartRxError (hal_uart.cpp:515, 833, 902).                    *)
ReceivedInOrder ==
    [][\/ Received' = Received
       \/ RDR = None /\ Received' = Append(Received, RDR')
       \/ Received = got \o Received'
       \/ \E b \in Byte : Received = Append(Received', b) /\ uartRxError' # uartRxError]_rxVars

(* "data has arrived" (genericIO.cpp:75): a thread that waits for data is  *)
(* resumed when a byte arrives, unless the byte is lost to an overrun that *)
(* follows at once (hal_uart.cpp:893).  With DMA this needs that receiving *)
(* is started again by whoever made room in a full ring (lines 525, 582)   *)
(* and that ReceiveTrigger stops the stream.                               *)
ReaderWakesUp == rpc = "suspended" /\ Received # << >> ~> rpc # "suspended" \/ Received = << >>
=============================================================================
