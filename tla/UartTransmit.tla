---------------------------- MODULE UartTransmit ----------------------------
(***************************************************************************)
(* The transmitting side of the UART driver of the STM32F4                 *)
(* (src/bare-metal/stm32f4/hal/hal_uart.cpp): one thread writes bytes into *)
(* transmittBuffer and may wait until they are sent, the interrupts or the *)
(* DMA controller take them out.  The interrupts do not interrupt each     *)
(* other, so a handler is one step; the thread is interrupted between any  *)
(* two accesses to shared state, also inside USART_ITConfig, which loads   *)
(* and stores the control register.                                        *)
(***************************************************************************)
EXTENDS HalUart

CONSTANT MaxWrite  \* bound: bytes in one call of write

ASSUME WriteAssumption == MaxWrite \in Nat

VARIABLES txBuf, txRead, txWrite,  \* transmittBuffer
          interrupts,              \* of TXE and TC, those enabled in CR1
          DMATransmitRunning, DMATransmitRunningSize,
          txPos, txLeft,           \* of the DMA stream: address, NDTR
          txFinished,              \*   its interrupt TCIF
          DR, shift,               \* data register, byte that is on the line
          line,                    \* the byte that was sent last
          wpc, data, copied,       \* write: where it is, its bytes, how many are copied
          CR1,                     \* what USART_ITConfig loaded
          overtaken                \* history: the bytes were sent before write disabled TC

txRing == <<txBuf, txRead, txWrite>>
txDma == <<DMATransmitRunning, DMATransmitRunningSize, txPos, txLeft, txFinished>>
txLine == <<DR, shift, line>>
writerVars == <<wpc, data, copied, CR1, overtaken>>
txVars == <<txRing, interrupts, txDma, txLine, writerVars>>

(* After init and, with DMA, config; init enables TXE, and the first       *)
(* interrupt finds nothing to send.                                        *)
TransmitInit ==
    /\ txBuf = [i \in Index |-> Zero] /\ txRead = 0 /\ txWrite = 0
    /\ interrupts = {"TC"}
    /\ DMATransmitRunning = FALSE /\ DMATransmitRunningSize = 0
    /\ txPos = 0 /\ txLeft = 0 /\ txFinished = FALSE
    /\ DR = None /\ shift = None /\ line = None
    /\ wpc = "idle" /\ data = << >> /\ copied = 0 /\ CR1 = {} /\ overtaken = FALSE

writer(l, m) == wpc = l /\ wpc' = m

-----------------------------------------------------------------------------
(* HAL_UART::write: the buffer takes as many bytes as fit in one block.    *)
write(bytes) ==
    LET spaceinbuffer == blockToWrite(txRead, txWrite)
        size == smaller(spaceinbuffer, Len(bytes))
    IN
    /\ writer("idle", "copy") /\ size > 0
    /\ data' = SubSeq(bytes, 1, size)
    /\ UNCHANGED <<txRing, interrupts, txDma, txLine, copied, CR1, overtaken>>

(* HAL_UART::putcharNoWait: the same with put.                             *)
putcharNoWait(c) ==
    /\ writer("idle", "copy") /\ advanceIndex(txWrite) # txRead
    /\ data' = <<c>>
    /\ UNCHANGED <<txRing, interrupts, txDma, txLine, copied, CR1, overtaken>>

WriteCopy ==
    /\ writer("copy", "copy") /\ copied < Len(data)
    /\ txBuf' = [txBuf EXCEPT ![txWrite + copied] = data[copied + 1]]
    /\ copied' = copied + 1
    /\ UNCHANGED <<txRead, txWrite, interrupts, txDma, txLine, data, CR1, overtaken>>

writeConcluded ==
    /\ writer("copy", "loadTC") /\ copied = Len(data)
    /\ txWrite' = advanceIndexEx(txWrite, Len(data))
    /\ data' = << >> /\ copied' = 0 /\ overtaken' = FALSE
    /\ UNCHANGED <<txBuf, txRead, interrupts, txDma, txLine, CR1>>

(* USART_ITConfig loads CR1 and stores it with one bit changed.            *)
ITConfigLoad(from, to) ==
    /\ writer(from, to)
    /\ CR1' = interrupts
    /\ UNCHANGED <<txRing, interrupts, txDma, txLine, data, copied, overtaken>>

ITConfigStore(from, to, enabled) ==
    /\ writer(from, to)
    /\ interrupts' = enabled /\ CR1' = {}
    /\ UNCHANGED <<txRing, txDma, txLine, data, copied, overtaken>>

DisableTC == ITConfigLoad("loadTC", "storeTC") \/ ITConfigStore("storeTC", "test", CR1 \ {"TC"})

EnableTXE == ITConfigLoad("loadTXE", "storeTXE") \/ ITConfigStore("storeTXE", "idle", CR1 \cup {"TXE"})

WriteTest ==
    /\ writer("test", IF ~isDMAEnabled THEN "loadTXE" ELSE IF DMATransmitRunning THEN "idle" ELSE "send")
    /\ UNCHANGED <<txRing, interrupts, txDma, txLine, data, copied, CR1, overtaken>>

(* SendTxBufWithDMA and DMAStartTransfer, with readX = r.                  *)
SendTxBufWithDMA(r) ==
    /\ DMATransmitRunningSize' = blockToRead(r, txWrite)
    /\ DMATransmitRunning' = TRUE
    /\ txPos' = r /\ txLeft' = blockToRead(r, txWrite)

WriteSend ==
    /\ writer("send", "idle")
    /\ IF blockToRead(txRead, txWrite) > 0
       THEN SendTxBufWithDMA(txRead) /\ UNCHANGED <<txFinished, overtaken>>
       ELSE overtaken' = TRUE /\ UNCHANGED txDma
    /\ UNCHANGED <<txRing, interrupts, txLine, data, copied, CR1>>

-----------------------------------------------------------------------------
isWriteFinished == txRead = txWrite /\ DR = None /\ shift = None

(* suspendUntilWriteFinished tests and suspends with interrupts disabled.  *)
suspendUntilWriteFinished ==
    /\ writer("idle", "suspended") /\ ~isWriteFinished
    /\ UNCHANGED <<txRing, interrupts, txDma, txLine, data, copied, CR1, overtaken>>

upCallWriteFinished == wpc' = IF wpc = "suspended" THEN "idle" ELSE wpc

-----------------------------------------------------------------------------
(* The branches of UARTIRQHandler for TXE and TC.                          *)
TransmitEmpty == "TXE" \in interrupts /\ DR = None

TXEIRQ ==
    /\ TransmitEmpty
    /\ IF txRead # txWrite
       THEN DR' = txBuf[txRead] /\ txRead' = advanceIndex(txRead) /\ UNCHANGED interrupts
       ELSE interrupts' = (interrupts \ {"TXE"}) \cup {"TC"} /\ UNCHANGED <<DR, txRead>>
    /\ UNCHANGED <<txBuf, txWrite, txDma, shift, line, writerVars>>

TCIRQ ==
    /\ ~TransmitEmpty /\ "TC" \in interrupts /\ DR = None /\ shift = None
    /\ interrupts' = interrupts \ {"TC"}
    /\ upCallWriteFinished
    /\ UNCHANGED <<txRing, txDma, txLine, data, copied, CR1, overtaken>>

DMATransmitStops ==
    LET r == advanceIndexEx(txRead, DMATransmitRunningSize - txLeft) IN
    /\ txFinished /\ txFinished' = FALSE
    /\ txRead' = r
    /\ DMATransmitRunning' = FALSE
    /\ interrupts' = IF r = txWrite THEN interrupts \cup {"TC"} ELSE interrupts
    /\ UNCHANGED <<txBuf, txWrite, DMATransmitRunningSize, txPos, txLeft, txLine, writerVars>>

DMATransmitFinishedHandler ==
    LET r == advanceIndexEx(txRead, DMATransmitRunningSize - txLeft) IN
    /\ txFinished /\ txFinished' = FALSE
    /\ txRead' = r
    /\ IF r = txWrite
       THEN /\ DMATransmitRunning' = FALSE
            /\ interrupts' = interrupts \cup {"TC"}
            /\ UNCHANGED <<DMATransmitRunningSize, txPos, txLeft>>
       ELSE SendTxBufWithDMA(r) /\ UNCHANGED interrupts
    /\ UNCHANGED <<txBuf, txWrite, txLine, writerVars>>

-----------------------------------------------------------------------------
(* The hardware: the DMA stream refills the data register, which feeds the *)
(* line.                                                                   *)
DMATransfer ==
    /\ txLeft > 0 /\ DR = None
    /\ DR' = txBuf[txPos]
    /\ txPos' = txPos + 1 /\ txLeft' = txLeft - 1 /\ txFinished' = (txLeft = 1)
    /\ UNCHANGED <<txRing, interrupts, DMATransmitRunning, DMATransmitRunningSize,
                   shift, line, writerVars>>

Shift ==
    /\ \/ shift = None /\ DR # None /\ shift' = DR /\ DR' = None /\ UNCHANGED line
       \/ shift # None /\ line' = shift /\ shift' = None /\ UNCHANGED DR
    /\ UNCHANGED <<txRing, interrupts, txDma, writerVars>>

-----------------------------------------------------------------------------
Bytes == UNION {[1 .. n -> Byte] : n \in 1 .. MaxWrite}

(* The rest of a call of write or putcharNoWait.                           *)
WriteStep ==
    \/ WriteCopy \/ writeConcluded \/ DisableTC \/ EnableTXE \/ WriteTest \/ WriteSend

TransmitIRQ == TXEIRQ \/ TCIRQ

Transmit ==
    \/ \E bytes \in Bytes : write(bytes)
    \/ \E c \in Byte : putcharNoWait(c)
    \/ suspendUntilWriteFinished
    \/ WriteStep \/ DMATransmitFinishedHandler \/ DMATransfer \/ Shift

-----------------------------------------------------------------------------
(* The bytes that were accepted and are not yet sent, oldest first.        *)
Accepted ==
    LET moved == IF DMATransmitRunning THEN DMATransmitRunningSize - txLeft ELSE 0
    IN  InRegister(shift) \o InRegister(DR)
            \o elements(txBuf, (txRead + moved) % FifoLen, txWrite)

(* The bytes that write and putcharNoWait accepted are sent once each, in  *)
(* their order and unchanged, while the thread fills the same ring from    *)
(* which interrupts or DMA take them (hal_uart.cpp:547, 812, 910).         *)
SentInOrder ==
    [][\/ Accepted' = Accepted /\ line' = line
       \/ Accepted' = Accepted \o data /\ line' = line
       \/ Accepted = <<line'>> \o Accepted']_txVars

(* "last transmit order is concluded" (genericIO.cpp:61): a thread that    *)
(* waits for the end of its transmission is resumed, unless all its bytes  *)
(* left by DMA before write came to disable TC (line 559), when nothing    *)
(* enables it again.                                                       *)
WriterWakesUp == wpc = "suspended" ~> wpc # "suspended" \/ overtaken
=============================================================================
